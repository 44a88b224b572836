--------------------------- MODULE ReadNotifierProofs ---------------------------
(*****************************************************************************)
(* Proofs about ReadNotifier, for any number of tasks, endpoints, descriptors,  *)
(* waits, selector threads, datagrams and loops, of either kind, and whether    *)
(* the application's waits overlap or not.                                    *)
(*                                                                           *)
(* A reader is tied to the wait that registered it, to the notifier's record   *)
(* of that wait and to the endpoint's hold on its notifier; a selector thread   *)
(* that can run is the one its notifier knows.                                *)
(*****************************************************************************)
EXTENDS ReadNotifier, TLAPS

\* The futures and the threads there have been, and the callbacks that can be queued.
Made == DOMAIN futures \cup {None}
Begun == DOMAIN threads \cup {None}
Handles ==
    ({"wake"} \X Tasks) \cup ({"ready", "resolve"} \X DOMAIN futures) \cup {Cancelled}

\* A task between two awaits has control, and what it does next to its endpoint's
\* notifier is still allowed: nobody closed it in between, or the task will notice.
TaskInv(t) ==
    LET pc == task[t].pc
        e == task[t].ep
    IN /\ task[t].fut \in Made /\ task[t].thread \in Begun
       /\ pc \notin {"idle", "waiting", "asleep"} => cur = t
       /\ pc \notin {"idle", "run"} => e # None
       /\ pc \in {"ensure", "join", "request", "waiting"} => task[t].fut # None
       /\ pc \in {"ensure", "join", "request"} => ~ntf[e].closed
       /\ pc \in {"again", "ensure", "join", "request", "waiting"} =>
             ep[e].owns \/ ntf[e].closed
       /\ pc = "join" => ntf[e].thread = task[t].thread
       /\ pc \in {"closing", "aclosing", "asleep"} =>
             ntf[e].closed /\ ntf[e].thread \in {None, task[t].thread}

\* An endpoint holds its notifier until one of them is closed, and a closed notifier is
\* used for no other wait.
EndpointInv(e) ==
    /\ ntf[e].pending \in Made /\ ntf[e].waiter \in Made /\ ntf[e].thread \in Begun
    /\ ep[e].opened /\ ~ep[e].closed => ep[e].fd # None
    /\ ep[e].owns => ep[e].opened /\ ~ep[e].closed
    /\ ntf[e].closed =>
          ep[e].opened /\ ep[e].closed /\ ~ep[e].owns /\ ntf[e].waiter = None
    /\ ep[e].complete =>
          ntf[e].closed /\ ep[e].fd = None /\ ntf[e].pending = None /\ ntf[e].thread = None

\* A thread that can run is the one its notifier knows.
ThreadInv(k) ==
    /\ threads[k].pend \in Made
    /\ threads[k].pc = "post" => threads[k].pend # None
    /\ threads[k].pc # "dead" => ntf[threads[k].ep].thread = k

\* A reader is that of the wait its notifier knows, on the socket of an endpoint that
\* still has its notifier.
Watched(d, f) ==
    /\ native[loop] /\ futures[f].native /\ futures[f].fd = d
    /\ Awaits(futures[f].task, f)
    /\ ep[futures[f].ep].fd = d /\ ep[futures[f].ep].owns
    /\ ntf[futures[f].ep].waiter = f
ReaderInv(d) == readers[d] \in Made /\ (readers[d] # None => Watched(d, readers[d]))

IInv ==
    /\ TypeOK
    /\ queue \in Seq(Handles)
    /\ \A t \in Tasks : TaskInv(t)
    /\ \A e \in Endpoints : EndpointInv(e)
    /\ \A k \in DOMAIN threads : ThreadInv(k)
    /\ \A d \in Fds : ReaderInv(d)
-----------------------------------------------------------------------------
\* What has been made stays made.
Grows ==
    /\ DOMAIN futures \subseteq DOMAIN futures'
    /\ DOMAIN threads \subseteq DOMAIN threads'

LEMMA SeqGrows ==
    ASSUME NEW S, NEW T, S \subseteq T, NEW q \in Seq(S)
    PROVE  q \in Seq(T)
<1>1. q \in [1..Len(q) -> S] /\ Len(q) \in Nat
  OBVIOUS
<1>2. q \in [1..Len(q) -> T]
  BY <1>1
<1> QED
  BY <1>1, <1>2

LEMMA HandlesGrow ==
    ASSUME Grows, NEW q \in Seq(Handles)
    PROVE  q \in Seq(Handles')
<1>1. Handles \subseteq Handles'
  BY DEF Grows, Handles
<1> QED
  BY <1>1, SeqGrows

LEMMA QueueKept ==
    ASSUME IInv, Grows, UNCHANGED queue
    PROVE  queue' \in Seq(Handles')
<1>1. queue \in Seq(Handles)
  BY DEF IInv
<1> QED
  BY <1>1, HandlesGrow

\* The callbacks are those of this model, and one more of them can be queued.
LEMMA QueueType ==
    ASSUME IInv, NEW q \in Seq(Handles)
    PROVE  /\ q \in Seq(Handle)
           /\ \A h \in Handles : Append(q, h) \in Seq(Handles)
           /\ q # <<>> => Head(q) \in Handles /\ Tail(q) \in Seq(Handles)
           /\ \A d : Dropped(q, d) \in Seq(Handles)
<1>1. DOMAIN futures \subseteq FutureIds
  <2>1. futures \in Seq(Future) /\ Len(futures) <= MaxWaits
    BY DEF IInv, TypeOK
  <2> QED
    BY <2>1, BoundsAssumption DEF FutureIds
<1>2. Handles \subseteq Handle
  BY <1>1 DEF Handles, Handle
<1>3. q \in Seq(Handle)
  BY <1>2, SeqGrows
<1>4. Cancelled \in Handles
  BY DEF Handles
<1> HIDE DEF Handles
<1>5. q \in [1..Len(q) -> Handles] /\ Len(q) \in Nat
  OBVIOUS
<1>6. ASSUME NEW d
      PROVE  Dropped(q, d) \in Seq(Handles)
  <2>1. Dropped(q, d) \in [1..Len(q) -> Handles]
    BY <1>4, <1>5 DEF Dropped
  <2> QED
    BY <1>5, <2>1
<1> QED
  BY <1>3, <1>6

\* Ending a future keeps whose it is and whose task it wakes.
LEMMA DoneType ==
    ASSUME IInv, NEW f \in DOMAIN futures,
           NEW state \in {"pending", "result", "exception", "cancelled"}
    PROVE  /\ Done(f, state) \in Seq(Future) /\ Len(Done(f, state)) = Len(futures)
           /\ DOMAIN Done(f, state) = DOMAIN futures
           /\ \A g \in DOMAIN futures :
                /\ Done(f, state)[g].native = futures[g].native
                /\ Done(f, state)[g].fd = futures[g].fd
                /\ Done(f, state)[g].ep = futures[g].ep
                /\ Done(f, state)[g].task = futures[g].task
           /\ \A q \in Seq(Handles) : Woken(q, f) \in Seq(Handles)
<1>1. futures \in Seq(Future) /\ futures[f] \in Future
  BY DEF IInv, TypeOK
<1>2. \A g \in DOMAIN futures : futures[g] \in Future
  BY <1>1
<1>3. [futures[f] EXCEPT !.state = state] \in Future
  BY <1>1 DEF Future
<1>4. CASE futures[f].state = "pending"
  <2>1. Done(f, state) = [futures EXCEPT ![f] = [futures[f] EXCEPT !.state = state]]
    BY <1>4 DEF Done
  <2>2. Done(f, state) \in Seq(Future) /\ Len(Done(f, state)) = Len(futures)
        /\ DOMAIN Done(f, state) = DOMAIN futures
    BY <1>1, <1>3, <2>1
  <2>3. \A g \in DOMAIN futures : Done(f, state)[g] =
            IF g = f THEN [futures[f] EXCEPT !.state = state] ELSE futures[g]
    BY <2>1
  <2>4. \A g \in DOMAIN futures :
                /\ Done(f, state)[g].native = futures[g].native
                /\ Done(f, state)[g].fd = futures[g].fd
                /\ Done(f, state)[g].ep = futures[g].ep
                /\ Done(f, state)[g].task = futures[g].task
    BY <1>2, <2>3 DEF Future
  <2>5. <<"wake", futures[f].task>> \in Handles
    BY <1>1 DEF Handles, Future
  <2>6. \A q \in Seq(Handles) : Woken(q, f) \in Seq(Handles)
    BY <2>5, QueueType DEF Woken
  <2> QED
    BY <2>2, <2>4, <2>6
<1>5. CASE futures[f].state # "pending"
  <2>1. Done(f, state) = futures
    BY <1>5 DEF Done
  <2>2. \A q \in Seq(Handles) : Woken(q, f) \in Seq(Handles)
    BY <1>5 DEF Woken
  <2> QED
    BY <1>1, <2>1, <2>2
<1> QED
  BY <1>4, <1>5

LEMMA ThreadSet ==
    ASSUME threads \in Seq(Thread), NEW k \in DOMAIN threads, NEW a \in Thread,
           NEW s, s = [threads EXCEPT ![k] = a]
    PROVE  /\ s \in Seq(Thread) /\ Len(s) = Len(threads) /\ DOMAIN s = DOMAIN threads
           /\ s[k] = a /\ \A j \in DOMAIN threads : j # k => s[j] = threads[j]
  OBVIOUS

\* A thread that is told to stop is where it was.
LEMMA StoppedType ==
    ASSUME IInv, NEW k \in Begun
    PROVE  /\ Stopped(k) \in Seq(Thread) /\ Len(Stopped(k)) = Len(threads)
           /\ DOMAIN Stopped(k) = DOMAIN threads
           /\ \A j \in DOMAIN threads :
                /\ Stopped(k)[j].ep = threads[j].ep
                /\ Stopped(k)[j].pc = threads[j].pc
                /\ Stopped(k)[j].pend = threads[j].pend
<1>1. threads \in Seq(Thread)
  BY DEF IInv, TypeOK
<1>2. CASE k = None
  BY <1>1, <1>2 DEF Stopped
<1>3. CASE k # None
  <2> DEFINE a == [threads[k] EXCEPT !.stop = TRUE, !.woken = TRUE]
  <2>1. k \in DOMAIN threads /\ threads[k] \in Thread
    BY <1>1, <1>3 DEF Begun
  <2>2. a \in Thread /\ a.ep = threads[k].ep /\ a.pc = threads[k].pc
        /\ a.pend = threads[k].pend
    BY <2>1 DEF Thread
  <2>3. Stopped(k) = [threads EXCEPT ![k] = a]
    BY <1>3 DEF Stopped
  <2> HIDE DEF a
  <2> QED
    BY <1>1, <2>1, <2>2, <2>3, ThreadSet
<1> QED
  BY <1>2, <1>3

\* A task that has no control is not disturbed by the one that has, or by the loop: an
\* endpoint may let go of its notifier only to close it, and a closed one stays closed.
LEMMA Bystander ==
    ASSUME IInv, Grows, NEW u \in Tasks, task'[u] = task[u], cur # u,
           \A e \in Endpoints :
               /\ ntf[e].closed => ntf'[e].closed /\ ntf'[e].thread \in {None, ntf[e].thread}
               /\ ep[e].owns => ep'[e].owns \/ ntf'[e].closed
    PROVE  TaskInv(u)'
<1>1. TaskInv(u) /\ task[u] \in Task
  BY DEF IInv, TypeOK
<1>2. task[u].pc \in {"idle", "waiting", "asleep"}
  BY <1>1 DEF TaskInv, Task
<1>3. task[u].pc # "idle" => task[u].ep \in Endpoints
  BY <1>1, <1>2 DEF TaskInv, Task
<1> QED
  BY <1>1, <1>2, <1>3 DEF TaskInv, Grows, Made, Begun

\* No task, nor what it relies on, is changed by a step of the threads or the kernel.
LEMMA TaskKept ==
    ASSUME IInv, Grows, NEW u \in Tasks, task'[u] = task[u], UNCHANGED cur,
           \A e \in Endpoints :
               /\ ntf'[e].closed = ntf[e].closed /\ ntf'[e].thread = ntf[e].thread
               /\ ep'[e].owns = ep[e].owns
    PROVE  TaskInv(u)'
<1>1. TaskInv(u) /\ task[u] \in Task
  BY DEF IInv, TypeOK
<1>2. task[u].pc \notin {"idle", "run"} => task[u].ep \in Endpoints
  BY <1>1 DEF TaskInv, Task
<1> QED
  BY <1>1, <1>2 DEF TaskInv, Grows, Made, Begun

LEMMA EndpointKept ==
    ASSUME IInv, Grows, NEW e \in Endpoints, ep'[e] = ep[e],
           ntf'[e].closed = ntf[e].closed, ntf'[e].pending = ntf[e].pending,
           ntf'[e].waiter = ntf[e].waiter, ntf'[e].thread = ntf[e].thread
    PROVE  EndpointInv(e)'
  BY DEF IInv, EndpointInv, Grows, Made, Begun

LEMMA ThreadKept ==
    ASSUME IInv, Grows, NEW k \in DOMAIN threads, threads'[k].ep = threads[k].ep,
           threads'[k].pc = threads[k].pc, threads'[k].pend = threads[k].pend,
           \A e \in Endpoints : threads[k].ep = e => ntf'[e].thread = ntf[e].thread
    PROVE  ThreadInv(k)'
<1>1. threads[k] \in Thread
  BY DEF IInv, TypeOK
<1>2. threads[k].ep \in Endpoints
  BY <1>1 DEF Thread
<1> QED
  BY <1>2 DEF IInv, ThreadInv, Grows, Made

\* A reader that stays has its wait, its socket and its notifier's record.
FuturesKept ==
    \A f \in DOMAIN futures :
        /\ futures'[f].native = futures[f].native /\ futures'[f].fd = futures[f].fd
        /\ futures'[f].ep = futures[f].ep /\ futures'[f].task = futures[f].task

LEMMA ReaderKept ==
    ASSUME IInv, Grows, FuturesKept, UNCHANGED <<loop, native>>, NEW d \in Fds,
           readers'[d] \in {readers[d], None},
           \A t \in Tasks : readers'[d] # None /\ Awaits(t, readers[d]) =>
               task'[t].pc = "waiting" /\ task'[t].fut = readers[d],
           \A e \in Endpoints :
               /\ readers'[d] # None
               /\ ep[e].fd = d /\ ep[e].owns /\ ntf[e].waiter = readers[d]
               => ep'[e].fd = d /\ ep'[e].owns /\ ntf'[e].waiter = readers[d]
    PROVE  ReaderInv(d)'
<1>1. CASE readers'[d] = None
  BY <1>1 DEF ReaderInv, Made
<1>2. CASE readers'[d] # None
  <2>1. PICK f \in DOMAIN futures : f = readers[d]
    BY <1>2 DEF IInv, ReaderInv, Made
  <2>2. readers'[d] = f /\ Watched(d, f) /\ futures[f] \in Future
    BY <1>2, <2>1 DEF IInv, ReaderInv, TypeOK
  <2>3. futures[f].task \in Tasks /\ futures[f].ep \in Endpoints
    BY <2>2 DEF Future
  <2>4. /\ futures'[f].native = futures[f].native /\ futures'[f].fd = futures[f].fd
        /\ futures'[f].ep = futures[f].ep /\ futures'[f].task = futures[f].task
    BY DEF FuturesKept
  <2>5. task'[futures[f].task].pc = "waiting" /\ task'[futures[f].task].fut = f
    BY <1>2, <2>1, <2>2, <2>3 DEF Watched
  <2>6. /\ ep'[futures[f].ep].fd = d /\ ep'[futures[f].ep].owns
        /\ ntf'[futures[f].ep].waiter = f
    BY <1>2, <2>1, <2>2, <2>3 DEF Watched
  <2>7. f \in DOMAIN futures'
    BY DEF Grows
  <2> QED
    BY <2>2, <2>4, <2>5, <2>6, <2>7 DEF ReaderInv, Watched, Awaits, Made
<1> QED
  BY <1>1, <1>2

\* A callback of the application's own, and what a task does besides receiving.
LEMMA StartInv == ASSUME IInv, NEW t \in Tasks, Start(t) PROVE IInv'
<1>1. TypeOK' /\ Grows /\ UNCHANGED <<queue, readers, futures, ep, ntf, threads>>
  BY ZenonT(30) DEF IInv, TypeOK, Start, Task, Grows
<1>2. queue' \in Seq(Handles')
  BY <1>1, QueueKept
<1>3. ASSUME NEW u \in Tasks
      PROVE  TaskInv(u)'
  <2>1. cur = None /\ cur' = t /\ cur # u
    BY BoundsAssumption DEF Start
  <2>2. CASE u = t
    <3>1. task'[u].pc = "run" /\ task'[u].fut = task[u].fut /\ task'[u].thread = task[u].thread
      BY <2>2 DEF IInv, TypeOK, Task, Start
    <3> QED
      BY <1>1, <2>1, <2>2, <3>1 DEF IInv, TaskInv, Made, Begun
  <2>3. CASE u # t
    <3>1. task'[u] = task[u]
      BY <2>3 DEF IInv, TypeOK, Start
    <3> QED
      BY <1>1, <2>1, <3>1, Bystander
  <2> QED
    BY <2>2, <2>3
<1>4. ASSUME NEW e \in Endpoints
      PROVE  EndpointInv(e)'
  BY <1>1, EndpointKept
<1>5. ASSUME NEW k \in DOMAIN threads'
      PROVE  ThreadInv(k)'
  BY <1>1, ThreadKept
<1>6. \A d \in Fds : ReaderInv(d)'
  BY <1>1, ReaderKept DEF IInv, TypeOK, Start, FuturesKept, Awaits
<1> QED
  BY <1>1, <1>2, <1>3, <1>4, <1>5, <1>6 DEF IInv

LEMMA PauseInv == ASSUME IInv, NEW t \in Tasks, Pause(t) PROVE IInv'
<1>1. /\ cur = t /\ cur' = None /\ Grows /\ FuturesKept
      /\ UNCHANGED <<loop, native, queue, readers, futures, ep, ntf, threads>>
  BY DEF Pause, InControl, Grows, FuturesKept
<1>2. task[t] \in Task /\ task[t].pc = "run" /\ task \in [Tasks -> Task]
  BY DEF IInv, TypeOK, Pause, InControl
<1>3. [task[t] EXCEPT !.pc = "idle", !.ep = None, !.out = "none"] \in Task
  BY <1>2 DEF Task
<1>4. /\ task' \in [Tasks -> Task]
      /\ \A u \in Tasks : u # t => task'[u] = task[u]
      /\ task'[t].pc = "idle" /\ task'[t].fut = task[t].fut
      /\ task'[t].thread = task[t].thread
  BY <1>2, <1>3 DEF Pause, Task
<1>5. TypeOK'
  BY <1>1, <1>4 DEF IInv, TypeOK
<1>6. queue' \in Seq(Handles')
  BY <1>1, QueueKept
<1>7. ASSUME NEW u \in Tasks
      PROVE  TaskInv(u)'
  <2>1. CASE u = t
    BY <1>1, <1>4, <2>1 DEF IInv, TaskInv, Made, Begun
  <2>2. CASE u # t
    BY <1>1, <1>4, <2>2, Bystander
  <2> QED
    BY <2>1, <2>2
<1>8. ASSUME NEW e \in Endpoints
      PROVE  EndpointInv(e)'
  BY <1>1, EndpointKept
<1>9. ASSUME NEW k \in DOMAIN threads'
      PROVE  ThreadInv(k)'
  BY <1>1, ThreadKept
<1>10. \A d \in Fds : ReaderInv(d)'
  BY <1>1, <1>2, <1>4, ReaderKept DEF Awaits
<1> QED
  BY <1>5, <1>6, <1>7, <1>8, <1>9, <1>10 DEF IInv

LEMMA OpenInv == ASSUME IInv, NEW t \in Tasks, NEW e \in Endpoints, Open(t, e) PROVE IInv'
<1>1. /\ cur = t /\ ~ep[e].opened /\ Grows /\ FuturesKept
      /\ UNCHANGED <<loop, native, queue, readers, futures, task, cur, ntf, threads>>
  BY DEF Open, InControl, Grows, FuturesKept
<1>2. PICK d \in Fds : ep' = [ep EXCEPT ![e].fd = d, ![e].opened = TRUE]
  BY DEF Open
<1>3. TypeOK'
  BY ZenonT(30), <1>1, <1>2 DEF IInv, TypeOK, Endpoint
<1>4. /\ \A x \in Endpoints : x # e => ep'[x] = ep[x]
      /\ ep'[e].fd = d /\ ep'[e].owns = ep[e].owns /\ ep'[e].complete = ep[e].complete
  BY <1>2 DEF IInv, TypeOK, Endpoint
<1>5. queue' \in Seq(Handles')
  BY <1>1, QueueKept
<1>6. EndpointInv(e) /\ d # None
  BY BoundsAssumption DEF IInv
<1>7. ~ep[e].owns /\ ~ntf[e].closed /\ ~ep[e].complete
  BY <1>1, <1>6 DEF EndpointInv
<1>8. ASSUME NEW u \in Tasks
      PROVE  TaskInv(u)'
  BY <1>1, <1>4, TaskKept
<1>9. ASSUME NEW x \in Endpoints
      PROVE  EndpointInv(x)'
  <2>1. CASE x = e
    BY <1>1, <1>4, <1>6, <1>7, <2>1 DEF EndpointInv, Made, Begun
  <2>2. CASE x # e
    BY <1>1, <1>4, <2>2, EndpointKept
  <2> QED
    BY <2>1, <2>2
<1>10. ASSUME NEW k \in DOMAIN threads'
      PROVE  ThreadInv(k)'
  BY <1>1, ThreadKept
<1>11. \A c \in Fds : ReaderInv(c)'
  BY <1>1, <1>4, <1>7, ReaderKept DEF Awaits
<1> QED
  BY <1>3, <1>5, <1>8, <1>9, <1>10, <1>11 DEF IInv

\* Cancelling changes no wait that is in progress but by way of its future.
LEMMA CancelInv ==
    ASSUME IInv, NEW t \in Tasks, NEW u \in Tasks, Cancel(t, u)
    PROVE  IInv'
<1>1. /\ cur = t /\ UNCHANGED <<loop, native, readers, cur, ep, ntf, threads>>
  BY DEF Cancel, InControl
<1>2. TypeOK /\ task[u] \in Task /\ TaskInv(u) /\ queue \in Seq(Handles)
  BY DEF IInv, TypeOK
<1>3. CASE UNCHANGED task
  <2>1. task[u].pc = "waiting" /\ futures' = Done(task[u].fut, "cancelled")
        /\ queue' = Woken(queue, task[u].fut)
    BY <1>2, <1>3 DEF Cancel, TypeOK, Task
  <2>2. task[u].fut \in DOMAIN futures
    BY <1>2, <2>1 DEF TaskInv, Made
  <2>3. /\ futures' \in Seq(Future) /\ Len(futures') = Len(futures)
        /\ DOMAIN futures' = DOMAIN futures /\ FuturesKept
        /\ queue' \in Seq(Handles)
    BY <1>2, <2>1, <2>2, DoneType DEF FuturesKept
  <2>4. Grows
    BY <1>1, <2>3 DEF Grows
  <2>5. TypeOK'
    BY <1>1, <1>2, <1>3, <2>3, QueueType DEF TypeOK
  <2>6. queue' \in Seq(Handles')
    BY <2>3, <2>4, HandlesGrow
  <2>7. \A v \in Tasks : TaskInv(v)'
    BY <1>1, <1>3, <2>4, TaskKept
  <2>8. \A e \in Endpoints : EndpointInv(e)'
    BY <1>1, <2>4, EndpointKept
  <2>9. \A k \in DOMAIN threads' : ThreadInv(k)'
    BY <1>1, <2>4, ThreadKept
  <2>10. \A d \in Fds : ReaderInv(d)'
    BY <1>1, <1>3, <2>3, <2>4, ReaderKept DEF Awaits
  <2> QED
    BY <2>5, <2>6, <2>7, <2>8, <2>9, <2>10 DEF IInv
<1>4. CASE task' = [task EXCEPT ![u].cancel = TRUE] /\ UNCHANGED <<futures, queue>>
  <2>1. Grows /\ FuturesKept
    BY <1>1, <1>4 DEF Grows, FuturesKept
  <2>2. /\ task' \in [Tasks -> Task]
        /\ \A v \in Tasks : /\ task'[v].pc = task[v].pc /\ task'[v].ep = task[v].ep
                            /\ task'[v].fut = task[v].fut /\ task'[v].thread = task[v].thread
    BY <1>2, <1>4 DEF TypeOK, Task
  <2>3. TypeOK'
    BY <1>1, <1>2, <1>4, <2>2 DEF TypeOK
  <2>4. queue' \in Seq(Handles')
    BY <1>4, <2>1, QueueKept
  <2>5. \A v \in Tasks : TaskInv(v)'
    BY <1>1, <1>4, <2>2 DEF IInv, TaskInv, Made, Begun
  <2>6. \A e \in Endpoints : EndpointInv(e)'
    BY <1>1, <2>1, EndpointKept
  <2>7. \A k \in DOMAIN threads' : ThreadInv(k)'
    BY <1>1, <2>1, ThreadKept
  <2>8. \A d \in Fds : ReaderInv(d)'
    BY <1>1, <2>1, <2>2, ReaderKept DEF Awaits
  <2> QED
    BY <2>3, <2>4, <2>5, <2>6, <2>7, <2>8 DEF IInv
<1> QED
  BY <1>3, <1>4 DEF Cancel
-----------------------------------------------------------------------------
\* A wait begins: its future is the notifier's and, on a loop with add_reader, the
\* descriptor's.
LEMMA RegisterInv ==
    ASSUME IInv, NEW t \in Tasks, NEW e \in Endpoints, Register(t, e),
           cur = t, task[t].pc \in {"run", "again"},
           ep[e].opened, ~ep[e].closed, ~ntf[e].closed,
           ep' = [ep EXCEPT ![e].owns = TRUE], UNCHANGED <<loop, native, threads>>
    PROVE  IInv'
<1> DEFINE f == Len(futures) + 1
           new == [state |-> "pending", ep |-> e, task |-> t, fd |-> ep[e].fd,
                   native |-> native[loop]]
<1>1. TypeOK /\ queue \in Seq(Handles) /\ EndpointInv(e) /\ TaskInv(t)
  BY DEF IInv
<1>2. /\ futures \in Seq(Future) /\ Len(futures) \in Nat /\ f \in Nat /\ f <= MaxWaits
      /\ futures' = Append(futures, new)
  BY <1>1 DEF TypeOK, Register
<1>3. PICK d \in Fds : d = ep[e].fd
  BY <1>1 DEF EndpointInv, TypeOK, Endpoint
<1>4. new \in Future
  BY <1>1, <1>3 DEF TypeOK, Future
<1>5. /\ new.native = native[loop] /\ new.fd = d /\ new.ep = e /\ new.task = t
  BY <1>3
<1> HIDE DEF new
<1>6. /\ futures' \in Seq(Future) /\ Len(futures') = f
      /\ DOMAIN futures' = 1..f /\ DOMAIN futures = 1..f - 1
      /\ futures'[f] = new /\ \A g \in DOMAIN futures : futures'[g] = futures[g]
  BY <1>2, <1>4
<1>7. Grows /\ FuturesKept
  BY <1>2, <1>6 DEF Grows, FuturesKept
<1>8. f \in FutureIds /\ f \in DOMAIN futures' /\ f # None /\ f \notin DOMAIN futures
  BY <1>2, <1>6, BoundsAssumption DEF FutureIds
<1>9. /\ ep' \in [Endpoints -> Endpoint]
      /\ \A x \in Endpoints : x # e => ep'[x] = ep[x]
      /\ ep'[e].owns /\ ep'[e].fd = d /\ ep'[e].opened /\ ~ep'[e].closed
      /\ ep'[e].complete = ep[e].complete
  BY <1>1, <1>3 DEF TypeOK, Endpoint
<1>10. task[t] \in Task /\ ntf[e] \in Notifier
  BY <1>1 DEF TypeOK
<1> HIDE DEF f
<1>11. ASSUME NEW u \in Tasks, u # t, task'[u] = task[u],
              \A x \in Endpoints : ntf'[x].closed = ntf[x].closed /\ ntf'[x].thread = ntf[x].thread
       PROVE  TaskInv(u)'
  <2>1. \A x \in Endpoints : ep[x].owns => ep'[x].owns
    BY <1>9
  <2> QED
    BY <1>7, <1>11, <2>1, Bystander
<1>12. ASSUME ntf'[e].closed = ntf[e].closed, ntf'[e].thread = ntf[e].thread,
              ntf'[e].waiter = f, ntf'[e].pending \in {f, ntf[e].pending}
       PROVE  EndpointInv(e)'
  <2>1. ~ep[e].complete
    BY <1>1 DEF EndpointInv
  <2> QED
    BY <1>1, <1>7, <1>8, <1>9, <1>12, <2>1 DEF EndpointInv, Made, Begun, Grows
<1>13. CASE native[loop]
  <2>1. /\ readers' = [readers EXCEPT ![d] = f] /\ queue' = Dropped(queue, d)
        /\ ntf' = [ntf EXCEPT ![e].waiter = f] /\ cur' = None
        /\ task' = [task EXCEPT ![t].pc = "waiting", ![t].ep = e, ![t].fut = f]
    BY <1>3, <1>13 DEF Register, f
  <2>2. /\ ntf' \in [Endpoints -> Notifier]
        /\ \A x \in Endpoints : x # e => ntf'[x] = ntf[x]
        /\ ntf'[e].waiter = f /\ ntf'[e].closed = ntf[e].closed
        /\ ntf'[e].pending = ntf[e].pending /\ ntf'[e].thread = ntf[e].thread
    BY ZenonT(30), <1>1, <1>8, <2>1 DEF TypeOK, Notifier
  <2>3. [task[t] EXCEPT !.pc = "waiting", !.ep = e, !.fut = f] \in Task
    BY <1>8, <1>10 DEF Task
  <2>4. /\ task' \in [Tasks -> Task]
        /\ \A u \in Tasks : u # t => task'[u] = task[u]
        /\ task'[t].pc = "waiting" /\ task'[t].ep = e /\ task'[t].fut = f
        /\ task'[t].thread = task[t].thread
    BY <1>1, <1>10, <2>1, <2>3 DEF TypeOK, Task
  <2>5. queue' \in Seq(Handles)
    BY <1>1, <2>1, QueueType
  <2>6. readers' \in [Fds -> FutureIds \cup {None}]
    BY <1>1, <1>8, <2>1 DEF TypeOK
  <2>7. TypeOK'
    BY <1>1, <1>2, <1>6, <1>9, <2>1, <2>2, <2>4, <2>5, <2>6, QueueType DEF TypeOK
  <2>8. queue' \in Seq(Handles')
    BY <1>7, <2>5, HandlesGrow
  <2>9. TaskInv(t)'
    BY <1>1, <1>7, <1>8, <1>9, <2>1, <2>2, <2>4, BoundsAssumption DEF TaskInv, Made, Begun
  <2>10. \A u \in Tasks : TaskInv(u)'
    BY <1>11, <2>2, <2>4, <2>9
  <2>11. \A x \in Endpoints : EndpointInv(x)'
    BY <1>7, <1>9, <1>12, <2>2, EndpointKept
  <2>12. \A k \in DOMAIN threads' : ThreadInv(k)'
    BY <1>1, <1>7, <2>2, ThreadKept
  <2>13. ReaderInv(d)'
    BY ZenonT(30), <1>3, <1>5, <1>6, <1>8, <1>9, <1>13, <2>1, <2>2, <2>4, <1>1
       DEF ReaderInv, Watched, Awaits, Made, TypeOK
  <2>14. ASSUME NEW c \in Fds, c # d
         PROVE  ReaderInv(c)'
    <3>1. readers'[c] = readers[c]
      BY <1>1, <2>1, <2>14 DEF TypeOK
    <3>2. \A u \in Tasks : Awaits(u, readers[c]) =>
              task'[u].pc = "waiting" /\ task'[u].fut = readers[c]
      BY <2>4 DEF Awaits
    <3>3. \A x \in Endpoints : ep[x].fd = c => ep'[x] = ep[x] /\ ntf'[x] = ntf[x]
      BY <1>3, <1>9, <2>2, <2>14
    <3> QED
      BY <1>7, <3>1, <3>2, <3>3, ReaderKept
  <2>15. \A c \in Fds : ReaderInv(c)'
    BY <2>13, <2>14
  <2> QED
    BY <2>7, <2>8, <2>10, <2>11, <2>12, <2>15 DEF IInv
<1>14. CASE ~native[loop]
  <2>1. /\ ntf' = [ntf EXCEPT ![e].waiter = f, ![e].pending = f]
        /\ task' = [task EXCEPT ![t].pc = "ensure", ![t].ep = e, ![t].fut = f]
        /\ UNCHANGED <<readers, queue, cur>>
    BY <1>3, <1>14 DEF Register, f
  <2>2. /\ ntf' \in [Endpoints -> Notifier]
        /\ \A x \in Endpoints : x # e => ntf'[x] = ntf[x]
        /\ ntf'[e].waiter = f /\ ntf'[e].closed = ntf[e].closed
        /\ ntf'[e].pending = f /\ ntf'[e].thread = ntf[e].thread
    BY ZenonT(30), <1>1, <1>8, <2>1 DEF TypeOK, Notifier
  <2>3. [task[t] EXCEPT !.pc = "ensure", !.ep = e, !.fut = f] \in Task
    BY <1>8, <1>10 DEF Task
  <2>4. /\ task' \in [Tasks -> Task]
        /\ \A u \in Tasks : u # t => task'[u] = task[u]
        /\ task'[t].pc = "ensure" /\ task'[t].ep = e /\ task'[t].fut = f
        /\ task'[t].thread = task[t].thread
    BY <1>1, <1>10, <2>1, <2>3 DEF TypeOK, Task
  <2>5. queue' \in Seq(Handles')
    BY <1>7, <2>1, QueueKept
  <2>6. TypeOK'
    BY <1>1, <1>2, <1>6, <1>9, <2>1, <2>2, <2>4 DEF TypeOK
  <2>7. TaskInv(t)'
    BY <1>1, <1>7, <1>8, <1>9, <2>1, <2>2, <2>4, BoundsAssumption DEF TaskInv, Made, Begun
  <2>8. \A u \in Tasks : TaskInv(u)'
    BY <1>11, <2>2, <2>4, <2>7
  <2>9. \A x \in Endpoints : EndpointInv(x)'
    BY <1>7, <1>9, <1>12, <2>2, EndpointKept
  <2>10. \A k \in DOMAIN threads' : ThreadInv(k)'
    BY <1>1, <1>7, <2>2, ThreadKept
  <2>11. \A c \in Fds : readers[c] = None
    BY <1>14 DEF IInv, ReaderInv, Watched
  <2>12. \A c \in Fds : ReaderInv(c)'
    BY <2>1, <2>11 DEF ReaderInv, Made
  <2> QED
    BY <2>5, <2>6, <2>8, <2>9, <2>10, <2>12 DEF IInv
<1> QED
  BY <1>13, <1>14

\* A call that finds its endpoint or its notifier closed.
LEMMA RefusedInv ==
    ASSUME IInv, NEW t \in Tasks, cur = t, task[t].pc \in {"run", "again"},
           task' = [task EXCEPT ![t].pc = "run", ![t].out = "RuntimeError"],
           UNCHANGED <<loop, native, queue, readers, futures, cur, ep, ntf, threads>>
    PROVE  IInv'
<1>1. Grows /\ FuturesKept
  BY DEF Grows, FuturesKept
<1>2. task[t] \in Task /\ task \in [Tasks -> Task]
  BY DEF IInv, TypeOK
<1>3. [task[t] EXCEPT !.pc = "run", !.out = "RuntimeError"] \in Task
  BY <1>2 DEF Task
<1>4. /\ task' \in [Tasks -> Task]
      /\ \A u \in Tasks : u # t => task'[u] = task[u]
      /\ task'[t].pc = "run" /\ task'[t].fut = task[t].fut
      /\ task'[t].thread = task[t].thread
  BY <1>2, <1>3 DEF Task
<1>5. TypeOK'
  BY <1>4 DEF IInv, TypeOK
<1>6. queue' \in Seq(Handles')
  BY <1>1, QueueKept
<1>7. ASSUME NEW u \in Tasks
      PROVE  TaskInv(u)'
  <2>1. CASE u = t
    BY <1>4, <2>1 DEF IInv, TaskInv, Made, Begun
  <2>2. CASE u # t
    BY <1>1, <1>4, <2>2, TaskKept
  <2> QED
    BY <2>1, <2>2
<1>8. \A e \in Endpoints : EndpointInv(e)'
  BY <1>1, EndpointKept
<1>9. \A k \in DOMAIN threads' : ThreadInv(k)'
  BY <1>1, ThreadKept
<1>10. \A d \in Fds : ReaderInv(d)'
  BY <1>1, <1>4, ReaderKept DEF Awaits
<1> QED
  BY <1>5, <1>6, <1>7, <1>8, <1>9, <1>10 DEF IInv

LEMMA RecvInv == ASSUME IInv, NEW t \in Tasks, NEW e \in Endpoints, Recv(t, e) PROVE IInv'
<1>1. cur = t /\ task[t].pc = "run" /\ ep[e].opened /\ UNCHANGED <<loop, native, threads>>
  BY DEF Recv, InControl
<1>2. EndpointInv(e) /\ task[t] \in Task /\ task \in [Tasks -> Task]
  BY DEF IInv, TypeOK
<1>3. CASE ep[e].owns \/ ~ep[e].closed
  <2>1. Register(t, e) /\ ep' = [ep EXCEPT ![e].owns = TRUE]
    BY <1>3 DEF Recv
  <2>2. ~ep[e].closed /\ ~ntf[e].closed
    BY <1>2, <1>3 DEF EndpointInv
  <2> QED
    BY <1>1, <2>1, <2>2, RegisterInv
<1>4. CASE ~(ep[e].owns \/ ~ep[e].closed)
  <2>1. /\ task' = [task EXCEPT ![t].out = "RuntimeError"]
        /\ UNCHANGED <<queue, readers, futures, cur, ep, ntf>>
    BY <1>4 DEF Recv
  <2>2. task' = [task EXCEPT ![t].pc = "run", ![t].out = "RuntimeError"]
    BY <1>1, <1>2, <2>1 DEF Task
  <2> QED
    BY <1>1, <2>1, <2>2, RefusedInv
<1> QED
  BY <1>3, <1>4

LEMMA WaitAgainInv == ASSUME IInv, NEW t \in Tasks, WaitAgain(t) PROVE IInv'
<1>1. cur = t /\ task[t].pc = "again" /\ UNCHANGED <<loop, native, ep, threads>>
  BY DEF WaitAgain, InControl
<1>2. task[t] \in Task /\ TaskInv(t) /\ ep \in [Endpoints -> Endpoint]
  BY DEF IInv, TypeOK
<1>3. PICK e \in Endpoints : e = task[t].ep
  BY <1>1, <1>2 DEF TaskInv, Task
<1>4. CASE ntf[e].closed
  BY <1>1, <1>3, <1>4, RefusedInv DEF WaitAgain
<1>5. CASE ~ntf[e].closed
  <2>1. Register(t, e)
    BY <1>3, <1>5 DEF WaitAgain
  <2>2. ep[e].owns
    BY <1>1, <1>2, <1>3, <1>5 DEF TaskInv
  <2>3. ep[e].opened /\ ~ep[e].closed
    BY <2>2 DEF IInv, EndpointInv
  <2>4. ep' = [ep EXCEPT ![e].owns = TRUE]
    BY <1>1, <1>2, <2>2 DEF Endpoint
  <2> QED
    BY <1>1, <1>5, <2>1, <2>3, <2>4, RegisterInv
<1> QED
  BY <1>4, <1>5
-----------------------------------------------------------------------------
\* The notifier's selector thread is the one the loop has, or there is none: only then
\* is one started.
LEMMA EnsureThreadInv == ASSUME IInv, NEW t \in Tasks, EnsureThread(t) PROVE IInv'
<1>1. /\ cur = t /\ task[t].pc = "ensure"
      /\ UNCHANGED <<loop, native, queue, readers, futures, cur, ep>>
  BY DEF EnsureThread, InControl
<1>2. /\ TypeOK /\ task[t] \in Task /\ TaskInv(t) /\ task \in [Tasks -> Task]
      /\ ntf \in [Endpoints -> Notifier] /\ threads \in Seq(Thread)
  BY DEF IInv, TypeOK
<1>3. PICK e \in Endpoints : e = task[t].ep
  BY <1>1, <1>2 DEF TaskInv, Task
<1>4. /\ EndpointInv(e) /\ ntf[e] \in Notifier /\ ~ntf[e].closed /\ task[t].fut # None
      /\ ep[e].owns /\ ~ep[e].complete
  BY <1>1, <1>2, <1>3 DEF IInv, TaskInv, EndpointInv
<1>5. FuturesKept
  BY <1>1 DEF FuturesKept
\* What each of the three ways has in common.
<1>6. ASSUME Grows, threads' \in Seq(Thread), Len(threads') <= MaxThreads,
             task' \in [Tasks -> Task], \A u \in Tasks : u # t => task'[u] = task[u],
             task'[t].pc \in {"request", "join"},
             task'[t].ep = e, task'[t].fut = task[t].fut, task'[t].thread \in Begun',
             task'[t].pc = "join" => ntf'[e].thread = task'[t].thread,
             ntf' \in [Endpoints -> Notifier],
             \A x \in Endpoints : x # e => ntf'[x] = ntf[x],
             ntf'[e].closed = ntf[e].closed, ntf'[e].pending = ntf[e].pending,
             ntf'[e].waiter = ntf[e].waiter, ntf'[e].thread \in Begun',
             \A k \in DOMAIN threads' : ThreadInv(k)'
      PROVE  IInv'
  <2>1. TypeOK'
    BY <1>1, <1>2, <1>6 DEF TypeOK
  <2>2. queue' \in Seq(Handles')
    BY <1>1, <1>6, QueueKept
  <2>3. TaskInv(t)'
    BY <1>1, <1>2, <1>3, <1>4, <1>6 DEF TaskInv, Made, Begun
  <2>4. ASSUME NEW u \in Tasks, u # t
        PROVE  TaskInv(u)'
    <3>1. \A x \in Endpoints : ntf[x].closed => ntf'[x] = ntf[x]
      BY <1>4, <1>6
    <3> QED
      BY <1>1, <1>6, <2>4, <3>1, Bystander
  <2>5. EndpointInv(e)'
    BY <1>1, <1>4, <1>6 DEF EndpointInv, Made, Begun, Grows
  <2>6. \A x \in Endpoints : EndpointInv(x)'
    BY <1>1, <1>6, <2>5, EndpointKept
  <2>7. \A d \in Fds : ReaderInv(d)'
    <3>1. \A u \in Tasks : \A f : Awaits(u, f) => u # t
      BY <1>1 DEF Awaits
    <3>2. \A x \in Endpoints : ntf'[x].waiter = ntf[x].waiter
      BY <1>6
    <3> QED
      BY <1>1, <1>5, <1>6, <3>1, <3>2, ReaderKept DEF Awaits
  <2>8. \A u \in Tasks : TaskInv(u)'
    BY <2>3, <2>4
  <2> QED
    BY <1>6, <2>1, <2>2, <2>6, <2>7, <2>8 DEF IInv
<1>7. ASSUME NEW pc \in {"request", "join"}, NEW k \in ThreadIds \cup {None},
             task' = [task EXCEPT ![t].pc = pc, ![t].thread = k]
      PROVE  /\ task' \in [Tasks -> Task]
             /\ \A u \in Tasks : u # t => task'[u] = task[u]
             /\ task'[t].pc = pc /\ task'[t].ep = e /\ task'[t].fut = task[t].fut
             /\ task'[t].thread = k
  <2>1. [task[t] EXCEPT !.pc = pc, !.thread = k] \in Task
    BY <1>2 DEF Task
  <2> QED
    BY <1>2, <1>3, <1>7, <2>1 DEF Task
<1>8. task[t].thread \in ThreadIds \cup {None} /\ task[t].thread \in Begun
  BY <1>2 DEF Task, TaskInv
<1>9. ASSUME NEW pc, task' = [task EXCEPT ![t].pc = pc]
      PROVE  task' = [task EXCEPT ![t].pc = pc, ![t].thread = task[t].thread]
  BY <1>2, <1>9 DEF Task
<1>10. CASE ntf[e].thread # None /\ ntf[e].loop = loop
  <2>1. task' = [task EXCEPT ![t].pc = "request"] /\ UNCHANGED <<ntf, threads>>
    BY <1>3, <1>10, <1>4 DEF EnsureThread
  <2>2. Grows
    BY <1>1, <2>1 DEF Grows
  <2>3. \A k \in DOMAIN threads' : ThreadInv(k)'
    BY <1>1, <2>1, <2>2, ThreadKept
  <2>4. /\ task' \in [Tasks -> Task]
        /\ \A u \in Tasks : u # t => task'[u] = task[u]
        /\ task'[t].pc = "request" /\ task'[t].ep = e /\ task'[t].fut = task[t].fut
        /\ task'[t].thread = task[t].thread
    BY <1>7, <1>8, <1>9, <2>1
  <2>5. Begun' = Begun /\ ntf[e].thread \in Begun /\ Len(threads) <= MaxThreads
    BY <1>2, <1>4, <2>1 DEF Begun, EndpointInv, TypeOK
  <2> QED
    BY <1>2, <1>6, <1>8, <2>1, <2>2, <2>3, <2>4, <2>5
<1>11. CASE ntf[e].thread # None /\ ntf[e].loop # loop
  <2>1. /\ threads' = Stopped(ntf[e].thread)
        /\ ntf' = [ntf EXCEPT ![e].request = TRUE]
        /\ task' = [task EXCEPT ![t].pc = "join", ![t].thread = ntf[e].thread]
    BY <1>3, <1>11 DEF EnsureThread
  <2>2. ntf[e].thread \in Begun /\ ntf[e].thread \in ThreadIds \cup {None}
    BY <1>4 DEF EndpointInv, Notifier
  <2>3. /\ threads' \in Seq(Thread) /\ Len(threads') = Len(threads)
        /\ DOMAIN threads' = DOMAIN threads
        /\ \A j \in DOMAIN threads : /\ threads'[j].ep = threads[j].ep
                                     /\ threads'[j].pc = threads[j].pc
                                     /\ threads'[j].pend = threads[j].pend
    BY <2>1, <2>2, StoppedType
  <2>4. Grows /\ Begun' = Begun /\ Len(threads') <= MaxThreads
    BY <1>1, <1>2, <2>3 DEF Grows, Begun, TypeOK
  <2>5. /\ ntf' \in [Endpoints -> Notifier]
        /\ \A x \in Endpoints : x # e => ntf'[x] = ntf[x]
        /\ ntf'[e].closed = ntf[e].closed /\ ntf'[e].pending = ntf[e].pending
        /\ ntf'[e].waiter = ntf[e].waiter /\ ntf'[e].thread = ntf[e].thread
    BY <1>2, <1>4, <2>1 DEF Notifier
  <2>6. \A k \in DOMAIN threads' : ThreadInv(k)'
    BY <2>3, <2>4, <2>5, ThreadKept
  <2>7. /\ task' \in [Tasks -> Task]
        /\ \A u \in Tasks : u # t => task'[u] = task[u]
        /\ task'[t].pc = "join" /\ task'[t].ep = e /\ task'[t].fut = task[t].fut
        /\ task'[t].thread = ntf[e].thread
    BY <1>7, <2>1, <2>2
  <2> QED
    BY <1>6, <2>2, <2>3, <2>4, <2>5, <2>6, <2>7
<1>12. CASE ntf[e].thread = None
  <2> DEFINE n == Len(threads) + 1
             new == [ep |-> e, loop |-> loop, stop |-> FALSE, woken |-> FALSE,
                     pc |-> "ask", pend |-> None]
  <2>1. /\ Len(threads) < MaxThreads
        /\ threads' = Append(threads, new)
        /\ ntf' = [ntf EXCEPT ![e].thread = n, ![e].loop = loop]
        /\ task' = [task EXCEPT ![t].pc = "request"]
    BY <1>3, <1>12 DEF EnsureThread
  <2>2. new \in Thread
    BY <1>2 DEF TypeOK, Thread
  <2>3. new.ep = e /\ new.pc = "ask" /\ new.pend = None
    OBVIOUS
  <2> HIDE DEF new
  <2>4. /\ threads' \in Seq(Thread) /\ Len(threads') = n /\ n \in Nat
        /\ DOMAIN threads' = 1..n /\ DOMAIN threads = 1..n - 1
        /\ threads'[n] = new /\ \A k \in DOMAIN threads : threads'[k] = threads[k]
    BY <1>2, <2>1, <2>2
  <2>5. /\ Grows /\ Len(threads') <= MaxThreads /\ n \in ThreadIds
        /\ Begun \subseteq Begun' /\ n \in Begun'
    BY <1>1, <2>1, <2>4, BoundsAssumption DEF Grows, Begun, ThreadIds
  <2> HIDE DEF n
  <2>6. /\ ntf' \in [Endpoints -> Notifier]
        /\ \A x \in Endpoints : x # e => ntf'[x] = ntf[x]
        /\ ntf'[e].closed = ntf[e].closed /\ ntf'[e].pending = ntf[e].pending
        /\ ntf'[e].waiter = ntf[e].waiter /\ ntf'[e].thread = n
    BY <1>2, <1>4, <2>1, <2>5 DEF TypeOK, Notifier
  <2>7. ASSUME NEW k \in DOMAIN threads'
        PROVE  ThreadInv(k)'
    <3>1. CASE k = n
      BY <2>3, <2>4, <2>6, <3>1 DEF ThreadInv, Made
    <3>2. CASE k # n
      <4>1. k \in DOMAIN threads /\ ThreadInv(k) /\ threads[k] \in Thread
        BY <1>2, <2>4, <3>2 DEF IInv
      <4>2. CASE threads[k].ep = e
        <5>1. threads[k].pc = "dead"
          <6>1. k \in Nat /\ k # None
            BY <2>4, <4>1, BoundsAssumption
          <6> QED
            BY <1>12, <4>1, <4>2, <6>1 DEF ThreadInv
        <5> QED
          BY <1>1, <2>4, <4>1, <5>1 DEF ThreadInv, Made
      <4>3. CASE threads[k].ep # e
        BY <2>4, <2>5, <2>6, <4>1, <4>3, ThreadKept
      <4> QED
        BY <4>2, <4>3
    <3> QED
      BY <3>1, <3>2
  <2>8. /\ task' \in [Tasks -> Task]
        /\ \A u \in Tasks : u # t => task'[u] = task[u]
        /\ task'[t].pc = "request" /\ task'[t].ep = e /\ task'[t].fut = task[t].fut
        /\ task'[t].thread = task[t].thread
    BY <1>7, <1>8, <1>9, <2>1
  <2> QED
    BY <1>6, <1>8, <2>4, <2>5, <2>6, <2>7, <2>8
<1> QED
  BY <1>10, <1>11, <1>12

\* A step of the task in control, which changes its own endpoint and nothing of others.
LEMMA OwnStep ==
    ASSUME IInv, NEW t \in Tasks, NEW e \in Endpoints, cur = t, Grows,
           TypeOK', queue' \in Seq(Handles'),
           TaskInv(t)', \A u \in Tasks : u # t => task'[u] = task[u],
           EndpointInv(e)', \A x \in Endpoints : x # e => ep'[x] = ep[x] /\ ntf'[x] = ntf[x],
           ntf[e].closed => ntf'[e].closed /\ ntf'[e].thread \in {None, ntf[e].thread},
           ep[e].owns => ep'[e].owns \/ ntf'[e].closed,
           \A k \in DOMAIN threads' : ThreadInv(k)',
           \A d \in Fds : ReaderInv(d)'
    PROVE  IInv'
<1>1. ASSUME NEW u \in Tasks, u # t
      PROVE  TaskInv(u)'
  BY <1>1, Bystander
<1>2. \A u \in Tasks : TaskInv(u)'
  BY <1>1
<1>3. \A x \in Endpoints : EndpointInv(x)'
  BY EndpointKept
<1> QED
  BY <1>2, <1>3 DEF IInv

LEMMA JoinInv == ASSUME IInv, NEW t \in Tasks, Join(t) PROVE IInv'
<1>1. /\ cur = t /\ task[t].pc = "join" /\ ~Alive(task[t].thread)
      /\ task' = [task EXCEPT ![t].pc = "ensure", ![t].thread = None]
      /\ UNCHANGED <<loop, native, queue, readers, futures, cur, ep, threads>>
  BY DEF Join, InControl
<1>2. /\ TypeOK /\ task[t] \in Task /\ TaskInv(t) /\ task \in [Tasks -> Task]
      /\ ntf \in [Endpoints -> Notifier] /\ threads \in Seq(Thread)
  BY DEF IInv, TypeOK
<1>3. PICK e \in Endpoints : e = task[t].ep
  BY <1>1, <1>2 DEF TaskInv, Task
<1>4. /\ EndpointInv(e) /\ ntf[e] \in Notifier /\ ~ntf[e].closed
      /\ ntf[e].thread = task[t].thread
  BY <1>1, <1>2, <1>3 DEF IInv, TaskInv
<1>5. Grows /\ FuturesKept
  BY <1>1 DEF Grows, FuturesKept
<1>6. [task[t] EXCEPT !.pc = "ensure", !.thread = None] \in Task
  BY <1>2 DEF Task
<1>7. /\ task' \in [Tasks -> Task]
      /\ \A u \in Tasks : u # t => task'[u] = task[u]
      /\ task'[t].pc = "ensure" /\ task'[t].ep = e /\ task'[t].fut = task[t].fut
      /\ task'[t].thread = None
  BY <1>1, <1>2, <1>3, <1>6 DEF Task
<1>8. ntf' = [ntf EXCEPT ![e] = Released(ntf[e])]
  BY <1>2, <1>3 DEF Join
<1>9. /\ ntf' \in [Endpoints -> Notifier]
      /\ \A x \in Endpoints : x # e => ntf'[x] = ntf[x]
      /\ ntf'[e].closed = ntf[e].closed /\ ntf'[e].pending = ntf[e].pending
      /\ ntf'[e].waiter = ntf[e].waiter /\ ntf'[e].thread = None
  BY <1>2, <1>4, <1>8 DEF Released, Notifier
<1>10. TypeOK'
  BY <1>1, <1>2, <1>7, <1>9 DEF TypeOK
<1>11. queue' \in Seq(Handles')
  BY <1>1, <1>5, QueueKept
<1>12. TaskInv(t)'
  BY <1>1, <1>2, <1>3, <1>4, <1>7, <1>9 DEF TaskInv, Made, Begun
<1>13. EndpointInv(e)'
  BY <1>1, <1>4, <1>9 DEF EndpointInv, Made, Begun
<1>14. ASSUME NEW k \in DOMAIN threads'
       PROVE  ThreadInv(k)'
  <2>1. k \in DOMAIN threads /\ ThreadInv(k) /\ k # None
    BY <1>1, <1>2, <1>14, BoundsAssumption DEF IInv
  <2>2. CASE threads[k].ep = e
    <3>1. threads[k].pc = "dead"
      BY <1>1, <1>4, <2>1, <2>2 DEF ThreadInv, Alive
    <3> QED
      BY <1>1, <2>1, <3>1 DEF ThreadInv, Made
  <2>3. CASE threads[k].ep # e
    BY <1>1, <1>5, <1>9, <2>1, <2>3, ThreadKept
  <2> QED
    BY <2>2, <2>3
<1>15. \A d \in Fds : ReaderInv(d)'
  <2>1. \A x \in Endpoints : ntf'[x].waiter = ntf[x].waiter
    BY <1>9
  <2> QED
    BY <1>1, <1>5, <1>7, <2>1, ReaderKept DEF Awaits
<1> QED
  BY <1>1, <1>4, <1>5, <1>7, <1>9, <1>10, <1>11, <1>12, <1>13, <1>14, <1>15, OwnStep

LEMMA RequestInv == ASSUME IInv, NEW t \in Tasks, Request(t) PROVE IInv'
<1>1. /\ cur = t /\ task[t].pc = "request" /\ cur' = None
      /\ task' = [task EXCEPT ![t].pc = "waiting"]
      /\ UNCHANGED <<loop, native, queue, readers, futures, ep, threads>>
  BY DEF Request, InControl
<1>2. /\ TypeOK /\ task[t] \in Task /\ TaskInv(t) /\ task \in [Tasks -> Task]
      /\ ntf \in [Endpoints -> Notifier]
  BY DEF IInv, TypeOK
<1>3. PICK e \in Endpoints : e = task[t].ep
  BY <1>1, <1>2 DEF TaskInv, Task
<1>4. EndpointInv(e) /\ ntf[e] \in Notifier /\ ntf' = [ntf EXCEPT ![e].request = TRUE]
  BY <1>2, <1>3 DEF IInv, Request
<1>5. Grows /\ FuturesKept
  BY <1>1 DEF Grows, FuturesKept
<1>6. /\ task' \in [Tasks -> Task]
      /\ \A u \in Tasks : u # t => task'[u] = task[u]
      /\ task'[t].pc = "waiting" /\ task'[t].ep = e /\ task'[t].fut = task[t].fut
      /\ task'[t].thread = task[t].thread
  BY <1>1, <1>2, <1>3 DEF Task
<1>7. /\ ntf' \in [Endpoints -> Notifier]
      /\ \A x \in Endpoints : x # e => ntf'[x] = ntf[x]
      /\ ntf'[e].closed = ntf[e].closed /\ ntf'[e].pending = ntf[e].pending
      /\ ntf'[e].waiter = ntf[e].waiter /\ ntf'[e].thread = ntf[e].thread
  BY <1>2, <1>4 DEF Notifier
<1>8. TypeOK'
  BY <1>1, <1>2, <1>6, <1>7 DEF TypeOK
<1>9. queue' \in Seq(Handles')
  BY <1>1, <1>5, QueueKept
<1>10. TaskInv(t)'
  BY <1>1, <1>2, <1>3, <1>6, <1>7 DEF TaskInv, Made, Begun
<1>11. EndpointInv(e)'
  BY <1>1, <1>5, <1>7, EndpointKept
<1>12. \A k \in DOMAIN threads' : ThreadInv(k)'
  BY <1>1, <1>5, <1>7, ThreadKept
<1>13. \A d \in Fds : ReaderInv(d)'
  <2>1. \A x \in Endpoints : ntf'[x].waiter = ntf[x].waiter
    BY <1>7
  <2> QED
    BY <1>1, <1>5, <1>6, <2>1, ReaderKept DEF Awaits
<1> QED
  BY <1>1, <1>5, <1>6, <1>7, <1>8, <1>9, <1>10, <1>11, <1>12, <1>13, OwnStep
-----------------------------------------------------------------------------
\* What the finally block of a wait, or the abort of a close, takes away.
LEMMA UnwoundType ==
    ASSUME IInv, NEW f \in DOMAIN futures
    PROVE  /\ UnwoundReaders(f) \in [Fds -> FutureIds \cup {None}]
           /\ UnwoundQueue(f) \in Seq(Handles)
           /\ \A d \in Fds : UnwoundReaders(f)[d] \in {readers[d], None}
           /\ \A d \in Fds : readers[d] = f => UnwoundReaders(f)[d] = None
<1>1. readers \in [Fds -> FutureIds \cup {None}] /\ queue \in Seq(Handles)
  BY DEF IInv, TypeOK
<1>2. UnwoundReaders(f) \in [Fds -> FutureIds \cup {None}]
  BY <1>1 DEF UnwoundReaders, WithoutReader
<1>3. UnwoundQueue(f) \in Seq(Handles)
  BY <1>1, QueueType DEF UnwoundQueue
<1>4. \A d \in Fds : UnwoundReaders(f)[d] \in {readers[d], None}
  BY <1>1 DEF UnwoundReaders, WithoutReader
<1>5. ASSUME NEW d \in Fds, readers[d] = f
      PROVE  UnwoundReaders(f)[d] = None
  <2>1. f # None
    <3>1. f \in Nat
      BY DEF IInv, TypeOK
    <3> QED
      BY <3>1, BoundsAssumption
  <2>2. futures[f].native /\ futures[f].fd = d
    BY <1>5, <2>1 DEF IInv, ReaderInv, Watched
  <2> QED
    BY <1>1, <2>2 DEF UnwoundReaders, WithoutReader
<1> QED
  BY <1>2, <1>3, <1>4, <1>5

LEMMA ResumedInv == ASSUME IInv, NEW t \in Tasks, Resumed(t) PROVE IInv'
<1>1. /\ cur = t /\ task[t].pc = "waiting"
      /\ UNCHANGED <<loop, native, futures, cur, threads>>
  BY DEF Resumed, InControl
<1>2. /\ TypeOK /\ task[t] \in Task /\ TaskInv(t) /\ task \in [Tasks -> Task]
      /\ ntf \in [Endpoints -> Notifier] /\ ep \in [Endpoints -> Endpoint]
  BY DEF IInv, TypeOK
<1>3. PICK e \in Endpoints : e = task[t].ep
  BY <1>1, <1>2 DEF TaskInv, Task
<1>4. PICK f \in DOMAIN futures : f = task[t].fut
  BY <1>1, <1>2 DEF TaskInv, Made
<1>5. EndpointInv(e) /\ ntf[e] \in Notifier /\ ep[e] \in Endpoint
  BY <1>2 DEF IInv
<1>6. Grows /\ FuturesKept
  BY <1>1 DEF Grows, FuturesKept
<1>7. PICK pc \in {"run", "again"}, out \in {"none", "data", "cancelled", "RuntimeError", "OSError"} :
          task' = [task EXCEPT ![t].pc = pc, ![t].out = out, ![t].fut = None,
                               ![t].cancel = FALSE]
  BY DEF Resumed
<1>8. [task[t] EXCEPT !.pc = pc, !.out = out, !.fut = None, !.cancel = FALSE] \in Task
  BY <1>2 DEF Task
<1>9. /\ task' \in [Tasks -> Task]
      /\ \A u \in Tasks : u # t => task'[u] = task[u]
      /\ task'[t].pc = pc /\ task'[t].ep = e /\ task'[t].fut = None
      /\ task'[t].thread = task[t].thread
  BY <1>2, <1>3, <1>7, <1>8 DEF Task
<1>10. readers' = UnwoundReaders(f) /\ queue' = UnwoundQueue(f)
       /\ ntf' = [ntf EXCEPT ![e] = Unwound(ntf[e], f)]
  BY <1>2, <1>3, <1>4 DEF Resumed
<1>11. /\ ntf' \in [Endpoints -> Notifier]
       /\ \A x \in Endpoints : x # e => ntf'[x] = ntf[x]
       /\ ntf'[e].closed = ntf[e].closed /\ ntf'[e].thread = ntf[e].thread
       /\ ntf'[e].pending \in {ntf[e].pending, None}
       /\ ntf'[e].waiter = IF ntf[e].waiter = f THEN None ELSE ntf[e].waiter
  BY <1>2, <1>5, <1>10 DEF Unwound, Notifier
<1>12. /\ ep' \in [Endpoints -> Endpoint]
       /\ \A x \in Endpoints :
            /\ ep'[x].fd = ep[x].fd /\ ep'[x].opened = ep[x].opened
            /\ ep'[x].closed = ep[x].closed /\ ep'[x].owns = ep[x].owns
            /\ ep'[x].complete = ep[x].complete
       /\ \A x \in Endpoints : x # e => ep'[x] = ep[x]
  <2>1. CASE ep' = ep
    BY <1>2, <2>1
  <2>2. CASE ep' = [ep EXCEPT ![e].inbox = @ - 1] /\ ep[e].inbox > 0
    <3>1. ep[e].inbox - 1 \in 0..MaxData
      BY <1>5, <2>2, BoundsAssumption DEF Endpoint
    <3>2. [ep[e] EXCEPT !.inbox = @ - 1] \in Endpoint
      BY <1>5, <3>1 DEF Endpoint
    <3> QED
      BY <1>2, <2>2, <3>2 DEF Endpoint
  <2>3. \/ ep' = ep
        \/ ep' = [ep EXCEPT ![e].inbox = @ - 1] /\ HasDatagram(e)
    BY <1>3 DEF Resumed
  <2> QED
    BY <2>1, <2>2, <2>3 DEF HasDatagram, Readable
<1>13. readers' \in [Fds -> FutureIds \cup {None}] /\ queue' \in Seq(Handles)
  BY <1>10, UnwoundType
<1>14. TypeOK'
  BY <1>1, <1>2, <1>9, <1>11, <1>12, <1>13, QueueType DEF TypeOK
<1>15. queue' \in Seq(Handles')
  BY <1>6, <1>13, HandlesGrow
<1>16. TaskInv(t)'
  BY <1>1, <1>2, <1>3, <1>9, <1>11, <1>12 DEF TaskInv, Made, Begun
<1>17. EndpointInv(e)'
  BY <1>1, <1>5, <1>11, <1>12 DEF EndpointInv, Made, Begun
<1>18. \A k \in DOMAIN threads' : ThreadInv(k)'
  BY <1>1, <1>6, <1>11, ThreadKept
<1>19. ASSUME NEW d \in Fds
       PROVE  ReaderInv(d)'
  <2>1. /\ readers'[d] \in {readers[d], None}
        /\ readers[d] = f => readers'[d] = None
    BY <1>10, UnwoundType
  <2>2. \A u \in Tasks : readers'[d] # None /\ Awaits(u, readers[d]) =>
            task'[u].pc = "waiting" /\ task'[u].fut = readers[d]
    BY <1>4, <1>9, <2>1 DEF Awaits
  <2>3. \A x \in Endpoints : readers'[d] # None /\ ntf[x].waiter = readers[d] =>
            ntf'[x].waiter = readers[d]
    BY <1>11, <2>1
  <2> QED
    BY <1>1, <1>6, <1>12, <2>1, <2>2, <2>3, ReaderKept
<1> QED
  BY <1>1, <1>6, <1>9, <1>11, <1>12, <1>14, <1>15, <1>16, <1>17, <1>18, <1>19, OwnStep
-----------------------------------------------------------------------------
\* The abort of a close ends the wait in progress, and takes its reader away.
LEMMA AbortType ==
    ASSUME IInv, NEW w \in Made, Abort(w)
    PROVE  /\ futures' \in Seq(Future) /\ Len(futures') = Len(futures)
           /\ DOMAIN futures' = DOMAIN futures /\ FuturesKept
           /\ readers' \in [Fds -> FutureIds \cup {None}] /\ queue' \in Seq(Handles)
           /\ \A d \in Fds : readers'[d] \in {readers[d], None}
           /\ \A d \in Fds : readers[d] = w => readers'[d] = None
<1>1. CASE w = None
  BY <1>1 DEF Abort, IInv, TypeOK, FuturesKept
<1>2. CASE w # None
  <2>1. w \in DOMAIN futures
    BY <1>2 DEF Made
  <2>2. /\ readers' = UnwoundReaders(w) /\ queue' = Woken(UnwoundQueue(w), w)
        /\ futures' = Done(w, "exception")
    BY <1>2 DEF Abort
  <2>3. UnwoundQueue(w) \in Seq(Handles)
    BY <2>1, UnwoundType
  <2>4. /\ futures' \in Seq(Future) /\ Len(futures') = Len(futures)
        /\ DOMAIN futures' = DOMAIN futures /\ FuturesKept /\ queue' \in Seq(Handles)
    BY <2>1, <2>2, <2>3, DoneType DEF FuturesKept
  <2> QED
    BY <2>1, <2>2, <2>4, UnwoundType
<1> QED
  BY <1>1, <1>2

LEMMA SocketClosedType ==
    ASSUME NEW e \in Endpoints, ep[e] \in Endpoint
    PROVE  SocketClosed(e) \in Endpoint
           /\ [SocketClosed(e) EXCEPT !.complete = TRUE] \in Endpoint
<1>1. 0 \in 0..MaxData
  BY BoundsAssumption
<1>2. SocketClosed(e) \in Endpoint
  BY <1>1 DEF SocketClosed, Endpoint
<1> HIDE DEF SocketClosed
<1> QED
  BY <1>2 DEF Endpoint

LEMMA BeginCloseInv ==
    ASSUME IInv, NEW t \in Tasks, NEW e \in Endpoints,
           NEW pc \in {"closing", "aclosing"}, BeginClose(t, e, pc)
    PROVE  IInv'
<1>1. /\ cur = t /\ task[t].pc = "run" /\ ep[e].opened
      /\ UNCHANGED <<loop, native, cur>>
  BY DEF BeginClose, InControl
<1>2. /\ TypeOK /\ task[t] \in Task /\ TaskInv(t) /\ task \in [Tasks -> Task]
      /\ ntf \in [Endpoints -> Notifier] /\ ep \in [Endpoints -> Endpoint]
  BY DEF IInv, TypeOK
<1>3. EndpointInv(e) /\ ntf[e] \in Notifier /\ ep[e] \in Endpoint
  BY <1>2 DEF IInv
<1>4. CASE ep[e].owns
  <2>1. /\ ep' = [ep EXCEPT ![e].closed = TRUE, ![e].owns = FALSE]
        /\ Abort(ntf[e].waiter) /\ threads' = Stopped(ntf[e].thread)
        /\ ntf' = [ntf EXCEPT ![e].closed = TRUE, ![e].waiter = None, ![e].request = TRUE]
        /\ task' = [task EXCEPT ![t].pc = pc, ![t].ep = e, ![t].thread = ntf[e].thread]
    BY <1>4 DEF BeginClose
  <2>2. /\ ntf[e].waiter \in Made /\ ntf[e].thread \in Begun
        /\ ntf[e].thread \in ThreadIds \cup {None} /\ ~ntf[e].closed /\ ~ep[e].complete
    BY <1>3, <1>4 DEF EndpointInv, Notifier
  <2>3. /\ futures' \in Seq(Future) /\ Len(futures') = Len(futures)
        /\ DOMAIN futures' = DOMAIN futures /\ FuturesKept
        /\ readers' \in [Fds -> FutureIds \cup {None}] /\ queue' \in Seq(Handles)
        /\ \A d \in Fds : readers'[d] \in {readers[d], None}
        /\ \A d \in Fds : readers[d] = ntf[e].waiter => readers'[d] = None
    BY <2>1, <2>2, AbortType
  <2>4. /\ threads' \in Seq(Thread) /\ Len(threads') = Len(threads)
        /\ DOMAIN threads' = DOMAIN threads
        /\ \A j \in DOMAIN threads : /\ threads'[j].ep = threads[j].ep
                                     /\ threads'[j].pc = threads[j].pc
                                     /\ threads'[j].pend = threads[j].pend
    BY <2>1, <2>2, StoppedType
  <2>5. Grows /\ Made' = Made /\ Begun' = Begun
    BY <2>3, <2>4 DEF Grows, Made, Begun
  <2>6. [ep[e] EXCEPT !.closed = TRUE, !.owns = FALSE] \in Endpoint
    BY <1>3 DEF Endpoint
  <2>7. /\ ep' \in [Endpoints -> Endpoint]
        /\ \A x \in Endpoints : x # e => ep'[x] = ep[x]
        /\ ep'[e].fd = ep[e].fd /\ ep'[e].opened /\ ep'[e].closed /\ ~ep'[e].owns
        /\ ep'[e].complete = ep[e].complete
    BY <1>1, <1>2, <1>3, <2>1, <2>6 DEF Endpoint
  <2>8. [ntf[e] EXCEPT !.closed = TRUE, !.waiter = None, !.request = TRUE] \in Notifier
    BY <1>3 DEF Notifier
  <2>9. /\ ntf' \in [Endpoints -> Notifier]
        /\ \A x \in Endpoints : x # e => ntf'[x] = ntf[x]
        /\ ntf'[e].closed /\ ntf'[e].pending = ntf[e].pending
        /\ ntf'[e].waiter = None /\ ntf'[e].thread = ntf[e].thread
    BY <1>2, <1>3, <2>1, <2>8 DEF Notifier
  <2>10. [task[t] EXCEPT !.pc = pc, !.ep = e, !.thread = ntf[e].thread] \in Task
    BY <1>2, <2>2 DEF Task
  <2>11. /\ task' \in [Tasks -> Task]
         /\ \A u \in Tasks : u # t => task'[u] = task[u]
         /\ task'[t].pc = pc /\ task'[t].ep = e /\ task'[t].fut = task[t].fut
         /\ task'[t].thread = ntf[e].thread
    BY <1>2, <2>1, <2>10 DEF Task
  <2>12. TypeOK'
    BY <1>1, <1>2, <2>3, <2>4, <2>7, <2>9, <2>11, QueueType DEF TypeOK
  <2>13. queue' \in Seq(Handles')
    BY <2>3, <2>5, HandlesGrow
  <2>14. TaskInv(t)'
    BY <1>1, <1>2, <2>2, <2>5, <2>9, <2>11, BoundsAssumption DEF TaskInv
  <2>15. EndpointInv(e)'
    BY <1>3, <2>2, <2>5, <2>7, <2>9 DEF EndpointInv, Made
  <2>16. \A k \in DOMAIN threads' : ThreadInv(k)'
    BY <2>4, <2>5, <2>9, ThreadKept
  <2>17. \A d \in Fds : ReaderInv(d)'
    BY <1>1, <2>3, <2>5, <2>7, <2>9, <2>11, ReaderKept DEF Awaits
  <2> QED
    BY <1>1, <2>2, <2>5, <2>7, <2>9, <2>11, <2>12, <2>13, <2>14, <2>15, <2>16, <2>17, OwnStep
<1>5. CASE ~ep[e].owns
  <2>1. /\ ep' = [ep EXCEPT ![e] = SocketClosed(e)]
        /\ UNCHANGED <<queue, readers, futures, task, ntf, threads>>
    BY <1>5 DEF BeginClose
  <2>2. SocketClosed(e) \in Endpoint
    BY <1>3, SocketClosedType
  <2>3. /\ ep' \in [Endpoints -> Endpoint]
        /\ \A x \in Endpoints : x # e => ep'[x] = ep[x]
        /\ ep'[e].fd = None /\ ep'[e].opened /\ ep'[e].closed /\ ~ep'[e].owns
        /\ ep'[e].complete = ep[e].complete
    BY <1>1, <1>2, <1>3, <2>1, <2>2 DEF SocketClosed, Endpoint
  <2>4. Grows /\ FuturesKept
    BY <2>1 DEF Grows, FuturesKept
  <2>5. TypeOK'
    BY <1>1, <1>2, <2>1, <2>3 DEF TypeOK
  <2>6. queue' \in Seq(Handles')
    BY <2>1, <2>4, QueueKept
  <2>7. \A u \in Tasks : TaskInv(u)'
    <3>1. \A x \in Endpoints : ep'[x].owns = ep[x].owns
      BY <1>3, <1>5, <2>3 DEF Endpoint
    <3> QED
      BY <1>1, <2>1, <2>4, <3>1, TaskKept
  <2>8. EndpointInv(e)'
    BY <1>3, <2>1, <2>3 DEF EndpointInv, Made, Begun
  <2>9. \A k \in DOMAIN threads' : ThreadInv(k)'
    BY <2>1, <2>4, ThreadKept
  <2>10. \A d \in Fds : ReaderInv(d)'
    BY <1>1, <1>5, <2>1, <2>3, <2>4, ReaderKept DEF Awaits
  <2>11. \A x \in Endpoints : EndpointInv(x)'
    BY <2>1, <2>3, <2>4, <2>8, EndpointKept
  <2> QED
    BY <2>5, <2>6, <2>7, <2>9, <2>10, <2>11 DEF IInv
<1> QED
  BY <1>4, <1>5

\* The thread that a close waited for is the last that its notifier knew.
LEMMA FinishCloseInv ==
    ASSUME IInv, NEW t \in Tasks, cur = t, task[t].pc \in {"closing", "aclosing"},
           ~Alive(task[t].thread), FinishClose(t),
           UNCHANGED <<loop, native, queue, readers, futures, cur, threads>>
    PROVE  IInv'
<1>1. /\ TypeOK /\ task[t] \in Task /\ TaskInv(t) /\ task \in [Tasks -> Task]
      /\ ntf \in [Endpoints -> Notifier] /\ ep \in [Endpoints -> Endpoint]
      /\ threads \in Seq(Thread)
  BY DEF IInv, TypeOK
<1>2. PICK e \in Endpoints : e = task[t].ep
  BY <1>1 DEF TaskInv, Task
<1>3. /\ EndpointInv(e) /\ ntf[e] \in Notifier /\ ep[e] \in Endpoint
      /\ ntf[e].closed /\ ntf[e].thread \in {None, task[t].thread}
  BY <1>1, <1>2 DEF IInv, TaskInv
<1>4. ep[e].opened /\ ~ep[e].owns /\ ntf[e].waiter = None
  BY <1>3 DEF EndpointInv
<1>5. Grows /\ FuturesKept
  BY DEF Grows, FuturesKept
<1>6. /\ ntf' = [ntf EXCEPT ![e] = [Released(ntf[e]) EXCEPT !.pending = None]]
      /\ ep' = [ep EXCEPT ![e] = [SocketClosed(e) EXCEPT !.complete = TRUE]]
      /\ task' = [task EXCEPT ![t].pc = "run", ![t].thread = None]
  BY <1>1, <1>2 DEF FinishClose
<1>7. [Released(ntf[e]) EXCEPT !.pending = None] \in Notifier
  BY <1>3 DEF Released, Notifier
<1>8. /\ ntf' \in [Endpoints -> Notifier]
      /\ \A x \in Endpoints : x # e => ntf'[x] = ntf[x]
      /\ ntf'[e].closed /\ ntf'[e].pending = None /\ ntf'[e].waiter = None
      /\ ntf'[e].thread = None
  BY <1>1, <1>3, <1>4, <1>6, <1>7 DEF Released, Notifier
<1>9. [SocketClosed(e) EXCEPT !.complete = TRUE] \in Endpoint
  BY <1>3, SocketClosedType
<1>10. /\ ep' \in [Endpoints -> Endpoint]
       /\ \A x \in Endpoints : x # e => ep'[x] = ep[x]
       /\ ep'[e].fd = None /\ ep'[e].opened /\ ep'[e].closed /\ ~ep'[e].owns
  BY <1>1, <1>3, <1>4, <1>6, <1>9 DEF SocketClosed, Endpoint
<1>11. [task[t] EXCEPT !.pc = "run", !.thread = None] \in Task
  BY <1>1 DEF Task
<1>12. /\ task' \in [Tasks -> Task]
       /\ \A u \in Tasks : u # t => task'[u] = task[u]
       /\ task'[t].pc = "run" /\ task'[t].fut = task[t].fut /\ task'[t].thread = None
  BY <1>1, <1>6, <1>11 DEF Task
<1>13. TypeOK'
  BY <1>1, <1>8, <1>10, <1>12 DEF TypeOK
<1>14. queue' \in Seq(Handles')
  BY <1>5, QueueKept
<1>15. TaskInv(t)'
  BY <1>1, <1>12 DEF TaskInv, Made, Begun
<1>16. EndpointInv(e)'
  BY <1>8, <1>10 DEF EndpointInv, Made, Begun
<1>17. ASSUME NEW k \in DOMAIN threads'
       PROVE  ThreadInv(k)'
  <2>1. k \in DOMAIN threads /\ ThreadInv(k) /\ k # None
    BY <1>1, <1>17, BoundsAssumption DEF IInv
  <2>2. CASE threads[k].ep = e
    <3>1. threads[k].pc = "dead"
      BY <1>3, <2>1, <2>2 DEF ThreadInv, Alive
    <3> QED
      BY <2>1, <3>1 DEF ThreadInv, Made
  <2>3. CASE threads[k].ep # e
    BY <1>5, <1>8, <2>1, <2>3, ThreadKept
  <2> QED
    BY <2>2, <2>3
<1>18. \A d \in Fds : ReaderInv(d)'
  BY <1>4, <1>5, <1>8, <1>10, <1>12, ReaderKept DEF Awaits
<1> QED
  BY <1>3, <1>4, <1>5, <1>8, <1>10, <1>12, <1>13, <1>14, <1>15, <1>16, <1>17, <1>18, OwnStep

LEMMA AcloseLooksInv == ASSUME IInv, NEW t \in Tasks, AcloseLooks(t) PROVE IInv'
<1>1. /\ cur = t /\ task[t].pc = "aclosing"
      /\ UNCHANGED <<loop, native, queue, readers, futures, threads>>
  BY DEF AcloseLooks, InControl
<1>2. CASE ~Alive(task[t].thread) /\ FinishClose(t) /\ UNCHANGED cur
  BY <1>1, <1>2, FinishCloseInv
<1>3. CASE /\ UNCHANGED <<ep, ntf>>
           /\ \/ /\ task' = [task EXCEPT ![t].pc = "run", ![t].cancel = FALSE,
                                         ![t].thread = None, ![t].out = "cancelled"]
                 /\ UNCHANGED cur
              \/ task' = [task EXCEPT ![t].pc = "asleep"] /\ cur' = None
  <2>1. /\ TypeOK /\ task[t] \in Task /\ TaskInv(t) /\ task \in [Tasks -> Task]
    BY DEF IInv, TypeOK
  <2>2. PICK e \in Endpoints : e = task[t].ep
    BY <1>1, <2>1 DEF TaskInv, Task
  <2>3. Grows /\ FuturesKept
    BY <1>1 DEF Grows, FuturesKept
  <2>4. /\ [task[t] EXCEPT !.pc = "run", !.cancel = FALSE, !.thread = None,
                           !.out = "cancelled"] \in Task
        /\ [task[t] EXCEPT !.pc = "asleep"] \in Task
    BY <2>1 DEF Task
  <2>5. /\ task' \in [Tasks -> Task]
        /\ \A u \in Tasks : u # t => task'[u] = task[u]
        /\ task'[t].ep = e /\ task'[t].fut = task[t].fut
        /\ \/ task'[t].pc = "run" /\ task'[t].thread = None /\ UNCHANGED cur
           \/ task'[t].pc = "asleep" /\ task'[t].thread = task[t].thread /\ cur' = None
    BY <1>3, <2>1, <2>2, <2>4 DEF Task
  <2>6. TypeOK'
    BY <1>1, <1>3, <2>1, <2>5 DEF TypeOK
  <2>7. queue' \in Seq(Handles')
    BY <1>1, <2>3, QueueKept
  <2>8. TaskInv(t)'
    BY <1>1, <1>3, <2>1, <2>2, <2>5 DEF TaskInv, Made, Begun
  <2>9. EndpointInv(e)'
    BY <1>3, <2>3, EndpointKept
  <2>10. \A k \in DOMAIN threads' : ThreadInv(k)'
    BY <1>1, <1>3, <2>3, ThreadKept
  <2>11. \A d \in Fds : ReaderInv(d)'
    BY <1>1, <1>3, <2>3, <2>5, ReaderKept DEF Awaits
  <2> QED
    BY <1>1, <1>3, <2>3, <2>5, <2>6, <2>7, <2>8, <2>9, <2>10, <2>11, OwnStep
<1> QED
  BY <1>2, <1>3 DEF AcloseLooks
-----------------------------------------------------------------------------
\* A step of the loop, of a thread or of the kernel, while no task is resumed: it may
\* end a future, take a reader away, queue a callback, move a thread, or fill a socket.
LEMMA Background ==
    ASSUME IInv, TypeOK', Grows, FuturesKept, queue' \in Seq(Handles),
           UNCHANGED <<loop, native, task, cur>>,
           \A d \in Fds : readers'[d] \in {readers[d], None},
           \A e \in Endpoints :
               /\ ep'[e].fd = ep[e].fd /\ ep'[e].opened = ep[e].opened
               /\ ep'[e].closed = ep[e].closed /\ ep'[e].owns = ep[e].owns
               /\ ep'[e].complete = ep[e].complete
               /\ ntf'[e].closed = ntf[e].closed /\ ntf'[e].pending = ntf[e].pending
               /\ ntf'[e].waiter = ntf[e].waiter /\ ntf'[e].thread = ntf[e].thread,
           \A k \in DOMAIN threads' : ThreadInv(k)'
    PROVE  IInv'
<1>1. queue' \in Seq(Handles')
  BY HandlesGrow
<1>2. \A u \in Tasks : TaskInv(u)'
  BY TaskKept
<1>3. \A e \in Endpoints : EndpointInv(e)'
  BY DEF IInv, EndpointInv, Grows, Made, Begun
<1>4. \A d \in Fds : ReaderInv(d)'
  BY ReaderKept DEF Awaits
<1> QED
  BY <1>1, <1>2, <1>3, <1>4 DEF IInv

\* The reader's callback and the selector thread's _resolve end a future.
LEMMA ResolvedInv ==
    ASSUME IInv, NEW f \in DOMAIN futures, NEW q \in Seq(Handles),
           futures' = Done(f, "result"), queue' = Woken(q, f),
           \/ UNCHANGED readers
           \/ readers' = WithoutReader(futures[f].fd),
           UNCHANGED <<loop, native, task, cur, ep, ntf, threads>>
    PROVE  IInv'
<1>1. TypeOK /\ readers \in [Fds -> FutureIds \cup {None}]
  BY DEF IInv, TypeOK
<1>2. /\ futures' \in Seq(Future) /\ Len(futures') = Len(futures)
      /\ DOMAIN futures' = DOMAIN futures /\ FuturesKept /\ queue' \in Seq(Handles)
  BY DoneType DEF FuturesKept
<1>3. Grows
  BY <1>2 DEF Grows
<1>4. /\ readers' \in [Fds -> FutureIds \cup {None}]
      /\ \A d \in Fds : readers'[d] \in {readers[d], None}
  BY <1>1 DEF WithoutReader
<1>5. TypeOK'
  BY <1>1, <1>2, <1>4, QueueType DEF TypeOK
<1>6. \A k \in DOMAIN threads' : ThreadInv(k)'
  BY <1>3, ThreadKept
<1> QED
  BY <1>2, <1>3, <1>4, <1>5, <1>6, Background

LEMMA QueuedInv ==
    ASSUME IInv, queue' \in Seq(Handles),
           UNCHANGED <<loop, native, readers, futures, task, cur, ep, ntf, threads>>
    PROVE  IInv'
<1>1. Grows /\ FuturesKept
  BY DEF Grows, FuturesKept
<1>2. TypeOK'
  BY QueueType DEF IInv, TypeOK
<1>3. \A k \in DOMAIN threads' : ThreadInv(k)'
  BY <1>1, ThreadKept
<1> QED
  BY <1>1, <1>2, <1>3, Background

\* A task resumes where it was suspended.
LEMMA WakeInv ==
    ASSUME IInv, NEW u \in Tasks, cur = None, cur' = u, queue' \in Seq(Handles),
           task' = [task EXCEPT ![u].pc = IF @ = "asleep" THEN "aclosing" ELSE @],
           UNCHANGED <<loop, native, readers, futures, ep, ntf, threads>>
    PROVE  IInv'
<1>1. TypeOK /\ task[u] \in Task /\ TaskInv(u) /\ task \in [Tasks -> Task]
  BY DEF IInv, TypeOK
<1>2. Grows /\ FuturesKept
  BY DEF Grows, FuturesKept
<1>3. PICK pc : pc = IF task[u].pc = "asleep" THEN "aclosing" ELSE task[u].pc
  OBVIOUS
<1>4. task' = [task EXCEPT ![u] = [task[u] EXCEPT !.pc = pc]]
  BY <1>1, <1>3
<1>5. [task[u] EXCEPT !.pc = pc] \in Task
  BY <1>1, <1>3 DEF Task
<1>6. /\ task' \in [Tasks -> Task]
      /\ \A v \in Tasks : v # u => task'[v] = task[v]
      /\ task'[u].pc = pc /\ task'[u].ep = task[u].ep /\ task'[u].fut = task[u].fut
      /\ task'[u].thread = task[u].thread
  BY <1>1, <1>4, <1>5 DEF Task
<1>7. TypeOK'
  BY <1>1, <1>6, QueueType DEF TypeOK
<1>8. queue' \in Seq(Handles')
  BY <1>2, HandlesGrow
<1>9. ASSUME NEW v \in Tasks
      PROVE  TaskInv(v)'
  <2>1. CASE v = u
    <3>1. task[u].pc \in {"idle", "waiting", "asleep"}
      BY <1>1, BoundsAssumption DEF TaskInv, Task
    <3> QED
      BY <1>1, <1>3, <1>6, <2>1, <3>1 DEF TaskInv, Made, Begun
  <2>2. CASE v # u
    <3>1. cur # v
      BY BoundsAssumption
    <3> QED
      BY <1>2, <1>6, <2>2, <3>1, Bystander
  <2> QED
    BY <2>1, <2>2
<1>10. \A e \in Endpoints : EndpointInv(e)'
  BY <1>2, EndpointKept
<1>11. \A k \in DOMAIN threads' : ThreadInv(k)'
  BY <1>2, ThreadKept
<1>12. \A d \in Fds : ReaderInv(d)'
  BY <1>2, <1>3, <1>6, ReaderKept DEF Awaits
<1> QED
  BY <1>7, <1>8, <1>9, <1>10, <1>11, <1>12 DEF IInv

LEMMA RunCallbackInv == ASSUME IInv, RunCallback PROVE IInv'
<1>1. /\ cur = None /\ queue # <<>> /\ UNCHANGED <<loop, native, ep, ntf, threads>>
  BY DEF RunCallback
<1>2. Head(queue) \in Handles /\ Tail(queue) \in Seq(Handles)
  BY <1>1, QueueType DEF IInv
<1>3. PICK kind, who : Head(queue) = <<kind, who>>
  BY <1>2 DEF Handles, Cancelled
<1>4. /\ kind = "wake" => who \in Tasks
      /\ kind \in {"ready", "resolve"} => who \in DOMAIN futures
  BY <1>2, <1>3 DEF Handles, Cancelled
<1>5. Head(queue)[1] = kind /\ Head(queue)[2] = who
  BY <1>3
<1>6. CASE /\ kind = "wake" /\ cur' = who /\ queue' = Tail(queue)
           /\ task' = [task EXCEPT ![who].pc = IF @ = "asleep" THEN "aclosing" ELSE @]
           /\ UNCHANGED <<readers, futures>>
  BY <1>1, <1>2, <1>4, <1>6, WakeInv
<1>7. CASE /\ kind \in {"ready", "resolve"}
           /\ futures' = Done(who, "result") /\ queue' = Woken(Tail(queue), who)
           /\ readers' = WithoutReader(futures[who].fd) \/ UNCHANGED readers
           /\ UNCHANGED <<task, cur>>
  BY <1>1, <1>2, <1>4, <1>7, ResolvedInv
<1>8. CASE queue' = Tail(queue) /\ UNCHANGED <<readers, futures, task, cur>>
  BY <1>1, <1>2, <1>8, QueuedInv
<1> QED
  BY <1>5, <1>6, <1>7, <1>8 DEF RunCallback

LEMMA PollInv == ASSUME IInv, NEW d \in Fds, Poll(d) PROVE IInv'
<1>1. readers[d] \in DOMAIN futures
  BY DEF Poll, IInv, ReaderInv, Made
<1>2. <<"ready", readers[d]>> \in Handles
  BY <1>1 DEF Handles
<1>3. queue' \in Seq(Handles)
  BY <1>2, QueueType DEF Poll, IInv
<1> QED
  BY <1>3, QueuedInv DEF Poll

LEMMA TickInv == ASSUME IInv, NEW t \in Tasks, Tick(t) PROVE IInv'
<1>1. <<"wake", t>> \in Handles
  BY DEF Handles
<1>2. queue' \in Seq(Handles)
  BY <1>1, QueueType DEF Tick, IInv
<1> QED
  BY <1>2, QueuedInv DEF Tick

\* No wait goes on from one loop to the next, so no reader does.
LEMMA NextLoopInv == ASSUME IInv, NextLoop PROVE IInv'
<1>1. /\ loop' = loop + 1 /\ loop < Loops /\ queue' = <<>>
      /\ readers' = [d \in Fds |-> None]
      /\ UNCHANGED <<native, futures, task, cur, ep, ntf, threads>>
  BY DEF NextLoop
<1>2. Grows
  BY <1>1 DEF Grows
<1>3. TypeOK'
  BY <1>1, BoundsAssumption DEF IInv, TypeOK
<1>4. \A u \in Tasks : TaskInv(u)'
  BY <1>1, <1>2, TaskKept
<1>5. \A e \in Endpoints : EndpointInv(e)'
  BY <1>1, <1>2, EndpointKept
<1>6. \A k \in DOMAIN threads' : ThreadInv(k)'
  BY <1>1, <1>2, ThreadKept
<1>7. \A d \in Fds : ReaderInv(d)'
  BY <1>1 DEF ReaderInv, Made
<1> QED
  BY <1>1, <1>3, <1>4, <1>5, <1>6, <1>7 DEF IInv

\* A selector thread moves on, and does not come back to life.
LEMMA ThreadMoves ==
    ASSUME IInv, NEW k \in DOMAIN threads, NEW a \in Thread,
           threads' = [threads EXCEPT ![k] = a], a.ep = threads[k].ep,
           threads[k].pc # "dead", a.pend \in Made, a.pc = "post" => a.pend # None,
           queue' \in Seq(Handles), ntf' \in [Endpoints -> Notifier],
           \A e \in Endpoints :
               /\ ntf'[e].closed = ntf[e].closed /\ ntf'[e].pending = ntf[e].pending
               /\ ntf'[e].waiter = ntf[e].waiter /\ ntf'[e].thread = ntf[e].thread,
           UNCHANGED <<loop, native, readers, futures, task, cur, ep>>
    PROVE  IInv'
<1>1. TypeOK /\ threads \in Seq(Thread)
  BY DEF IInv, TypeOK
<1>2. /\ threads' \in Seq(Thread) /\ Len(threads') = Len(threads)
      /\ DOMAIN threads' = DOMAIN threads /\ threads'[k] = a
      /\ \A j \in DOMAIN threads : j # k => threads'[j] = threads[j]
  BY <1>1, ThreadSet
<1>3. Grows /\ FuturesKept
  BY <1>2 DEF Grows, FuturesKept
<1>4. TypeOK'
  BY <1>1, <1>2, QueueType DEF TypeOK
<1>5. ASSUME NEW j \in DOMAIN threads'
      PROVE  ThreadInv(j)'
  <2>1. CASE j = k
    <3>1. threads[k].ep \in Endpoints /\ ntf[threads[k].ep].thread = k
      BY <1>1 DEF IInv, ThreadInv, Thread
    <3> QED
      BY <1>2, <2>1, <3>1 DEF ThreadInv, Made
  <2>2. CASE j # k
    BY <1>2, <1>3, <1>5, <2>2, ThreadKept
  <2> QED
    BY <2>1, <2>2
<1> QED
  BY <1>3, <1>4, <1>5, Background

LEMMA ThreadStepInv == ASSUME IInv, NEW k \in DOMAIN threads, ThreadStep(k) PROVE IInv'
<1>1. /\ TypeOK /\ threads[k] \in Thread /\ ThreadInv(k) /\ queue \in Seq(Handles)
      /\ ntf \in [Endpoints -> Notifier]
  BY DEF IInv, TypeOK
<1>2. PICK e \in Endpoints : e = threads[k].ep
  BY <1>1 DEF Thread
<1>3. threads[k].pend \in Made /\ threads[k].pend \in FutureIds \cup {None}
  BY <1>1 DEF ThreadInv, Thread
<1>4. ASSUME NEW pc \in {"ask", "clear", "check", "select", "fired", "dead"},
             threads' = [threads EXCEPT ![k].pc = pc], threads[k].pc # "dead",
             UNCHANGED queue, ntf' \in [Endpoints -> Notifier],
             \A x \in Endpoints :
               /\ ntf'[x].closed = ntf[x].closed /\ ntf'[x].pending = ntf[x].pending
               /\ ntf'[x].waiter = ntf[x].waiter /\ ntf'[x].thread = ntf[x].thread,
             UNCHANGED <<loop, native, readers, futures, task, cur, ep>>
      PROVE  IInv'
  <2> DEFINE a == [threads[k] EXCEPT !.pc = pc]
  <2>1. a \in Thread /\ a.ep = threads[k].ep /\ a.pend = threads[k].pend /\ a.pc = pc
    BY <1>1 DEF Thread
  <2>2. threads' = [threads EXCEPT ![k] = a]
    BY <1>4
  <2> HIDE DEF a
  <2> QED
    BY <1>1, <1>3, <1>4, <2>1, <2>2, ThreadMoves
<1>5. CASE Asked(k)
  BY <1>1, <1>4, <1>5 DEF Asked, ThreadGoes
<1>6. CASE ClearsRequest(k)
  <2>1. ntf' = [ntf EXCEPT ![e].request = FALSE]
    BY <1>2, <1>6 DEF ClearsRequest
  <2>2. [ntf[e] EXCEPT !.request = FALSE] \in Notifier
    BY <1>1 DEF Notifier
  <2>3. /\ ntf' \in [Endpoints -> Notifier]
        /\ \A x \in Endpoints :
             /\ ntf'[x].closed = ntf[x].closed /\ ntf'[x].pending = ntf[x].pending
             /\ ntf'[x].waiter = ntf[x].waiter /\ ntf'[x].thread = ntf[x].thread
    BY <1>1, <2>1, <2>2 DEF Notifier
  <2> QED
    BY <1>4, <1>6, <2>3 DEF ClearsRequest, ThreadGoes
<1>7. CASE Checks(k)
  BY <1>1, <1>4, <1>7 DEF Checks, ThreadGoes
<1>8. CASE Selects(k)
  BY <1>1, <1>4, <1>8 DEF Selects, ThreadGoes
<1>9. CASE ReadsPending(k)
  <2>1. CASE UNCHANGED queue /\ (ThreadGoes(k, "dead") \/ ThreadGoes(k, "ask"))
    BY <1>1, <1>4, <1>9, <2>1 DEF ReadsPending, ThreadGoes
  <2>2. CASE /\ ntf[e].pending # None
             /\ threads' = [threads EXCEPT ![k].pc = "post", ![k].pend = ntf[e].pending]
    <3> DEFINE a == [threads[k] EXCEPT !.pc = "post", !.pend = ntf[e].pending]
    <3>1. ntf[e].pending \in Made /\ ntf[e].pending \in FutureIds \cup {None}
      BY <1>1 DEF IInv, EndpointInv, Notifier
    <3>2. a \in Thread /\ a.ep = threads[k].ep /\ a.pend = ntf[e].pending
      BY <1>1, <3>1 DEF Thread
    <3>3. threads' = [threads EXCEPT ![k] = a]
      BY <2>2
    <3> HIDE DEF a
    <3> QED
      BY <1>1, <1>9, <2>2, <3>1, <3>2, <3>3, ThreadMoves DEF ReadsPending
  <2> QED
    BY <1>2, <1>9, <2>1, <2>2 DEF ReadsPending
<1>10. CASE Posts(k)
  <2>1. CASE UNCHANGED queue /\ ThreadGoes(k, "dead")
    BY <1>1, <1>4, <1>10, <2>1 DEF Posts, ThreadGoes
  <2>2. CASE /\ queue' = Append(queue, <<"resolve", threads[k].pend>>)
             /\ threads' = [threads EXCEPT ![k].pc = "ask", ![k].pend = None]
    <3> DEFINE a == [threads[k] EXCEPT !.pc = "ask", !.pend = None]
    <3>1. threads[k].pend \in DOMAIN futures
      BY <1>1, <1>10 DEF ThreadInv, Made, Posts
    <3>2. <<"resolve", threads[k].pend>> \in Handles
      BY <3>1 DEF Handles
    <3>3. queue' \in Seq(Handles)
      BY <1>1, <2>2, <3>2, QueueType
    <3>4. a \in Thread /\ a.ep = threads[k].ep /\ a.pend = None /\ a.pc = "ask"
      BY <1>1 DEF Thread
    <3>5. threads' = [threads EXCEPT ![k] = a] /\ None \in Made
      BY <2>2 DEF Made
    <3> HIDE DEF a
    <3> QED
      BY <1>1, <1>10, <3>3, <3>4, <3>5, ThreadMoves DEF Posts
  <2> QED
    BY <1>10, <2>1, <2>2 DEF Posts
<1> QED
  BY <1>5, <1>6, <1>7, <1>8, <1>9, <1>10 DEF ThreadStep

\* Datagrams come, and another reader of the socket takes one.
LEMMA KernelInv ==
    ASSUME IInv, NEW e \in Endpoints, Arrive(e) \/ TakenByOther(e)
    PROVE  IInv'
<1>1. TypeOK /\ ep[e] \in Endpoint
  BY DEF IInv, TypeOK
<1>2. PICK n \in 0..MaxData : ep' = [ep EXCEPT ![e].inbox = n]
  <2>1. CASE Arrive(e)
    <3>1. ep[e].inbox + 1 \in 0..MaxData
      BY <1>1, <2>1, BoundsAssumption DEF Arrive, Endpoint
    <3> QED
      BY <2>1, <3>1 DEF Arrive
  <2>2. CASE TakenByOther(e)
    <3>1. ep[e].inbox - 1 \in 0..MaxData
      BY <1>1, <2>2, BoundsAssumption DEF TakenByOther, Readable, Endpoint
    <3> QED
      BY <2>2, <3>1 DEF TakenByOther
  <2> QED
    BY <2>1, <2>2
<1>3. UNCHANGED <<loop, native, queue, readers, futures, task, cur, ntf, threads>>
  BY DEF Arrive, TakenByOther
<1>4. [ep[e] EXCEPT !.inbox = n] \in Endpoint
  BY <1>1 DEF Endpoint
<1>5. /\ ep' \in [Endpoints -> Endpoint]
      /\ \A x \in Endpoints :
           /\ ep'[x].fd = ep[x].fd /\ ep'[x].opened = ep[x].opened
           /\ ep'[x].closed = ep[x].closed /\ ep'[x].owns = ep[x].owns
           /\ ep'[x].complete = ep[x].complete
  BY <1>1, <1>2, <1>4 DEF TypeOK, Endpoint
<1>6. TypeOK'
  BY <1>1, <1>3, <1>5 DEF TypeOK
<1>7. Grows /\ FuturesKept /\ queue' \in Seq(Handles)
  BY <1>3 DEF Grows, FuturesKept, IInv
<1>8. \A k \in DOMAIN threads' : ThreadInv(k)'
  BY <1>3, <1>7, ThreadKept
<1> QED
  BY <1>3, <1>5, <1>6, <1>7, <1>8, Background
-----------------------------------------------------------------------------
LEMMA InitInv == Init => IInv
<1> SUFFICES ASSUME Init
             PROVE  IInv
  OBVIOUS
<1>1. 0 \in 0..MaxData /\ 1 \in 1..Loops /\ Len(<<>>) = 0
  BY BoundsAssumption
<1>2. ep \in [Endpoints -> Endpoint]
  BY <1>1 DEF Init, Endpoint
<1>3. task \in [Tasks -> Task]
  BY DEF Init, Task
<1>4. ntf \in [Endpoints -> Notifier]
  BY DEF Init, Notifier
<1>5. TypeOK
  <2>1. futures \in Seq(Future) /\ threads \in Seq(Thread) /\ queue \in Seq(Handle)
    BY DEF Init
  <2>2. Len(futures) <= MaxWaits /\ Len(threads) <= MaxThreads
    BY <1>1, BoundsAssumption DEF Init
  <2>3. loop \in 1..Loops /\ native \in [1..Loops -> BOOLEAN] /\ cur \in Tasks \cup {None}
    BY <1>1 DEF Init
  <2>4. readers \in [Fds -> FutureIds \cup {None}]
    BY DEF Init
  <2> QED
    BY <1>2, <1>3, <1>4, <2>1, <2>2, <2>3, <2>4 DEF TypeOK
<1>6. queue \in Seq(Handles)
  BY DEF Init
<1>7. \A t \in Tasks : TaskInv(t)
  BY DEF Init, TaskInv, Made, Begun
<1>8. \A e \in Endpoints : EndpointInv(e)
  BY DEF Init, EndpointInv, Made, Begun
<1>9. \A k \in DOMAIN threads : ThreadInv(k)
  BY DEF Init
<1>10. \A d \in Fds : ReaderInv(d)
  BY DEF Init, ReaderInv, Made
<1> QED
  BY <1>5, <1>6, <1>7, <1>8, <1>9, <1>10 DEF IInv

LEMMA StutterInv == ASSUME IInv, UNCHANGED vars PROVE IInv'
<1>1. Grows /\ FuturesKept /\ queue' \in Seq(Handles) /\ TypeOK'
  BY DEF Grows, FuturesKept, IInv, TypeOK, vars
<1>2. \A k \in DOMAIN threads' : ThreadInv(k)'
  BY <1>1, ThreadKept DEF vars
<1> QED
  BY <1>1, <1>2, Background DEF vars

\* The invariant holds in every behaviour: of tasks that receive, cancel, close and
\* open in any order, of threads and of the kernel, on one loop after another.
THEOREM Invariance == Spec => []IInv
<1>1. Init => IInv
  BY InitInv
<1>2. IInv /\ [Next]_vars => IInv'
  <2> SUFFICES ASSUME IInv, [Next]_vars
               PROVE  IInv'
    OBVIOUS
  <2>1. ASSUME NEW t \in Tasks, Start(t) \/ Calls(t) \/ Continues(t) \/ Tick(t)
        PROVE  IInv'
    <3>1. CASE Start(t) \/ Pause(t) \/ Tick(t)
      BY <3>1, StartInv, PauseInv, TickInv
    <3>2. ASSUME NEW e \in Endpoints, Recv(t, e) \/ Open(t, e) \/ Close(t, e) \/ Aclose(t, e)
          PROVE  IInv'
      BY <3>2, RecvInv, OpenInv, BeginCloseInv DEF Close, Aclose
    <3>3. ASSUME NEW u \in Tasks, Cancel(t, u)
          PROVE  IInv'
      BY <3>3, CancelInv
    <3>4. CASE WaitAgain(t) \/ EnsureThread(t) \/ Join(t) \/ Request(t) \/ Resumed(t)
      BY <3>4, WaitAgainInv, EnsureThreadInv, JoinInv, RequestInv, ResumedInv
    <3>5. CASE CloseJoins(t)
      BY <3>5, FinishCloseInv DEF CloseJoins, InControl
    <3>6. CASE AcloseLooks(t)
      BY <3>6, AcloseLooksInv
    <3> QED
      BY <2>1, <3>1, <3>2, <3>3, <3>4, <3>5, <3>6 DEF Calls, Continues
  <2>2. CASE RunCallback \/ NextLoop
    BY <2>2, RunCallbackInv, NextLoopInv
  <2>3. CASE \E d \in Fds : Poll(d)
    BY <2>3, PollInv
  <2>4. CASE \E k \in DOMAIN threads : ThreadStep(k)
    BY <2>4, ThreadStepInv
  <2>5. CASE \E e \in Endpoints : Arrive(e) \/ TakenByOther(e)
    BY <2>5, KernelInv
  <2>6. CASE UNCHANGED vars
    BY <2>6, StutterInv
  <2> QED
    BY <2>1, <2>2, <2>3, <2>4, <2>5, <2>6 DEF Next
<1> QED
  BY <1>1, <1>2, PTL DEF Spec

\* Every variable keeps its type: a callback names a task or a future there is, a socket's
\* queue is never taken below empty, and a notifier refers to futures and threads.
THEOREM TypeCorrectness == Spec => []TypeOK
<1>1. IInv => TypeOK
  BY DEF IInv
<1> QED
  BY <1>1, Invariance, PTL

\* The reader of a wait (ReadNotifier.wait, on a loop with add_reader) goes before its
\* descriptor does and before its wait ends, in whatever order receives are cancelled and
\* endpoints closed, and whether or not the kernel gives the number to another socket.
THEOREM ReadersAreRemoved == Spec => []NoReaderLeftBehind
<1>1. IInv => NoReaderLeftBehind
  BY DEF IInv, ReaderInv, Watched, NoReaderLeftBehind
<1> QED
  BY <1>1, Invariance, PTL

\* A selector thread is joined before its notifier forgets it (_retire_thread, close and
\* aclose): an endpoint has one that can run, and none after its close has returned.
THEOREM ThreadsRetire == Spec => []ThreadsAreRetired
<1>1. IInv => OneSelectorThread
  <2> SUFFICES ASSUME IInv, NEW j \in DOMAIN threads, NEW k \in DOMAIN threads, j # k,
                      threads[j].ep = threads[k].ep, Alive(j), Alive(k)
               PROVE  FALSE
    BY DEF OneSelectorThread
  <2> QED
    BY DEF IInv, ThreadInv, Alive
<1>2. IInv => CloseIsComplete
  <2> SUFFICES ASSUME IInv, NEW e \in Endpoints, ep[e].complete
               PROVE  Gone(e)
    BY DEF CloseIsComplete
  <2>1. /\ ntf[e].closed /\ ep[e].fd = None /\ ntf[e].pending = None
        /\ ntf[e].thread = None /\ ntf[e].waiter = None /\ ~ep[e].owns
    BY DEF IInv, EndpointInv
  <2>2. ASSUME NEW k \in DOMAIN threads, threads[k].ep = e
        PROVE  ~Alive(k)
    BY <2>1, <2>2 DEF IInv, ThreadInv, Alive
  <2>3. ASSUME NEW d \in Fds, readers[d] # None
        PROVE  futures[readers[d]].ep # e
    BY <2>1, <2>3 DEF IInv, ReaderInv, Watched
  <2> QED
    BY <2>1, <2>2, <2>3 DEF Gone
<1> QED
  BY <1>1, <1>2, Invariance, PTL DEF ThreadsAreRetired
=============================================================================
