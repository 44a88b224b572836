------------------------------ MODULE ReadNotifier ------------------------------
(*****************************************************************************)
(* UDPEndpoint's awaited receive: ReadNotifier (src/netimps/_udp/_notifier)   *)
(* together with arecv, close and aclose (src/netimps/_udp/_endpoint).        *)
(*                                                                           *)
(* The actors are the tasks of one asyncio loop, which run one at a time and  *)
(* give up control only where they suspend, the selector threads that stand   *)
(* in for add_reader on a loop that has none, and the kernel, which makes     *)
(* sockets readable and hands the number of a closed descriptor to the next   *)
(* socket.  Loops follow one another: asyncio.run may be called again.        *)
(*****************************************************************************)
EXTENDS Naturals, Sequences

CONSTANTS
    Tasks,      \* tasks of the application, each of which may receive
    Managers,   \* the tasks among them that also open, cancel and close
    Endpoints,  \* UDPEndpoint objects, each with one socket and one notifier
    Fds,        \* descriptor numbers; fewer than Endpoints makes the kernel reuse one
    MaxWaits,   \* bound: calls of ReadNotifier.wait, each with its own future
    MaxThreads, \* bound: selector threads started
    MaxData,    \* bound: datagrams queued on one socket
    Loops,      \* loops run one after another are 1..Loops
    Overlap,    \* whether the application begins a wait on a descriptor while
                \* an ended wait on it has yet to unwind (add_reader loops only)
    None

ASSUME BoundsAssumption ==
    /\ Managers \subseteq Tasks
    /\ MaxWaits \in Nat /\ MaxThreads \in Nat /\ MaxData \in Nat
    /\ Loops \in Nat \ {0} /\ Overlap \in BOOLEAN
    /\ None \notin Tasks \cup Endpoints \cup Fds \cup Nat

VARIABLES
    loop,     \* the loop that runs now
    native,   \* for each loop, whether it has add_reader
    queue,    \* the loop's callbacks that are ready, first in first out
    readers,  \* the loop's readers: descriptor -> the future its callback resolves
    futures,  \* the futures made so far, by number
    task,     \* for each task, where it is
    cur,      \* the task in control, None between callbacks
    ep,       \* UDPEndpoint state
    ntf,      \* ReadNotifier state, one notifier for each endpoint
    threads   \* the selector threads started so far, by number

vars == <<loop, native, queue, readers, futures, task, cur, ep, ntf, threads>>

FutureIds == 1..MaxWaits
ThreadIds == 1..MaxThreads

\* A callback that was cancelled while it was queued, and does nothing.
Cancelled == <<"cancelled", None>>

Handle == ({"wake"} \X Tasks) \cup ({"ready", "resolve"} \X FutureIds) \cup {Cancelled}

Future == [state : {"pending", "result", "exception", "cancelled"},
           ep : Endpoints, task : Tasks, fd : Fds, native : BOOLEAN]

\* "idle" holds no coroutine of this module; "run" is between two calls of it.
Task == [pc : {"idle", "run", "again", "ensure", "join", "request",
               "waiting", "closing", "aclosing", "asleep"},
         ep : Endpoints \cup {None},
         fut : FutureIds \cup {None},
         thread : ThreadIds \cup {None},
         cancel : BOOLEAN,
         out : {"none", "data", "cancelled", "RuntimeError", "OSError"}]

\* owns: UDPEndpoint._notifier is set.  complete: the close that stopped the
\* notifier has returned.
Endpoint == [fd : Fds \cup {None}, opened : BOOLEAN, inbox : 0..MaxData,
             closed : BOOLEAN, owns : BOOLEAN, complete : BOOLEAN]

Notifier == [closed : BOOLEAN, pending : FutureIds \cup {None},
             waiter : FutureIds \cup {None}, request : BOOLEAN,
             thread : ThreadIds \cup {None}, loop : 1..Loops \cup {None}]

\* stop and woken: the thread's own stop event, and a byte on its wake socket.
Thread == [ep : Endpoints, loop : 1..Loops, stop : BOOLEAN, woken : BOOLEAN,
           pc : {"ask", "clear", "check", "select", "fired", "post", "dead"},
           pend : FutureIds \cup {None}]

TypeOK ==
    /\ loop \in 1..Loops
    /\ native \in [1..Loops -> BOOLEAN]
    /\ queue \in Seq(Handle)
    /\ readers \in [Fds -> FutureIds \cup {None}]
    /\ futures \in Seq(Future) /\ Len(futures) <= MaxWaits
    /\ task \in [Tasks -> Task]
    /\ cur \in Tasks \cup {None}
    /\ ep \in [Endpoints -> Endpoint]
    /\ ntf \in [Endpoints -> Notifier]
    /\ threads \in Seq(Thread) /\ Len(threads) <= MaxThreads
-----------------------------------------------------------------------------
Readable(e) == ep[e].fd # None /\ ep[e].inbox > 0
Alive(k) == k # None /\ threads[k].pc # "dead"
InControl(t, pc) == cur = t /\ task[t].pc = pc

\* The calls of wait whose finally block has yet to run, on descriptor fd.
Unwinding(fd) ==
    {u \in Tasks : task[u].pc = "waiting" /\ futures[task[u].fut].fd = fd}

\* The calls of wait in progress on endpoint e that nobody has cancelled.
Waiting(e) ==
    {u \in Tasks : /\ task[u].pc \in {"ensure", "join", "request", "waiting"}
                   /\ task[u].ep = e
                   /\ futures[task[u].fut].state # "cancelled"
                   /\ ~task[u].cancel}

\* _remove_reader: the loop also cancels the reader's callback if it is queued.
WithoutReader(fd) == [readers EXCEPT ![fd] = None]
Dropped(q, fd) ==
    [n \in DOMAIN q |-> IF q[n] = <<"ready", readers[fd]>> THEN Cancelled ELSE q[n]]

\* future.set_result, set_exception and cancel: a future that is done stays so,
\* and the task that awaits it is queued.
Done(f, state) ==
    IF futures[f].state = "pending"
      THEN [futures EXCEPT ![f].state = state] ELSE futures
Woken(q, f) ==
    IF futures[f].state = "pending" THEN Append(q, <<"wake", futures[f].task>>) ELSE q
-----------------------------------------------------------------------------
Init ==
    /\ loop = 1
    /\ native \in [1..Loops -> BOOLEAN]
    /\ queue = <<>>
    /\ readers = [d \in Fds |-> None]
    /\ futures = <<>>
    /\ task = [t \in Tasks |->
                 [pc |-> "idle", ep |-> None, fut |-> None, thread |-> None,
                  cancel |-> FALSE, out |-> "none"]]
    /\ cur = None
    /\ ep = [e \in Endpoints |->
               [fd |-> None, opened |-> FALSE, inbox |-> 0, closed |-> FALSE,
                owns |-> FALSE, complete |-> FALSE]]
    /\ ntf = [e \in Endpoints |->
                [closed |-> FALSE, pending |-> None, waiter |-> None,
                 request |-> FALSE, thread |-> None, loop |-> None]]
    /\ threads = <<>>
-----------------------------------------------------------------------------
(* The application: a task that has control calls the endpoint, then yields. *)

\* A callback of the application's own, anywhere among those of this module.
Start(t) ==
    /\ cur = None
    /\ task[t].pc = "idle"
    /\ cur' = t
    /\ task' = [task EXCEPT ![t].pc = "run"]
    /\ UNCHANGED <<loop, native, queue, readers, futures, ep, ntf, threads>>

Pause(t) ==
    /\ InControl(t, "run")
    /\ task' = [task EXCEPT ![t].pc = "idle", ![t].ep = None, ![t].out = "none"]
    /\ cur' = None
    /\ UNCHANGED <<loop, native, queue, readers, futures, ep, ntf, threads>>

\* A socket is made and wrapped; the kernel gives it a number no open socket has.
Open(t, e) ==
    /\ InControl(t, "run")
    /\ ~ep[e].opened
    /\ \E d \in Fds \ {ep[x].fd : x \in Endpoints} :
         ep' = [ep EXCEPT ![e].fd = d, ![e].opened = TRUE]
    /\ UNCHANGED <<loop, native, queue, readers, futures, task, cur, ntf, threads>>

\* Task.cancel: the future awaited is cancelled, or if it is already done the
\* task is told to raise when it resumes.
Cancel(t, u) ==
    /\ InControl(t, "run")
    /\ u # t
    /\ ~task[u].cancel
    /\ \/ /\ task[u].pc = "waiting"
          /\ futures[task[u].fut].state = "pending"
          /\ futures' = Done(task[u].fut, "cancelled")
          /\ queue' = Woken(queue, task[u].fut)
          /\ UNCHANGED task
       \/ /\ \/ task[u].pc = "waiting" /\ futures[task[u].fut].state # "pending"
             \/ task[u].pc = "asleep"
          /\ task' = [task EXCEPT ![u].cancel = TRUE]
          /\ UNCHANGED <<futures, queue>>
    /\ UNCHANGED <<loop, native, readers, cur, ep, ntf, threads>>
-----------------------------------------------------------------------------
(* ReadNotifier.wait, called by arecv until it has a datagram.               *)

\* Up to the await on a loop with add_reader; up to _ensure_thread on one without.
\* add_reader replaces a reader the descriptor has, and cancels its callback.
Register(t, e) ==
    LET f == Len(futures) + 1
        d == ep[e].fd
    IN /\ f <= MaxWaits
       /\ futures' = Append(futures, [state |-> "pending", ep |-> e, task |-> t,
                                      fd |-> d, native |-> native[loop]])
       /\ \/ /\ native[loop]
             /\ readers' = [readers EXCEPT ![d] = f]
             /\ queue' = Dropped(queue, d)
             /\ ntf' = [ntf EXCEPT ![e].waiter = f]
             /\ task' = [task EXCEPT ![t].pc = "waiting", ![t].ep = e, ![t].fut = f]
             /\ cur' = None
          \/ /\ ~native[loop]
             /\ ntf' = [ntf EXCEPT ![e].waiter = f, ![e].pending = f]
             /\ task' = [task EXCEPT ![t].pc = "ensure", ![t].ep = e, ![t].fut = f]
             /\ UNCHANGED <<readers, queue, cur>>

\* arecv: _ensure_notifier makes the notifier of an open endpoint on first use.
Recv(t, e) ==
    /\ InControl(t, "run")
    /\ ep[e].opened
    /\ Waiting(e) = {}
    /\ IF ep[e].owns \/ ~ep[e].closed
         THEN /\ Overlap \/ ~native[loop] \/ Unwinding(ep[e].fd) = {}
              /\ ep' = [ep EXCEPT ![e].owns = TRUE]
              /\ Register(t, e)
         ELSE /\ task' = [task EXCEPT ![t].out = "RuntimeError"]
              /\ UNCHANGED <<queue, readers, futures, cur, ep, ntf>>
    /\ UNCHANGED <<loop, native, threads>>

\* The next turn of arecv's loop, after a read that would have blocked.
WaitAgain(t) ==
    /\ InControl(t, "again")
    /\ IF ntf[task[t].ep].closed
         THEN /\ task' = [task EXCEPT ![t].pc = "run", ![t].out = "RuntimeError"]
              /\ UNCHANGED <<queue, readers, futures, cur, ntf>>
         ELSE Register(t, task[t].ep)
    /\ UNCHANGED <<loop, native, ep, threads>>

\* Mutant: no byte on the wake socket.
Stopped_EventOnly(k) ==
    IF k = None THEN threads ELSE [threads EXCEPT ![k].stop = TRUE]

\* _signal_stop.
Stopped(k) ==
    IF k = None THEN threads
    ELSE [threads EXCEPT ![k].stop = TRUE, ![k].woken = TRUE]

\* Mutant: a thread started for an earlier loop is kept.
EnsureThread_AnyLoop(t) ==
    LET e == task[t].ep
    IN /\ InControl(t, "ensure")
       /\ ntf[e].thread # None \/ Len(threads) < MaxThreads
       /\ task' = [task EXCEPT ![t].pc = "request"]
       /\ IF ntf[e].thread # None THEN UNCHANGED <<ntf, threads>>
          ELSE /\ threads' = Append(threads, [ep |-> e, loop |-> loop, stop |-> FALSE,
                                    woken |-> FALSE, pc |-> "ask", pend |-> None])
               /\ ntf' = [ntf EXCEPT ![e].thread = Len(threads) + 1, ![e].loop = loop]
       /\ UNCHANGED <<loop, native, queue, readers, futures, cur, ep>>

EnsureThread(t) ==
    LET e == task[t].ep
        n == ntf[e]
    IN /\ InControl(t, "ensure")
       /\ \/ /\ n.thread # None /\ n.loop = loop
             /\ task' = [task EXCEPT ![t].pc = "request"]
             /\ UNCHANGED <<ntf, threads>>
          \/ /\ n.thread # None /\ n.loop # loop
             /\ threads' = Stopped(n.thread)
             /\ ntf' = [ntf EXCEPT ![e].request = TRUE]
             /\ task' = [task EXCEPT ![t].pc = "join", ![t].thread = n.thread]
          \/ /\ n.thread = None
             /\ Len(threads) < MaxThreads
             /\ threads' = Append(threads, [ep |-> e, loop |-> loop, stop |-> FALSE,
                                   woken |-> FALSE, pc |-> "ask", pend |-> None])
             /\ ntf' = [ntf EXCEPT ![e].thread = Len(threads) + 1, ![e].loop = loop]
             /\ task' = [task EXCEPT ![t].pc = "request"]
       /\ UNCHANGED <<loop, native, queue, readers, futures, cur, ep>>

\* _release.
Released(n) == [n EXCEPT !.thread = None, !.loop = None, !.request = FALSE]

\* Mutant: _retire_thread without the join.
Join_NoWait(t) ==
    /\ InControl(t, "join")
    /\ ntf' = [ntf EXCEPT ![task[t].ep] = Released(@)]
    /\ task' = [task EXCEPT ![t].pc = "ensure", ![t].thread = None]
    /\ UNCHANGED <<loop, native, queue, readers, futures, cur, ep, threads>>

\* The rest of _retire_thread: the loop is blocked until the thread has left.
Join(t) ==
    /\ InControl(t, "join")
    /\ ~Alive(task[t].thread)
    /\ ntf' = [ntf EXCEPT ![task[t].ep] = Released(@)]
    /\ task' = [task EXCEPT ![t].pc = "ensure", ![t].thread = None]
    /\ UNCHANGED <<loop, native, queue, readers, futures, cur, ep, threads>>

Request(t) ==
    /\ InControl(t, "request")
    /\ ntf' = [ntf EXCEPT ![task[t].ep].request = TRUE]
    /\ task' = [task EXCEPT ![t].pc = "waiting"]
    /\ cur' = None
    /\ UNCHANGED <<loop, native, queue, readers, futures, ep, threads>>

\* Mutant: the finally block leaves the reader registered.
UnwoundReaders_Kept(f) == readers

\* The finally block of wait.
UnwoundReaders(f) ==
    IF futures[f].native THEN WithoutReader(futures[f].fd) ELSE readers
UnwoundQueue(f) ==
    IF futures[f].native THEN Dropped(queue, futures[f].fd) ELSE queue
Unwound(n, f) ==
    [n EXCEPT !.waiter = IF @ = f THEN None ELSE @,
              !.pending = IF ~futures[f].native /\ @ = f THEN None ELSE @]

\* recvfrom on the non-blocking socket returns, and does not raise BlockingIOError.
HasDatagram(e) == Readable(e)

\* The await of wait returns or raises; after a result arecv reads at once, with
\* no other callback in between (_recv_nowait).
Resumed(t) ==
    LET f == task[t].fut
        e == task[t].ep
        raised == task[t].cancel \/ futures[f].state # "result"
        Goes(pc, out) ==
            task' = [task EXCEPT ![t].pc = pc, ![t].out = out,
                                 ![t].fut = None, ![t].cancel = FALSE]
    IN /\ InControl(t, "waiting")
       /\ readers' = UnwoundReaders(f)
       /\ queue' = UnwoundQueue(f)
       /\ ntf' = [ntf EXCEPT ![e] = Unwound(@, f)]
       /\ \/ raised /\ Goes("run", IF task[t].cancel \/ futures[f].state = "cancelled"
                                     THEN "cancelled" ELSE "RuntimeError")
          \/ ~raised /\ ep[e].fd = None /\ Goes("run", "OSError")
          \/ ~raised /\ ep[e].fd # None /\ HasDatagram(e) /\ Goes("run", "data")
          \/ ~raised /\ ep[e].fd # None /\ ~HasDatagram(e) /\ Goes("again", "none")
       /\ ep' = IF ~raised /\ ep[e].fd # None /\ HasDatagram(e)
                 THEN [ep EXCEPT ![e].inbox = @ - 1] ELSE ep
       /\ UNCHANGED <<loop, native, futures, cur, threads>>
-----------------------------------------------------------------------------
(* UDPEndpoint.close and aclose.                                             *)

\* socket.close: the number is free, and what the socket had queued is gone.
SocketClosed(e) ==
    [ep[e] EXCEPT !.fd = None, !.inbox = 0, !.closed = TRUE, !.owns = FALSE]

\* Mutant: the reader is removed and its future left pending.
Abort_ReaderOnly(f) ==
    /\ readers' = IF f = None THEN readers ELSE UnwoundReaders(f)
    /\ queue' = IF f = None THEN queue ELSE UnwoundQueue(f)
    /\ UNCHANGED futures

\* _abort_waiter, for the future of the wait in progress.
Abort(f) ==
    /\ readers' = IF f = None THEN readers ELSE UnwoundReaders(f)
    /\ queue' = IF f = None THEN queue ELSE Woken(UnwoundQueue(f), f)
    /\ futures' = IF f = None THEN futures ELSE Done(f, "exception")

\* Up to the wait for the thread.  _abort_waiter runs its abort at once, because
\* the caller is on the loop that waits.  A notifier already taken by an earlier
\* close is not waited for.
BeginClose(t, e, pc) ==
    /\ InControl(t, "run")
    /\ ep[e].opened
    /\ \/ /\ ep[e].owns
          /\ ep' = [ep EXCEPT ![e].closed = TRUE, ![e].owns = FALSE]
          /\ Abort(ntf[e].waiter)
          /\ threads' = Stopped(ntf[e].thread)
          /\ ntf' = [ntf EXCEPT ![e].closed = TRUE, ![e].waiter = None,
                                ![e].request = TRUE]
          /\ task' = [task EXCEPT ![t].pc = pc, ![t].ep = e,
                                  ![t].thread = ntf[e].thread]
       \/ /\ ~ep[e].owns
          /\ ep' = [ep EXCEPT ![e] = SocketClosed(e)]
          /\ UNCHANGED <<queue, readers, futures, task, ntf, threads>>
    /\ UNCHANGED <<loop, native, cur>>

Close(t, e) == BeginClose(t, e, "closing")
Aclose(t, e) == BeginClose(t, e, "aclosing")

\* The thread has left: release, forget the future, close the socket.
FinishClose(t) ==
    LET e == task[t].ep
    IN /\ ntf' = [ntf EXCEPT ![e] = [Released(@) EXCEPT !.pending = None]]
       /\ ep' = [ep EXCEPT ![e] = [SocketClosed(e) EXCEPT !.complete = TRUE]]
       /\ task' = [task EXCEPT ![t].pc = "run", ![t].thread = None]

\* Mutant: the socket goes without waiting for the thread.
CloseJoins_NoWait(t) ==
    /\ InControl(t, "closing")
    /\ FinishClose(t)
    /\ UNCHANGED <<loop, native, queue, readers, futures, cur, threads>>

\* close joins the thread, with the loop blocked.
CloseJoins(t) ==
    /\ InControl(t, "closing")
    /\ ~Alive(task[t].thread)
    /\ FinishClose(t)
    /\ UNCHANGED <<loop, native, queue, readers, futures, cur, threads>>

\* aclose looks at the thread, and sleeps while it is alive.
AcloseLooks(t) ==
    /\ InControl(t, "aclosing")
    /\ \/ /\ task[t].cancel
          /\ task' = [task EXCEPT ![t].pc = "run", ![t].cancel = FALSE,
                                  ![t].thread = None, ![t].out = "cancelled"]
          /\ UNCHANGED <<cur, ep, ntf>>
       \/ /\ ~task[t].cancel
          /\ Alive(task[t].thread)
          /\ task' = [task EXCEPT ![t].pc = "asleep"]
          /\ cur' = None
          /\ UNCHANGED <<ep, ntf>>
       \/ /\ ~task[t].cancel
          /\ ~Alive(task[t].thread)
          /\ FinishClose(t)
          /\ UNCHANGED cur
    /\ UNCHANGED <<loop, native, queue, readers, futures, threads>>
-----------------------------------------------------------------------------
(* The asyncio loop.                                                         *)

\* One ready callback: a task resumes, a reader fires, or the selector thread's
\* _resolve runs; one that was cancelled is passed over.
RunCallback ==
    /\ cur = None
    /\ queue # <<>>
    /\ LET kind == Head(queue)[1]
           who == Head(queue)[2]
       IN \/ /\ kind = "wake"
             /\ cur' = who
             /\ task' = [task EXCEPT ![who].pc =
                           IF @ = "asleep" THEN "aclosing" ELSE @]
             /\ queue' = Tail(queue)
             /\ UNCHANGED <<readers, futures>>
          \/ /\ kind = "ready"
             /\ readers' = WithoutReader(futures[who].fd)
             /\ futures' = Done(who, "result")
             /\ queue' = Woken(Tail(queue), who)
             /\ UNCHANGED <<task, cur>>
          \/ /\ kind = "resolve"
             /\ futures' = Done(who, "result")
             /\ queue' = Woken(Tail(queue), who)
             /\ UNCHANGED <<readers, task, cur>>
          \/ /\ kind = "cancelled"
             /\ queue' = Tail(queue)
             /\ UNCHANGED <<readers, futures, task, cur>>
    /\ UNCHANGED <<loop, native, ep, ntf, threads>>

\* The loop's selector reports a readable descriptor, once while the callback waits.
Poll(d) ==
    /\ cur = None
    /\ readers[d] # None
    /\ \E e \in Endpoints : ep[e].fd = d /\ Readable(e)
    /\ \A i \in DOMAIN queue : queue[i] # <<"ready", readers[d]>>
    /\ queue' = Append(queue, <<"ready", readers[d]>>)
    /\ UNCHANGED <<loop, native, readers, futures, task, cur, ep, ntf, threads>>

\* The timer of aclose's sleep.
Tick(t) ==
    /\ task[t].pc = "asleep"
    /\ \A i \in DOMAIN queue : queue[i] # <<"wake", t>>
    /\ queue' = Append(queue, <<"wake", t>>)
    /\ UNCHANGED <<loop, native, readers, futures, task, cur, ep, ntf, threads>>

\* asyncio.run returns, its tasks all finished, and another run begins.
NextLoop ==
    /\ loop < Loops
    /\ cur = None
    /\ \A t \in Tasks : task[t].pc = "idle"
    /\ loop' = loop + 1
    /\ queue' = <<>>
    /\ readers' = [d \in Fds |-> None]
    /\ UNCHANGED <<native, futures, task, cur, ep, ntf, threads>>
-----------------------------------------------------------------------------
(* ReadNotifier._run, the selector thread k.                                 *)

ThreadGoes(k, pc) == threads' = [threads EXCEPT ![k].pc = pc]

\* _request.wait.
Asked(k) ==
    /\ threads[k].pc = "ask"
    /\ ntf[threads[k].ep].request
    /\ ThreadGoes(k, "clear")
    /\ UNCHANGED <<loop, native, queue, readers, futures, task, cur, ep, ntf>>

\* _request.clear.
ClearsRequest(k) ==
    /\ threads[k].pc = "clear"
    /\ ThreadGoes(k, "check")
    /\ ntf' = [ntf EXCEPT ![threads[k].ep].request = FALSE]
    /\ UNCHANGED <<loop, native, queue, readers, futures, task, cur, ep>>

MustLeave(k) == ntf[threads[k].ep].closed \/ threads[k].stop

Checks(k) ==
    /\ threads[k].pc = "check"
    /\ ThreadGoes(k, IF MustLeave(k) THEN "dead" ELSE "select")
    /\ UNCHANGED <<loop, native, queue, readers, futures, task, cur, ep, ntf>>

\* select returns: the thread is woken, the socket is readable, or it has been
\* closed (OSError, ValueError).
Selects(k) ==
    /\ threads[k].pc = "select"
    /\ \/ threads[k].woken /\ ThreadGoes(k, "dead")
       \/ ep[threads[k].ep].fd = None /\ ThreadGoes(k, "dead")
       \/ ~threads[k].woken /\ Readable(threads[k].ep) /\ ThreadGoes(k, "fired")
    /\ UNCHANGED <<loop, native, queue, readers, futures, task, cur, ep, ntf>>

\* After select: the second look at the flags, and the future to resolve.
ReadsPending(k) ==
    /\ threads[k].pc = "fired"
    /\ LET pending == ntf[threads[k].ep].pending
       IN \/ MustLeave(k) /\ ThreadGoes(k, "dead")
          \/ ~MustLeave(k) /\ pending = None /\ ThreadGoes(k, "ask")
          \/ /\ ~MustLeave(k)
             /\ pending # None
             /\ threads' = [threads EXCEPT ![k].pc = "post", ![k].pend = pending]
    /\ UNCHANGED <<loop, native, queue, readers, futures, task, cur, ep, ntf>>

\* call_soon_threadsafe, which raises on a loop that is closed.
Posts(k) ==
    /\ threads[k].pc = "post"
    /\ \/ /\ threads[k].loop = loop
          /\ queue' = Append(queue, <<"resolve", threads[k].pend>>)
          /\ threads' = [threads EXCEPT ![k].pc = "ask", ![k].pend = None]
       \/ /\ threads[k].loop # loop
          /\ ThreadGoes(k, "dead")
          /\ UNCHANGED queue
    /\ UNCHANGED <<loop, native, readers, futures, task, cur, ep, ntf>>

ThreadStep(k) ==
    \/ Asked(k) \/ ClearsRequest(k) \/ Checks(k)
    \/ Selects(k) \/ ReadsPending(k) \/ Posts(k)
-----------------------------------------------------------------------------
(* The kernel.                                                               *)

Arrive(e) ==
    /\ ep[e].fd # None
    /\ ep[e].inbox < MaxData
    /\ ep' = [ep EXCEPT ![e].inbox = @ + 1]
    /\ UNCHANGED <<loop, native, queue, readers, futures, task, cur, ntf, threads>>

\* Another reader of the same socket takes a datagram: the wakeup is spurious.
TakenByOther(e) ==
    /\ Readable(e)
    /\ ep' = [ep EXCEPT ![e].inbox = @ - 1]
    /\ UNCHANGED <<loop, native, queue, readers, futures, task, cur, ntf, threads>>
-----------------------------------------------------------------------------
Calls(t) ==
    \/ Pause(t)
    \/ \E e \in Endpoints : Recv(t, e)
    \/ /\ t \in Managers
       /\ \/ \E e \in Endpoints : Open(t, e) \/ Close(t, e) \/ Aclose(t, e)
          \/ \E u \in Tasks : Cancel(t, u)

\* The steps of a call already made.
Continues(t) ==
    \/ WaitAgain(t) \/ EnsureThread(t) \/ Join(t) \/ Request(t) \/ Resumed(t)
    \/ CloseJoins(t) \/ AcloseLooks(t)

Next ==
    \/ \E t \in Tasks : Start(t) \/ Calls(t) \/ Continues(t) \/ Tick(t)
    \/ RunCallback \/ NextLoop
    \/ \E d \in Fds : Poll(d)
    \/ \E k \in DOMAIN threads : ThreadStep(k)
    \/ \E e \in Endpoints : Arrive(e) \/ TakenByOther(e)

\* A task in control gets to its next await, and a thread that can run runs.  Each
\* turn of the loop polls its descriptors and runs every callback that was ready,
\* whatever callbacks of the application come in between: hence SF.
Fairness ==
    /\ \A t \in Tasks : WF_vars(Pause(t)) /\ WF_vars(Continues(t)) /\ WF_vars(Tick(t))
    /\ SF_vars(RunCallback)
    /\ \A d \in Fds : SF_vars(Poll(d))
    /\ \A k \in ThreadIds : WF_vars(k \in DOMAIN threads /\ ThreadStep(k))

Spec == Init /\ [][Next]_vars /\ Fairness
-----------------------------------------------------------------------------
(* Properties.                                                               *)

Awaits(t, f) == task[t].pc = "waiting" /\ task[t].fut = f

\* A reader the loop watches belongs to a wait in progress, and its descriptor is
\* still that of the socket it was registered for: neither cancelling a receive
\* nor closing its endpoint, in either order, leaves one behind (ReadNotifier's
\* docstring; the finally block of wait and _abort_waiter).
NoReaderLeftBehind ==
    \A d \in Fds : readers[d] # None =>
        LET f == readers[d]
        IN /\ Awaits(futures[f].task, f)
           /\ ep[futures[f].ep].fd = d

\* Rebinding to another loop and closing retire a selector thread before the
\* notifier forgets it: an endpoint never has two that can run.
OneSelectorThread ==
    \A j, k \in DOMAIN threads :
        j # k /\ threads[j].ep = threads[k].ep => ~(Alive(j) /\ Alive(k))

\* What a close leaves: no thread, no reader, no future to resolve, no socket.
Gone(e) ==
    /\ ep[e].fd = None
    /\ \A k \in DOMAIN threads : threads[k].ep = e => ~Alive(k)
    /\ \A d \in Fds : readers[d] # None => futures[readers[d]].ep # e
    /\ ntf[e].pending = None /\ ntf[e].waiter = None /\ ntf[e].thread = None

\* close and aclose are complete on return, for the call that stopped the notifier.
CloseIsComplete == \A e \in Endpoints : ep[e].complete => Gone(e)

\* Wherever a selector thread is when its loop ends or its endpoint closes, it is
\* retired: the next loop starts its own only after it, and close leaves none
\* (_retire_thread, close, aclose).
ThreadsAreRetired == OneSelectorThread /\ CloseIsComplete

\* A wait on a socket that stays readable ends: no wakeup is lost between the
\* loop, the selector thread's request and its pending future.
ReadableWakes ==
    \A t \in Tasks :
        (task[t].pc = "waiting" /\ Readable(task[t].ep))
            ~> (task[t].pc # "waiting" \/ ~Readable(task[t].ep))

\* A task suspended in arecv when the endpoint is closed is woken.
CloseWakes ==
    \A t \in Tasks :
        (task[t].pc = "waiting" /\ ep[task[t].ep].closed) ~> task[t].pc # "waiting"

\* close and aclose return: the thread leaves wherever the close found it.
CloseReturns ==
    \A t \in Tasks :
        task[t].pc \in {"closing", "aclosing", "asleep", "join"}
            ~> task[t].pc \in {"run", "request"}

\* Closing ends both sides: the receive that waits and the close itself.
CloseEnds == CloseWakes /\ CloseReturns
=============================================================================
