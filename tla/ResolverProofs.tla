---------------------------- MODULE ResolverProofs ----------------------------
(*****************************************************************************)
(* Proofs about Resolver, for any number of callers, any requests, times to   *)
(* live and deadlines, any timeout and any limit of the cache.                *)
(*                                                                           *)
(* What a call has learned so far is tied to the backends it has passed: the   *)
(* types the current one has answered for, the denial by one before it, and   *)
(* that without a deadline none was left out.  What it knows at the end goes   *)
(* into the cache with the answer, and out of it to other calls.              *)
(*****************************************************************************)
EXTENDS Resolver, TLAPS

\* What an answer to a request rests on: records come from a backend of its chain; the
\* empty list was said by one that was asked for every type and, unless a deadline cut
\* the chain short, after all of them were asked.
Evidence(r, answer) ==
    IF IsEmpty(answer)
      THEN Denied(r, answer) /\ (answer.hurried \/ answer.asked = ChainSet(r))
      ELSE answer.by \in ChainSet(r)

\* The backends of a call that were passed, n of them, were all asked.
AllAsked(a, n) ==
    \A m \in 1..n :
        Serves(a.req.backends[m], a.req) => a.req.backends[m] \in a.answer.asked

\* A call between two backends, or before its first.
ChainInv(a) ==
    /\ a.i <= Len(a.req.backends)
    /\ a.answer.by = None
    /\ a.end = None => AllAsked(a, a.i)
    /\ a.answered => Denied(a.req, a.answer)

\* A backend of the chain is being asked.
AttemptInv(a) ==
    /\ ChainInv(a)
    /\ a.i < Len(a.req.backends)
    /\ Serves(Current(a), a.req)
    /\ a.end = None => Current(a) \in a.answer.asked

\* Without records or error, the first n types are known to have none.
NoneOfFirst(a, n) ==
    ~a.found /\ ~a.err => \A k \in 1..n : <<Current(a), k>> \in a.answer.none

\* A call that asks a backend was given time up to its deadline at most, and is past that
\* by no more than this backend adds.
AskingInv(a) ==
    /\ AttemptInv(a)
    /\ a.j < Asks(Current(a), a.req)
    /\ NoneOfFirst(a, a.j)
    /\ now <= a.until + Overrun(Current(a))
    /\ a.end # None => a.until <= a.end

IdleInv(a) ==
    /\ a.out \in {"list", "empty", "outage"} => a.req \in Requests
    /\ a.out \in {"list", "empty"} => a.out = Outcome(a.answer) /\ Evidence(a.req, a.answer)
    /\ a.out = "outage" => ~a.req.strict

BusyInv(a) ==
    /\ a.req \in Requests
    /\ a.out = "none"
    /\ a.answer.hurried = (a.end # None)
    /\ a.answer.asked \subseteq ChainSet(a.req)

CallInv(a) ==
    /\ a.pc = "idle" => IdleInv(a)
    /\ a.pc # "idle" => BusyInv(a)
    /\ a.pc = "chain" => ChainInv(a)
    /\ a.pc = "asking" => AskingInv(a)
    /\ a.pc = "put" => Evidence(a.req, a.answer)

EntryInv(e) == Evidence(e.key, e.answer)

IInv ==
    /\ TypeOK
    /\ \A c \in Callers : CallInv(call[c])
    /\ \A n \in DOMAIN cache : EntryInv(cache[n])
-----------------------------------------------------------------------------
LEMMA OverrunType == \A b : Overrun(b) \in Nat
BY ResolverAssumption DEF Overrun, Late

LEMMA IdleType == Idle \in Call /\ CallInv(Idle)
<1>1. Nothing(FALSE) \in Answer
  BY DEF Nothing, Answer
<1>2. Idle \in Call
  BY <1>1 DEF Idle, Call
<1>3. Idle.pc = "idle" /\ Idle.out = "none"
  BY DEF Idle
<1> QED
  BY <1>2, <1>3 DEF CallInv, IdleInv

\* A request has one record type or two, and the backends it names are backends.
LEMMA RequestType ==
    ASSUME NEW r \in Requests
    PROVE  /\ Len(r.rdtypes) \in {1, 2}
           /\ r.backends \in Seq(Backends)
           /\ Len(r.backends) \in Nat
           /\ \A n \in 1..Len(r.backends) : r.backends[n] \in Backends
           /\ ChainSet(r) \subseteq Backends
           /\ \A n \in 1..Len(r.backends) :
                Serves(r.backends[n], r) => r.backends[n] \in ChainSet(r)
           /\ \A b \in Backends : Asks(b, r) \in {1, 2}
<1>1. r \in Request
  BY ResolverAssumption
<1>2. Len(r.rdtypes) \in {1, 2}
  BY <1>1 DEF Request
<1>3. r.backends \in Seq(Backends)
  BY <1>1 DEF Request
<1> QED
  BY <1>2, <1>3 DEF ChainSet, Asks

\* A step of one call that leaves the clock and the cache alone.
LEMMA GoesInv ==
    ASSUME IInv, NEW c \in Callers, NEW a \in Call, CallInv(a),
           call' = [call EXCEPT ![c] = a],
           UNCHANGED <<now, cache, clears>>, calls' \in Nat
    PROVE  IInv'
<1> USE DEF IInv
<1>1. TypeOK'
  BY DEF TypeOK
<1>2. ASSUME NEW d \in Callers
      PROVE  CallInv(call[d])'
  <2>1. CallInv(call'[d])
    <3>1. call'[d] = IF d = c THEN a ELSE call[d]
      BY DEF TypeOK
    <3> QED
      BY <3>1
  <2> QED
    BY <2>1 DEF CallInv, AskingInv
<1>3. \A n \in DOMAIN cache' : EntryInv(cache'[n])
  OBVIOUS
<1> QED
  BY <1>1, <1>2, <1>3 DEF EntryInv
-----------------------------------------------------------------------------
LEMMA InitInv == Init => IInv
<1> SUFFICES ASSUME Init
             PROVE  IInv
  OBVIOUS
<1>1. \A c \in Callers : call[c] \in Call /\ CallInv(call[c])
  BY IdleType DEF Init
<1>2. TypeOK
  BY <1>1, ResolverAssumption DEF TypeOK, Init
<1>3. DOMAIN cache = {}
  BY DEF Init
<1> QED
  BY <1>1, <1>2, <1>3 DEF IInv

\* An answer out of the cache rests on what it was stored with.
LEMMA HitInv ==
    ASSUME IInv, NEW c \in Callers, NEW r \in Requests, NEW ttl \in Ttls, Hit(c, r, ttl)
    PROVE  IInv'
<1> USE DEF IInv
<1>1. PICK n \in Hits(r, ttl) :
        call' = [call EXCEPT ![c] = [Idle EXCEPT !.req = r, !.answer = cache[n].answer,
                                                 !.out = Outcome(cache[n].answer)]]
  BY DEF Hit
<1> DEFINE a == [Idle EXCEPT !.req = r, !.answer = cache[n].answer,
                             !.out = Outcome(cache[n].answer)]
<1>2. n \in DOMAIN cache /\ cache[n].key = r
  BY <1>1 DEF Hits, Held, CacheKey
<1>3. cache[n] \in Entry /\ EntryInv(cache[n])
  BY <1>2 DEF TypeOK
<1>4. cache[n].answer \in Answer /\ Evidence(r, cache[n].answer)
  BY <1>2, <1>3 DEF Entry, EntryInv
<1>5. a \in Call
  BY <1>4, IdleType DEF Call, Outcome
<1>6. a.pc = "idle" /\ a.req = r /\ a.answer = cache[n].answer
      /\ a.out = Outcome(cache[n].answer)
  BY IdleType DEF Idle
<1>7. CallInv(a)
  BY <1>4, <1>6 DEF CallInv, IdleInv, Outcome
<1> QED
  BY <1>1, <1>5, <1>7, GoesInv DEF Hit, TypeOK

LEMMA BeginInv ==
    ASSUME IInv, NEW c \in Callers, NEW r \in Requests, NEW keep \in BOOLEAN,
           NEW deadline \in Deadlines, Begin(c, r, keep, deadline)
    PROVE  IInv'
<1> DEFINE a == [Idle EXCEPT !.pc = "chain", !.req = r, !.keep = keep,
                     !.end = IF deadline = None THEN None ELSE now + deadline,
                     !.answer = Nothing(deadline # None)]
<1>1. call' = [call EXCEPT ![c] = a] /\ UNCHANGED <<now, cache, clears>> /\ calls' = calls + 1
  BY DEF Begin
<1>2. Nothing(deadline # None) \in Answer
  BY DEF Nothing, Answer
<1>3. a.end \in Nat \cup {None} /\ (a.end # None) = (deadline # None)
  BY ResolverAssumption DEF IInv, TypeOK, Idle
<1>4. a \in Call
  BY <1>2, <1>3, IdleType DEF Call
<1>5. /\ a.pc = "chain" /\ a.req = r /\ a.i = 0 /\ ~a.answered /\ a.out = "none"
      /\ a.answer = Nothing(deadline # None)
  BY DEF Idle
<1>6. /\ a.answer.by = None /\ a.answer.asked = {}
      /\ a.answer.hurried = (deadline # None)
  BY <1>5 DEF Nothing
<1>7. CallInv(a)
  BY <1>3, <1>5, <1>6, RequestType DEF CallInv, BusyInv, ChainInv, AllAsked
<1>8. calls' \in Nat
  BY <1>1 DEF IInv, TypeOK
<1> HIDE DEF a
<1> QED
  BY <1>1, <1>4, <1>7, <1>8, GoesInv
-----------------------------------------------------------------------------
\* What Goes changes and leaves alone, and what holds of the call before it.
LEMMA GoesStep ==
    ASSUME IInv, NEW c \in Callers, NEW a \in Call, Goes(c, a), CallInv(a)
    PROVE  IInv'
BY GoesInv DEF Goes, IInv, TypeOK

LEMMA CurrentInv ==
    ASSUME IInv, NEW c \in Callers
    PROVE  /\ call[c] \in Call /\ CallInv(call[c])
           /\ now \in Nat
BY DEF IInv, TypeOK

LEMMA SkipsInv == ASSUME IInv, NEW c \in Callers, Skips(c) PROVE IInv'
<1> DEFINE a == call[c]
           b == [a EXCEPT !.i = @ + 1]
<1>1. /\ a.pc = "chain" /\ More(a) /\ ~Serves(Current(a), a.req) /\ Goes(c, b)
      /\ a \in Call /\ CallInv(a)
  BY CurrentInv DEF Skips
<1> HIDE DEF a
<1>2. /\ b \in Call
      /\ b.pc = a.pc /\ b.req = a.req /\ b.out = a.out /\ b.answer = a.answer
      /\ b.end = a.end /\ b.answered = a.answered /\ b.i = a.i + 1 /\ a.i \in Nat
  BY <1>1 DEF Call
<1> HIDE DEF b
<1>3. AllAsked(a, a.i) => AllAsked(b, b.i)
  BY <1>1, <1>2 DEF AllAsked, Current
<1>4. CallInv(b)
  <2>1. ChainInv(b)
    BY <1>1, <1>2, <1>3, RequestType DEF CallInv, BusyInv, ChainInv, More
  <2> QED
    BY <1>1, <1>2, <2>1 DEF CallInv, BusyInv
<1> QED
  BY <1>1, <1>2, <1>4, GoesStep

LEMMA TooLateInv == ASSUME IInv, NEW c \in Callers, TooLate(c) PROVE IInv'
<1> DEFINE a == call[c]
           b == [a EXCEPT !.i = @ + 1]
<1>1. /\ a.pc = "chain" /\ More(a) /\ Passed(a.end) /\ Goes(c, b)
      /\ a \in Call /\ CallInv(a)
  BY CurrentInv DEF TooLate
<1> HIDE DEF a
<1>2. /\ b \in Call
      /\ b.pc = a.pc /\ b.req = a.req /\ b.out = a.out /\ b.answer = a.answer
      /\ b.end = a.end /\ b.answered = a.answered /\ b.i = a.i + 1 /\ a.i \in Nat
  BY <1>1 DEF Call
<1> HIDE DEF b
<1>3. CallInv(b)
  <2>1. ChainInv(b)
    BY <1>1, <1>2, RequestType DEF CallInv, BusyInv, ChainInv, More, Passed
  <2> QED
    BY <1>1, <1>2, <2>1 DEF CallInv, BusyInv
<1> QED
  BY <1>1, <1>2, <1>3, GoesStep

\* An attempt that starts, and one that goes on to the next type, end by the deadline.
LEMMA BudgetInTime ==
    ASSUME NEW end \in Nat \cup {None}, now \in Nat, ~Passed(end)
    PROVE  /\ Budget(end) \in Nat
           /\ now <= Budget(end)
           /\ end # None => Budget(end) <= end
BY ResolverAssumption DEF Passed, Budget

LEMMA TriesInv == ASSUME IInv, NEW c \in Callers, Tries(c) PROVE IInv'
<1> DEFINE a == call[c]
           b == [a EXCEPT !.pc = "asking", !.j = 0, !.found = FALSE, !.err = FALSE,
                          !.until = Budget(a.end),
                          !.answer.asked = @ \cup {Current(a)}]
<1>1. /\ a.pc = "chain" /\ More(a) /\ Serves(Current(a), a.req) /\ ~Passed(a.end)
      /\ Goes(c, b) /\ a \in Call /\ CallInv(a) /\ now \in Nat
  BY CurrentInv DEF Tries
<1> HIDE DEF a
<1>2. /\ a.req \in Requests /\ a.i \in Nat /\ a.end \in Nat \cup {None}
      /\ a.i + 1 \in 1..Len(a.req.backends)
  BY <1>1, RequestType DEF CallInv, BusyInv, Call, More
<1>3. Current(a) \in Backends /\ Current(a) \in ChainSet(a.req)
      /\ Asks(Current(a), a.req) \in {1, 2}
  BY <1>1, <1>2, RequestType DEF Current
<1>4. /\ Budget(a.end) \in Nat /\ now <= Budget(a.end)
      /\ a.end # None => Budget(a.end) <= a.end
  BY <1>1, <1>2, BudgetInTime
<1>5. a.answer \in Answer
  BY <1>1 DEF Call
<1> DEFINE w == [a.answer EXCEPT !.asked = @ \cup {Current(a)}]
<1>6. /\ w \in Answer /\ w.by = a.answer.by /\ w.none = a.answer.none
      /\ w.hurried = a.answer.hurried /\ w.asked = a.answer.asked \cup {Current(a)}
  BY <1>3, <1>5 DEF Answer
<1>7. b = [a EXCEPT !.pc = "asking", !.j = 0, !.found = FALSE, !.err = FALSE,
                    !.until = Budget(a.end), !.answer = w]
  BY <1>1 DEF Call
<1> HIDE DEF b, w
<1>8. /\ b \in Call
      /\ b.pc = "asking" /\ b.req = a.req /\ b.out = a.out /\ b.answer = w
      /\ b.end = a.end /\ b.answered = a.answered /\ b.i = a.i /\ b.j = 0
      /\ b.until = Budget(a.end)
  BY <1>1, <1>4, <1>6, <1>7 DEF Call
<1>9. AskingInv(b)
  <2>1. Current(b) = Current(a)
    BY <1>8 DEF Current
  <2>2. AllAsked(a, a.i) => AllAsked(b, b.i)
    BY <1>6, <1>8 DEF AllAsked
  <2>3. ChainInv(b)
    BY <1>1, <1>6, <1>8, <2>2 DEF CallInv, ChainInv, Denied
  <2>4. now <= b.until + Overrun(Current(b))
    BY <1>1, <1>4, <1>8, OverrunType
  <2> QED
    BY <1>1, <1>2, <1>3, <1>4, <1>6, <1>8, <2>1, <2>3, <2>4, RequestType
    DEF AskingInv, AttemptInv, NoneOfFirst
<1>10. CallInv(b)
  BY <1>1, <1>3, <1>6, <1>8, <1>9 DEF CallInv, BusyInv
<1> QED
  BY <1>1, <1>8, <1>10, GoesStep

\* The fields an attempt changes keep their types.
LEMMA NextType ==
    ASSUME NEW a \in Call, NEW j \in Nat, NEW until \in Nat
    PROVE  [a EXCEPT !.j = j, !.until = until] \in Call
BY DEF Call

LEMMA LastType ==
    ASSUME NEW a \in Call, NEW j \in Nat, NEW err \in BOOLEAN
    PROVE  [a EXCEPT !.j = j, !.err = err] \in Call
BY DEF Call

LEMMA NextBackendType ==
    ASSUME NEW a \in Call, NEW i \in Nat, NEW answered \in BOOLEAN
    PROVE  [a EXCEPT !.pc = "chain", !.i = i, !.answered = answered] \in Call
BY DEF Call

\* A type that is done: the next one is asked for, or the attempt is over, with an error
\* if the deadline left a type out.
LEMMA AdvancedInv ==
    ASSUME NEW a \in Call, now \in Nat, a.pc = "asking", BusyInv(a), AttemptInv(a),
           a.j < Asks(Current(a), a.req),
           NoneOfFirst(a, a.j + 1)
    PROVE  Advanced(a) \in Call /\ CallInv(Advanced(a))
<1>1. /\ a.req \in Requests /\ a.i \in Nat /\ a.j \in Nat /\ a.end \in Nat \cup {None}
      /\ a.i + 1 \in 1..Len(a.req.backends) /\ a.answer \in Answer
      /\ a.found \in BOOLEAN /\ a.err \in BOOLEAN
  BY RequestType DEF BusyInv, AttemptInv, Call
<1>2. /\ Current(a) \in Backends /\ Current(a) \in ChainSet(a.req)
      /\ Asks(Current(a), a.req) \in {1, 2}
  BY <1>1, RequestType DEF Current, AttemptInv
<1> DEFINE left == a.j + 1 < Asks(Current(a), a.req)
<1>3. CASE left /\ ~Passed(a.end)
  <2> DEFINE b == [a EXCEPT !.j = @ + 1, !.until = Budget(a.end)]
  <2>1. Advanced(a) = b
    BY <1>3 DEF Advanced
  <2>2. /\ Budget(a.end) \in Nat /\ now <= Budget(a.end)
        /\ a.end # None => Budget(a.end) <= a.end
    BY <1>1, <1>3, BudgetInTime
  <2>3. /\ b.pc = a.pc /\ b.req = a.req /\ b.out = a.out /\ b.answer = a.answer
        /\ b.end = a.end /\ b.answered = a.answered /\ b.i = a.i /\ b.j = a.j + 1
        /\ b.until = Budget(a.end) /\ b.found = a.found /\ b.err = a.err
    BY <1>1 DEF Call
  <2>0. b \in Call
    <3>1. a.j + 1 \in Nat
      BY <1>1
    <3> QED
      BY <3>1, <2>2, NextType, Zenon
  <2> HIDE DEF b
  <2>5. now <= b.until + Overrun(Current(b))
    BY <2>2, <2>3, OverrunType
  <2>4. AskingInv(b)
    BY <1>3, <2>2, <2>3, <2>5
    DEF AskingInv, AttemptInv, ChainInv, AllAsked, NoneOfFirst, Current
  <2> QED
    BY <2>0, <2>1, <2>3, <2>4 DEF CallInv, BusyInv
<1>4. CASE ~(left /\ ~Passed(a.end))
  <2> DEFINE failed == a.err \/ left
             d == [a EXCEPT !.j = Asks(Current(a), a.req), !.err = failed]
  <2>1. Advanced(a) = Concluded(d)
    BY <1>1, <1>4 DEF Advanced, Call
  <2>6. /\ failed \in BOOLEAN
        /\ ~failed => ~a.err /\ ~left
    BY <1>1
  <2> HIDE DEF failed
  <2>2. /\ d \in Call
        /\ d.pc = a.pc /\ d.req = a.req /\ d.out = a.out /\ d.answer = a.answer
        /\ d.end = a.end /\ d.answered = a.answered /\ d.i = a.i
        /\ d.found = a.found /\ d.err = failed
    <3>1. Asks(Current(a), a.req) \in Nat
      BY <1>2
    <3>2. d \in Call
      BY <2>6, <3>1, LastType, Zenon
    <3> QED
      BY <3>2 DEF Call
  <2>3. Current(d) = Current(a)
    BY <2>2 DEF Current
  <2> HIDE DEF d
  <2>4. CASE a.found
    <3> DEFINE w == [a.answer EXCEPT !.by = Current(a)]
               b == [d EXCEPT !.pc = "put", !.answer = w]
    <3>1. /\ w \in Answer /\ w.by = Current(a)
          /\ w.asked = a.answer.asked /\ w.hurried = a.answer.hurried
      BY <1>1, <1>2 DEF Answer
    <3>2. Advanced(a) = b
      BY <2>1, <2>2, <2>3, <2>4 DEF Concluded, Call
    <3>3. /\ b \in Call /\ b.pc = "put" /\ b.req = a.req /\ b.out = a.out
          /\ b.answer = w /\ b.end = a.end
      BY <2>2, <3>1 DEF Call
    <3> HIDE DEF b, w
    <3>4. Evidence(b.req, b.answer)
      BY <1>2, <3>1, <3>3, ResolverAssumption DEF Evidence, IsEmpty
    <3> QED
      BY <3>1, <3>2, <3>3, <3>4 DEF CallInv, BusyInv
  <2>5. CASE ~a.found
    <3> DEFINE said == IF d.err THEN a.answered ELSE TRUE
               b == [d EXCEPT !.pc = "chain", !.i = @ + 1, !.answered = said]
    <3>0. said \in BOOLEAN /\ (said => a.answered \/ ~d.err)
      BY DEF Call
    <3>1. Advanced(a) = b
      BY ZenonT(30), <2>1, <2>2, <2>5, <1>1 DEF Concluded, Call
    <3> HIDE DEF said
    <3>2. /\ b.pc = "chain" /\ b.req = a.req /\ b.out = a.out
          /\ b.answer = a.answer /\ b.end = a.end /\ b.i = a.i + 1
          /\ b.answered = said
      BY <1>1, <2>2 DEF Call
    <3>6. b \in Call
      <4>1. d.i + 1 \in Nat
        BY <1>1, <2>2
      <4> QED
        BY <4>1, <2>2, <3>0, NextBackendType, Zenon
    <3> HIDE DEF b
    <3>3. ~d.err => Denied(a.req, a.answer)
      <4> SUFFICES ASSUME ~d.err
                   PROVE  Denied(a.req, a.answer)
        OBVIOUS
      <4>1. a.j + 1 = Asks(Current(a), a.req)
        BY <1>1, <1>2, <2>2, <2>6
      <4>2. \A k \in 1..(a.j + 1) : <<Current(a), k>> \in a.answer.none
        BY <2>2, <2>5, <2>6 DEF NoneOfFirst
      <4> QED
        BY <1>2, <4>1, <4>2 DEF Denied
    <3>4. a.end = None => AllAsked(b, b.i)
      BY <1>1, <3>2, RequestType DEF AttemptInv, ChainInv, AllAsked, Current
    <3>5. ChainInv(b)
      BY <1>1, <3>0, <3>2, <3>3, <3>4, RequestType DEF AttemptInv, ChainInv
    <3> QED
      BY <3>1, <3>2, <3>5, <3>6 DEF CallInv, BusyInv
  <2> QED
    BY <2>4, <2>5
<1> QED
  BY <1>3, <1>4

LEMMA AnswersInv == ASSUME IInv, NEW c \in Callers, Answers(c) PROVE IInv'
<1> DEFINE a == call[c]
           b(records) ==
              [a EXCEPT !.found = a.found \/ records,
                        !.answer.none = IF records THEN @
                                        ELSE @ \cup {<<Current(a), a.j + 1>>}]
<1>1. /\ a.pc = "asking"
      /\ a \in Call /\ CallInv(a) /\ now \in Nat
  BY CurrentInv DEF Answers, Answering
<1>2. PICK records \in BOOLEAN : Goes(c, Advanced(b(records)))
  BY DEF Answers
<1> HIDE DEF a
<1>3. BusyInv(a) /\ AskingInv(a)
  BY <1>1 DEF CallInv
<1>4. /\ a.req \in Requests /\ a.i \in Nat /\ a.j \in Nat /\ a.end \in Nat \cup {None}
      /\ a.i + 1 \in 1..Len(a.req.backends) /\ a.answer \in Answer
      /\ a.found \in BOOLEAN /\ a.err \in BOOLEAN /\ a.until \in Nat
  BY <1>1, <1>3, RequestType DEF BusyInv, AskingInv, AttemptInv, Call
<1>5. Current(a) \in Backends /\ Asks(Current(a), a.req) \in {1, 2}
  BY <1>4, RequestType DEF Current
<1> DEFINE w == [a.answer EXCEPT !.none = IF records THEN @
                                          ELSE @ \cup {<<Current(a), a.j + 1>>}]
           d == [a EXCEPT !.found = a.found \/ records, !.answer = w]
<1>6. /\ w \in Answer /\ w.by = a.answer.by /\ w.asked = a.answer.asked
      /\ w.hurried = a.answer.hurried /\ a.answer.none \subseteq w.none
      /\ ~records => <<Current(a), a.j + 1>> \in w.none
  <2>1. a.j + 1 \in {1, 2}
    BY <1>3, <1>4, <1>5 DEF AskingInv
  <2> QED
    BY <1>4, <1>5, <2>1 DEF Answer
<1>7. b(records) = d
  BY <1>1 DEF Call
<1> HIDE DEF b, w
<1>8. /\ d \in Call /\ d.found = (a.found \/ records) /\ d.answer = w
      /\ d.pc = a.pc /\ d.req = a.req /\ d.out = a.out /\ d.end = a.end /\ d.err = a.err
      /\ d.answered = a.answered /\ d.i = a.i /\ d.j = a.j /\ d.until = a.until
  BY <1>1, <1>4, <1>6 DEF Call
<1> HIDE DEF d
<1>9. Current(d) = Current(a)
  BY <1>8 DEF Current
<1>10. BusyInv(d)
  BY <1>3, <1>6, <1>8 DEF BusyInv
<1>11. AttemptInv(d)
  BY <1>3, <1>6, <1>8, <1>9 DEF AskingInv, AttemptInv, ChainInv, AllAsked, Denied
<1>12. NoneOfFirst(d, d.j + 1)
  BY <1>3, <1>4, <1>6, <1>8, <1>9 DEF AskingInv, NoneOfFirst
<1>13. d.j < Asks(Current(d), d.req)
  BY <1>1, <1>3, <1>4, <1>8, <1>9 DEF AskingInv
<1>14. Advanced(d) \in Call /\ CallInv(Advanced(d))
  BY <1>1, <1>8, <1>10, <1>11, <1>12, <1>13, AdvancedInv
<1> QED
  BY <1>2, <1>7, <1>14, GoesStep

LEMMA FailsInv == ASSUME IInv, NEW c \in Callers, Fails(c) PROVE IInv'
<1> DEFINE a == call[c]
           d == [a EXCEPT !.err = TRUE]
<1>1. /\ a.pc = "asking" /\ Goes(c, Advanced(d))
      /\ a \in Call /\ CallInv(a) /\ now \in Nat
  BY CurrentInv DEF Fails
<1> HIDE DEF a
<1>2. BusyInv(a) /\ AskingInv(a)
  BY <1>1 DEF CallInv
<1>3. /\ d \in Call /\ d.found = a.found /\ d.answer = a.answer
      /\ d.pc = a.pc /\ d.req = a.req /\ d.out = a.out /\ d.end = a.end /\ d.err
      /\ d.answered = a.answered /\ d.i = a.i /\ d.j = a.j /\ d.until = a.until
  BY <1>1 DEF Call
<1> HIDE DEF d
<1>4. Current(d) = Current(a)
  BY <1>3 DEF Current
<1>5. BusyInv(d) /\ AttemptInv(d) /\ NoneOfFirst(d, d.j + 1)
  BY <1>2, <1>3, <1>4 DEF BusyInv, AskingInv, AttemptInv, ChainInv, AllAsked, NoneOfFirst
<1>6. d.j < Asks(Current(d), d.req)
  BY <1>1, <1>2, <1>3, <1>4 DEF AskingInv, Call
<1>7. Advanced(d) \in Call /\ CallInv(Advanced(d))
  BY <1>1, <1>3, <1>5, <1>6, AdvancedInv
<1> QED
  BY <1>1, <1>7, GoesStep

\* A call that ends without an answer.
LEMMA UnansweredInv ==
    ASSUME IInv, NEW c \in Callers, NEW r \in Requests, NEW out \in {"raised", "outage"},
           out = "outage" => ~r.strict,
           Goes(c, [Idle EXCEPT !.req = r, !.out = out])
    PROVE  IInv'
<1> DEFINE b == [Idle EXCEPT !.req = r, !.out = out]
<1>1. b \in Call /\ b.pc = "idle" /\ b.out = out /\ b.req = r
  BY IdleType DEF Call, Idle
<1> HIDE DEF b
<1>2. CallInv(b)
  BY <1>1 DEF CallInv, IdleInv
<1> QED
  BY <1>1, <1>2, GoesStep DEF b

LEMMA RefusesInv == ASSUME IInv, NEW c \in Callers, Refuses(c) PROVE IInv'
<1>1. call[c].pc = "asking" /\ Goes(c, [Idle EXCEPT !.req = call[c].req, !.out = "raised"])
  BY DEF Refuses, Answering
<1>2. call[c].req \in Requests
  BY <1>1, CurrentInv DEF CallInv, BusyInv
<1> QED
  BY <1>1, <1>2, UnansweredInv

LEMMA EndsInv == ASSUME IInv, NEW c \in Callers, Ends(c) PROVE IInv'
<1> DEFINE a == call[c]
           b == [a EXCEPT !.pc = "put"]
<1>1. /\ a.pc = "chain" /\ ~More(a) /\ a \in Call /\ CallInv(a)
      /\ Goes(c, IF a.answered THEN b ELSE Unanswered(a))
  BY CurrentInv DEF Ends
<1>2. a.req \in Requests
  BY <1>1 DEF CallInv, BusyInv
<1>3. CASE a.answered
  <2> HIDE DEF a
  <2>1. /\ b \in Call /\ b.pc = "put" /\ b.req = a.req /\ b.out = a.out
        /\ b.answer = a.answer /\ b.end = a.end
    BY <1>1 DEF Call
  <2>2. a.answer \in Answer /\ a.i \in Nat
    BY <1>1 DEF Call
  <2>3. a.end = None => a.answer.asked = ChainSet(a.req)
    BY <1>1, <1>2, <2>2, RequestType
    DEF CallInv, BusyInv, ChainInv, AllAsked, More, ChainSet
  <2>4. Evidence(a.req, a.answer)
    BY <1>1, <1>3, <2>3 DEF CallInv, BusyInv, ChainInv, Evidence, IsEmpty
  <2> HIDE DEF b
  <2>5. CallInv(b)
    BY <1>1, <2>1, <2>4 DEF CallInv, BusyInv
  <2> QED
    BY <1>1, <1>3, <2>1, <2>5, GoesStep
<1>4. CASE ~a.answered
  <2>1. Goes(c, Unanswered(a))
    BY <1>1, <1>4
  <2>2. CASE a.req.strict \/ ChainSet(a.req) = {}
    BY <1>2, <2>1, <2>2, UnansweredInv DEF Unanswered
  <2>3. CASE ~(a.req.strict \/ ChainSet(a.req) = {})
    BY <1>2, <2>1, <2>3, UnansweredInv DEF Unanswered
  <2> QED
    BY <2>2, <2>3
<1> QED
  BY <1>3, <1>4
-----------------------------------------------------------------------------
\* What the cache holds after a store: entries it had and the new one, one for each key
\* and no more than its limit.
LEMMA EvictedType ==
    ASSUME NEW entries \in Seq(Entry)
    PROVE  /\ Evicted(entries) \in Seq(Entry)
           /\ Len(Evicted(entries)) <= Limit
           /\ \E d \in Nat : \A n \in 1..Len(Evicted(entries)) :
                n + d \in 1..Len(entries) /\ Evicted(entries)[n] = entries[n + d]
<1>1. Limit \in Nat \ {0} /\ Len(entries) \in Nat
  BY ResolverAssumption
<1>2. CASE Len(entries) <= Limit
  <2>1. \A n \in 1..Len(entries) : n + 0 \in 1..Len(entries) /\ entries[n] = entries[n + 0]
    OBVIOUS
  <2> QED
    BY <1>1, <1>2, <2>1 DEF Evicted
<1>3. CASE ~(Len(entries) <= Limit)
  <2> DEFINE d == Len(entries) - Limit
             kept == SubSeq(entries, d + 1, Len(entries))
  <2>1. d \in Nat \ {0} /\ Evicted(entries) = kept
    BY <1>1, <1>3 DEF Evicted
  <2>2. kept \in Seq(Entry) /\ Len(kept) = Limit
        /\ \A n \in 1..Limit : kept[n] = entries[n + d]
    BY <1>1, <2>1
  <2>3. \A n \in 1..Limit : n + d \in 1..Len(entries)
    BY <1>1, <2>1
  <2> HIDE DEF kept, d
  <2>4. \A n \in 1..Len(kept) : n + d \in 1..Len(entries) /\ kept[n] = entries[n + d]
    BY <2>2, <2>3
  <2>5. \E m \in Nat : \A n \in 1..Len(kept) :
           n + m \in 1..Len(entries) /\ kept[n] = entries[n + m]
    BY <2>1, <2>4, Zenon
  <2>6. Len(kept) <= Limit
    BY <1>1, <2>2
  <2> QED
    BY <2>1, <2>2, <2>5, <2>6, Zenon
<1> QED
  BY <1>2, <1>3

LEMMA StoredInv ==
    ASSUME TypeOK, \A n \in DOMAIN cache : EntryInv(cache[n]),
           NEW r \in Requests, NEW answer \in Answer, Evidence(r, answer)
    PROVE  /\ Stored(r, answer) \in Seq(Entry)
           /\ Len(Stored(r, answer)) <= Limit
           /\ \A m, n \in DOMAIN Stored(r, answer) :
                Stored(r, answer)[m].key = Stored(r, answer)[n].key => m = n
           /\ \A n \in DOMAIN Stored(r, answer) : EntryInv(Stored(r, answer)[n])
<1> DEFINE entry == [key |-> r, at |-> now, answer |-> answer]
<1>1. /\ cache \in Seq(Entry) /\ Len(cache) <= Limit /\ Len(cache) \in Nat
      /\ DOMAIN cache = 1..Len(cache)
      /\ \A m, n \in DOMAIN cache : cache[m].key = cache[n].key => m = n
  BY DEF TypeOK
<1>2. entry \in Entry /\ entry.key = r /\ EntryInv(entry)
  BY DEF Entry, EntryInv, TypeOK
<1>3. CASE Held(r) = {}
  <2> DEFINE more == Append(cache, entry)
  <2>1. more \in Seq(Entry) /\ Len(more) = Len(cache) + 1
        /\ \A n \in 1..Len(cache) : more[n] = cache[n]
        /\ more[Len(cache) + 1] = entry
    BY <1>1, <1>2
  <2> HIDE DEF entry
  <2>2. \A n \in DOMAIN cache : cache[n].key # r
    BY <1>3 DEF Held, CacheKey
  <2>3. \A n \in 1..Len(more) : EntryInv(more[n])
    BY <1>1, <1>2, <2>1
  <2>4. \A m, n \in 1..Len(more) : more[m].key = more[n].key => m = n
    BY <1>1, <1>2, <2>1, <2>2
  <2>5. Stored(r, answer) = Evicted(more)
    BY <1>3 DEF Stored, CacheKey, entry
  <2> HIDE DEF more
  <2>6. PICK d \in Nat : \A n \in 1..Len(Evicted(more)) :
            n + d \in 1..Len(more) /\ Evicted(more)[n] = more[n + d]
    BY <2>1, EvictedType
  <2>7. Evicted(more) \in Seq(Entry) /\ Len(Evicted(more)) <= Limit
        /\ DOMAIN Evicted(more) = 1..Len(Evicted(more))
    BY <2>1, EvictedType
  <2>8. \A n \in DOMAIN Evicted(more) : EntryInv(Evicted(more)[n])
    BY <2>3, <2>6, <2>7
  <2>9. ASSUME NEW m \in DOMAIN Evicted(more), NEW n \in DOMAIN Evicted(more),
               Evicted(more)[m].key = Evicted(more)[n].key
        PROVE  m = n
    <3>1. m + d \in 1..Len(more) /\ n + d \in 1..Len(more)
          /\ more[m + d].key = more[n + d].key
      BY <2>6, <2>7, <2>9
    <3>2. m + d = n + d
      BY <2>4, <3>1
    <3> QED
      BY <2>7, <3>2
  <2> QED
    BY <2>5, <2>7, <2>8, <2>9
<1>4. CASE Held(r) # {}
  <2> DEFINE same == [n \in DOMAIN cache |-> IF n \in Held(r) THEN entry ELSE cache[n]]
  <2>1. Stored(r, answer) = same
    BY <1>4 DEF Stored, CacheKey
  <2> HIDE DEF entry
  <2>2. \A n \in 1..Len(cache) : cache[n] \in Entry
    BY <1>1
  <2>3. same \in Seq(Entry) /\ Len(same) = Len(cache) /\ DOMAIN same = 1..Len(cache)
    BY <1>1, <1>2, <2>2
  <2>4. \A n \in DOMAIN cache : same[n].key = cache[n].key
    BY <1>2 DEF Held, CacheKey
  <2>5. \A n \in DOMAIN cache : EntryInv(same[n])
    BY <1>2
  <2> HIDE DEF same
  <2> QED
    BY <1>1, <2>1, <2>3, <2>4, <2>5
<1> QED
  BY <1>3, <1>4

LEMMA PutsInv == ASSUME IInv, NEW c \in Callers, Puts(c) PROVE IInv'
<1> DEFINE a == call[c]
           b == [Idle EXCEPT !.req = a.req, !.answer = a.answer, !.out = Outcome(a.answer)]
<1>1. /\ a.pc = "put" /\ a \in Call /\ CallInv(a)
      /\ call' = [call EXCEPT ![c] = b] /\ UNCHANGED <<now, calls, clears>>
      /\ cache' = IF a.keep THEN Stored(a.req, a.answer) ELSE cache
  BY CurrentInv DEF Puts
<1>2. a.req \in Requests /\ a.answer \in Answer /\ Evidence(a.req, a.answer)
  BY <1>1 DEF CallInv, BusyInv, Call
<1> HIDE DEF a
<1>3. /\ b \in Call /\ b.pc = "idle" /\ b.req = a.req /\ b.answer = a.answer
      /\ b.out = Outcome(a.answer)
  BY <1>2, IdleType DEF Idle, Call, Outcome
<1> HIDE DEF b
<1>4. CallInv(b)
  BY <1>2, <1>3 DEF CallInv, IdleInv, Outcome
<1>5. /\ cache' \in Seq(Entry) /\ Len(cache') <= Limit
      /\ \A m, n \in DOMAIN cache' : cache'[m].key = cache'[n].key => m = n
      /\ \A n \in DOMAIN cache' : EntryInv(cache'[n])
  <2>1. CASE a.keep
    BY <1>1, <1>2, <2>1, StoredInv DEF IInv
  <2>2. CASE ~a.keep
    BY <1>1, <2>2 DEF IInv, TypeOK
  <2> QED
    BY <2>1, <2>2
<1>6. TypeOK'
  BY <1>1, <1>3, <1>5 DEF IInv, TypeOK
<1>7. ASSUME NEW d \in Callers
      PROVE  CallInv(call[d])'
  <2>1. CallInv(call'[d])
    <3>1. call'[d] = IF d = c THEN b ELSE call[d]
      BY <1>1 DEF IInv, TypeOK
    <3> QED
      BY <1>4, <3>1 DEF IInv
  <2> QED
    BY <1>1, <2>1 DEF CallInv, AskingInv
<1>8. \A n \in DOMAIN cache' : EntryInv(cache[n])'
  BY <1>5 DEF EntryInv
<1> QED
  BY <1>6, <1>7, <1>8 DEF IInv
-----------------------------------------------------------------------------
LEMMA ClearInv == ASSUME IInv, ClearResolutionCache PROVE IInv'
<1>1. cache' = <<>> /\ UNCHANGED <<now, call, calls>> /\ clears' = clears + 1
  BY DEF ClearResolutionCache
<1>2. TypeOK'
  BY <1>1, ResolverAssumption DEF IInv, TypeOK
<1>3. \A c \in Callers : CallInv(call[c])'
  BY <1>1 DEF IInv, CallInv, AskingInv
<1>4. DOMAIN cache' = {}
  BY <1>1
<1> QED
  BY <1>2, <1>3, <1>4 DEF IInv

LEMMA TickInv == ASSUME IInv, Tick PROVE IInv'
<1>1. /\ now' = now + 1 /\ UNCHANGED <<cache, call, calls, clears>>
      /\ \A c \in Callers :
           call[c].pc = "asking" => now < call[c].until + Overrun(Current(call[c]))
  BY DEF Tick
<1>2. TypeOK'
  BY <1>1 DEF IInv, TypeOK
<1>3. ASSUME NEW c \in Callers
      PROVE  CallInv(call[c])'
  <2>1. CallInv(call[c]) /\ call[c] \in Call /\ now \in Nat
    BY CurrentInv
  <2>2. call[c].pc = "asking" => now' <= call[c].until + Overrun(Current(call[c]))
    <3>1. call[c].until \in Nat
      BY <2>1 DEF Call
    <3> QED
      BY <1>1, <2>1, <3>1, OverrunType
  <2> QED
    BY <1>1, <2>1, <2>2 DEF CallInv, AskingInv
<1>4. \A n \in DOMAIN cache' : EntryInv(cache[n])'
  BY <1>1 DEF IInv, EntryInv
<1> QED
  BY <1>2, <1>3, <1>4 DEF IInv

LEMMA NextInv == IInv /\ [Next]_vars => IInv'
<1> SUFFICES ASSUME IInv, [Next]_vars
             PROVE  IInv'
  OBVIOUS
<1>1. ASSUME NEW c \in Callers, Asked(c)
      PROVE  IInv'
  <2>1. PICK r \in Requests :
           \/ \E ttl \in Ttls : Hit(c, r, ttl) \/ \E d \in Deadlines : Resolve(c, r, ttl, d)
           \/ \E d \in Deadlines : ResolveUncached(c, r, d)
    BY <1>1 DEF Asked
  <2>2. CASE \E ttl \in Ttls : Hit(c, r, ttl)
    BY <2>2, HitInv
  <2>3. CASE \E ttl \in Ttls, d \in Deadlines : Resolve(c, r, ttl, d)
    BY <2>3, BeginInv DEF Resolve
  <2>4. CASE \E d \in Deadlines : ResolveUncached(c, r, d)
    BY <2>4, BeginInv DEF ResolveUncached
  <2> QED
    BY <2>1, <2>2, <2>3, <2>4
<1>2. ASSUME NEW c \in Callers, Continues(c)
      PROVE  IInv'
  BY <1>2, SkipsInv, TriesInv, TooLateInv, AnswersInv, FailsInv, RefusesInv, EndsInv, PutsInv
  DEF Continues
<1>3. CASE ClearResolutionCache
  BY <1>3, ClearInv
<1>4. CASE Tick
  BY <1>4, TickInv
<1>5. CASE UNCHANGED vars
  BY <1>5 DEF vars, IInv, TypeOK, CallInv, AskingInv, EntryInv
<1> QED
  BY <1>1, <1>2, <1>3, <1>4, <1>5 DEF Next
-----------------------------------------------------------------------------
\* What every call knows and what every entry of the cache rests on, always.
THEOREM Invariance == Spec => []IInv
BY InitInv, NextInv, PTL DEF Spec

\* The types, one entry for each key, and no more entries than the limit, whichever calls
\* store at the same time (_cache_put).
THEOREM TypeCorrectness == Spec => []TypeOK
<1>1. IInv => TypeOK
  BY DEF IInv
<1> QED
  BY <1>1, Invariance, PTL

\* Records come from a backend that honours the options of the call they are returned to,
\* through the cache also.
THEOREM OptionsHonoured == Spec => []ServedByItsChain
<1>1. IInv => ServedByItsChain
  <2> SUFFICES ASSUME IInv, NEW c \in Callers, call[c].out = "list"
               PROVE  call[c].answer.by \in ChainSet(call[c].req)
    BY DEF ServedByItsChain
  <2>1. CallInv(call[c]) /\ call[c] \in Call
    BY DEF IInv, TypeOK
  <2>2. call[c].pc = "idle"
    BY <2>1 DEF CallInv, BusyInv
  <2> QED
    BY <2>1, <2>2 DEF CallInv, IdleInv, Evidence, Outcome, IsEmpty
<1> QED
  BY <1>1, Invariance, PTL

\* A call is in an attempt after its deadline only for what the one backend that was being
\* asked adds to its time, whatever the chain and the record types: nothing is started
\* after the deadline, so what they add is never summed (_budget).
THEOREM DeadlineIsShared == Spec => []AttemptsEndInTime
<1>1. IInv => AttemptsEndInTime
  <2> SUFFICES ASSUME IInv, NEW c \in Callers, call[c].pc = "asking", call[c].end # None
               PROVE  now <= call[c].end + Overrun(Current(call[c]))
    BY DEF AttemptsEndInTime
  <2>1. CallInv(call[c]) /\ call[c] \in Call /\ now \in Nat
    BY CurrentInv
  <2>2. call[c].until \in Nat /\ call[c].end \in Nat
    BY <2>1 DEF Call
  <2> QED
    BY <2>1, <2>2, OverrunType DEF CallInv, AskingInv
<1> QED
  BY <1>1, Invariance, PTL

\* An outage is never cached as an answer, and a strict call is told the difference: an
\* empty list rests on a backend that said so for every record type.
THEOREM EmptyListIsAnAnswer == Spec => []EmptyIsEvidence
<1>1. IInv => CachedIsEvidence
  BY DEF IInv, EntryInv, Evidence, CachedIsEvidence
<1>2. IInv => StrictTellsOutage
  <2> SUFFICES ASSUME IInv, NEW c \in Callers,
                      call[c].out \in {"list", "empty", "outage"}, call[c].req.strict
               PROVE  call[c].out = "list" \/ Denied(call[c].req, call[c].answer)
    BY DEF StrictTellsOutage
  <2>1. CallInv(call[c]) /\ call[c] \in Call
    BY DEF IInv, TypeOK
  <2>2. call[c].pc = "idle"
    BY <2>1 DEF CallInv, BusyInv
  <2> QED
    BY <2>1, <2>2 DEF CallInv, IdleInv, Evidence, Outcome, IsEmpty
<1> QED
  BY <1>1, <1>2, Invariance, PTL DEF EmptyIsEvidence
=============================================================================
