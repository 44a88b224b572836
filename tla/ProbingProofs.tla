---------------------------- MODULE ProbingProofs ----------------------------
(*****************************************************************************)
(* Proofs about the two users of tcp_check: the scan of ports (ScanPool), for  *)
(* any number of probes and workers, and the wait for one port (WaitForPort),  *)
(* for any deadline, interval, timeout and number of addresses.               *)
(*****************************************************************************)
EXTENDS ScanPool, WaitForPort, FiniteSetTheorems, TLAPS

(*****************************************************************************)
(* ScanPool.  The invariant says where each item is: not read, in hand or      *)
(* yielded, and in one of them only, though the sets the caller holds keep     *)
(* what was yielded; an item is lost only once a result has raised.            *)
(*****************************************************************************)

\* A future exists for the items read so far.
ReadInv == \A i \in Items : future[i] = "none" <=> i >= next

\* An item is in hand or yielded and not both, and was read; a future is in one
\* of the two sets the caller holds.
PlaceInv ==
    /\ pending \cap done = {}
    /\ batch \subseteq pending \cup done
    /\ results \cap InHand = {}
    /\ \A i \in pending \cup done \cup results : i < next

\* No item read is lost unless a result raised.
KeptInv == ~raised => \A i \in Items : i < next => i \in InHand \cup results

\* What is done or has been yielded is finished, and what is kept was open.
OutcomeInv ==
    /\ done \subseteq Finished /\ results \subseteq Finished
    /\ kept = {i \in results : future[i] = "open"}

\* A probe that failed is not yielded, and is what a raise comes from.
FailInv ==
    /\ \A i \in results : future[i] # "error"
    /\ raised => \E i \in Items : future[i] = "error"

\* What the place of the caller in its code tells.
CallerInv ==
    /\ caller \in {"feed", "wait"} => batch = {}
    /\ caller = "collect" => batch \subseteq done
    /\ caller = "drain" => batch \subseteq pending /\ next = Probes + 1
    /\ caller \in {"feed", "wait", "collect", "drain"} => ~raised
    /\ caller \in {"leave", "returned"} /\ ~raised => batch = {} /\ next = Probes + 1
    /\ caller = "returned" => Queued \cup Running = {}

\* There is room for one more future whenever one may be submitted; a batch is no
\* larger than the window it was taken from, and what is not over is pending.
RoomInv ==
    /\ Cardinality(pending) <= Window
    /\ Cardinality(done) <= Window
    /\ caller \in {"feed", "collect"} => Cardinality(pending) < Window
    /\ Queued \cup Running \subseteq pending

ScanInv ==
    /\ ScanTypeOK /\ ReadInv /\ PlaceInv /\ KeptInv
    /\ OutcomeInv /\ FailInv /\ CallerInv /\ RoomInv
-----------------------------------------------------------------------------
\* Every set of items is finite.
LEMMA ItemsFinite ==
    ASSUME NEW S \in SUBSET Items
    PROVE  IsFiniteSet(S) /\ Cardinality(S) \in Nat
<1>1. IsFiniteSet(Items)
  BY ScanAssumption, FS_Interval DEF Items
<1>2. IsFiniteSet(S)
  BY <1>1, FS_Subset
<1> QED
  BY <1>2, FS_CardinalityType

\* A set of items from which something is taken away is smaller.
LEMMA Smaller ==
    ASSUME NEW S \in SUBSET Items, NEW T \in SUBSET S, T # S
    PROVE  Cardinality(T) < Cardinality(S)
<1>1. IsFiniteSet(S) /\ Cardinality(S) \in Nat
  BY ItemsFinite
<1>2. T \in SUBSET Items
  OBVIOUS
<1>3. Cardinality(T) \in Nat
  BY <1>2, ItemsFinite
<1>4. Cardinality(T) <= Cardinality(S) /\ (Cardinality(S) = Cardinality(T) => S = T)
  BY <1>1, FS_Subset
<1> QED
  BY <1>1, <1>3, <1>4

\* Part of a set of items is no larger.
LEMMA NoLarger ==
    ASSUME NEW S \in SUBSET Items, NEW T \in SUBSET S
    PROVE  Cardinality(T) <= Cardinality(S)
BY ItemsFinite, FS_Subset

LEMMA WindowType == Window \in Nat /\ Window >= 2
BY ScanAssumption DEF Window
-----------------------------------------------------------------------------
LEMMA ScanInitInv == ScanInit => ScanInv
<1> SUFFICES ASSUME ScanInit PROVE ScanInv
  OBVIOUS
<1>1. ScanTypeOK
  <2>1. next \in 1..Probes + 1
    BY ScanAssumption DEF ScanInit
  <2>2. future \in [Items -> {"none", "queued", "running", "open", "closed", "error"}]
    BY DEF ScanInit
  <2> QED
    BY <2>1, <2>2 DEF ScanInit, ScanTypeOK
<1>2. ReadInv
  BY ScanAssumption DEF ScanInit, ReadInv, Items
<1>3. PlaceInv /\ KeptInv
  BY ScanAssumption DEF ScanInit, PlaceInv, KeptInv, InHand, Items
<1>4. OutcomeInv /\ FailInv /\ CallerInv
  BY DEF ScanInit, OutcomeInv, FailInv, CallerInv
<1>5. RoomInv
  <2>1. pending = {} /\ done = {} /\ Queued \cup Running = {}
    BY DEF ScanInit, Queued, Running
  <2> QED
    BY <2>1, FS_EmptySet, WindowType DEF RoomInv
<1> QED
  BY <1>1, <1>2, <1>3, <1>4, <1>5 DEF ScanInv
-----------------------------------------------------------------------------
\* One lemma for each step of the caller.
LEMMA SubmitInv == ScanInv /\ Submit => ScanInv'
<1> SUFFICES ASSUME ScanInv, Submit PROVE ScanInv'
  OBVIOUS
<1> USE DEF ScanInv
<1>0. next \in Items /\ next \in Nat /\ Probes \in Nat
  BY ScanAssumption DEF ScanTypeOK, Submit, Items
<1>1. next \notin pending /\ next \notin done /\ next \notin results
  BY <1>0 DEF PlaceInv
<1>2. ScanTypeOK'
  BY <1>0 DEF ScanTypeOK, Submit, Items
<1>3. ReadInv'
  BY <1>0 DEF ScanTypeOK, ReadInv, Submit, Items
<1>4. batch = {} /\ batch' = {} /\ InHand = pending /\ InHand' = pending \cup {next}
  BY DEF CallerInv, Submit, InHand
<1>5. PlaceInv'
  BY <1>0, <1>1, <1>4 DEF ScanTypeOK, PlaceInv, Submit, Items
<1>6. KeptInv'
  BY <1>0, <1>4 DEF ScanTypeOK, KeptInv, Submit, Items
<1>7. OutcomeInv'
  <2>1. \A i \in done \cup results : future'[i] = future[i]
    BY <1>0, <1>1 DEF ScanTypeOK, Submit
  <2> QED
    BY <2>1 DEF ScanTypeOK, OutcomeInv, Finished, Submit
<1>8. CallerInv'
  BY DEF CallerInv, Submit
<1>9. RoomInv'
  <2>1. done' = done /\ pending' = pending \cup {next}
    BY DEF Submit
  <2>2. IsFiniteSet(pending) /\ Cardinality(pending) \in Nat
    BY ItemsFinite DEF ScanTypeOK
  <2>3. Cardinality(pending') = Cardinality(pending) + 1
    BY <1>1, <2>1, <2>2, FS_AddElement
  <2>4. Cardinality(pending) < Window
    BY DEF RoomInv, Submit
  <2>5. Cardinality(pending') <= Window
    BY <2>2, <2>3, <2>4, WindowType
  <2>6. caller' \in {"feed", "collect"} => ~Full(pending')
    BY DEF Submit
  <2>7. (Queued \cup Running)' \subseteq pending'
    BY <2>1 DEF RoomInv, Submit, Queued, Running, ScanTypeOK
  <2> QED
    BY <2>1, <2>2, <2>3, <2>5, <2>6, <2>7, WindowType DEF RoomInv, Full, Window
<1>10. FailInv'
  BY <1>0, <1>1 DEF ScanTypeOK, ReadInv, FailInv, Submit
<1> QED
  BY <1>2, <1>3, <1>5, <1>6, <1>7, <1>8, <1>9, <1>10

LEMMA WaitInv == ScanInv /\ Wait => ScanInv'
<1> SUFFICES ASSUME ScanInv, Wait PROVE ScanInv'
  OBVIOUS
<1> USE DEF ScanInv
<1>0. /\ done' = pending \cap Finished /\ pending' = pending \ done' /\ done' # {}
      /\ batch' = done' /\ results' = results /\ next' = next
  BY DEF Wait, Left
<1>1. ScanTypeOK'
  BY <1>0 DEF ScanTypeOK, Wait
<1>2. ReadInv'
  BY DEF ReadInv, Wait
<1>3. InHand = pending /\ InHand' = pending
  BY <1>0 DEF CallerInv, Wait, InHand
<1>4. PlaceInv'
  BY <1>0, <1>3 DEF PlaceInv
<1>5. KeptInv'
  BY <1>0, <1>3 DEF KeptInv, Wait
<1>6. OutcomeInv'
  BY <1>0 DEF OutcomeInv, Finished, Wait
<1>7. CallerInv'
  BY <1>0 DEF CallerInv, Wait
<1>8. RoomInv'
  <2>1. /\ pending \in SUBSET Items /\ pending' \in SUBSET pending /\ pending' # pending
        /\ done' \in SUBSET pending
    BY <1>0 DEF ScanTypeOK
  <2>2. Cardinality(pending') < Cardinality(pending)
    BY <2>1, Smaller
  <2>3. Cardinality(done') <= Cardinality(pending)
    BY <2>1, NoLarger
  <2>4. Cardinality(pending) <= Window
    BY DEF RoomInv
  <2>5. /\ Cardinality(pending) \in Nat /\ Cardinality(pending') \in Nat
        /\ Cardinality(done') \in Nat
    BY <2>1, ItemsFinite
  <2>6. Cardinality(pending') < Window /\ Cardinality(done') <= Window
    BY <2>2, <2>3, <2>4, <2>5, WindowType
  <2>7. (Queued \cup Running)' \subseteq pending'
    BY <1>0 DEF RoomInv, Wait, Queued, Running, Finished
  <2>8. Window' = Window
    BY DEF Window
  <2> QED
    BY <2>5, <2>6, <2>7, <2>8, WindowType DEF RoomInv
<1>9. FailInv'
  BY DEF FailInv, Wait
<1> QED
  BY <1>1, <1>2, <1>4, <1>5, <1>6, <1>7, <1>8, <1>9

\* Yielding the next future of a for loop, of a batch or of those left at the end:
\* what Collect and Drain share.
LEMMA YieldsInv ==
    ASSUME ScanInv, caller \in {"collect", "drain"},
           NEW i \in batch, Yields(i), i \in Finished, batch' = batch \ {i},
           UNCHANGED <<next, pending, done, future>>
    PROVE  ScanInv'
<1>0. /\ i \in Items /\ i \notin results /\ ~raised
      /\ pending \subseteq Items /\ results \subseteq Items /\ kept \subseteq Items
  BY DEF ScanInv, ScanTypeOK, PlaceInv, InHand, CallerInv
<1>1. \/ /\ future[i] \in {"open", "closed"}
         /\ results' = results \cup {i}
         /\ kept' = IF future[i] = "open" THEN kept \cup {i} ELSE kept
         /\ caller' = caller /\ raised' = raised
      \/ /\ future[i] = "error"
         /\ raised' = TRUE /\ caller' = "leave" /\ results' = results /\ kept' = kept
  BY DEF Yields
<1>2. ScanTypeOK'
  BY <1>0, <1>1 DEF ScanInv, ScanTypeOK
<1>3. ReadInv'
  BY DEF ScanInv, ReadInv
<1>4. InHand' \subseteq InHand \ {i} /\ (caller' = caller => InHand' = InHand \ {i})
  <2>1. caller = "collect" => i \notin pending
    BY DEF ScanInv, CallerInv, PlaceInv
  <2> QED
    BY <1>1, <2>1 DEF InHand
<1>5. PlaceInv'
  BY <1>1, <1>4 DEF ScanInv, PlaceInv
<1>6. KeptInv'
  BY <1>1, <1>4 DEF ScanInv, KeptInv
<1>7. OutcomeInv'
  BY <1>1 DEF ScanInv, OutcomeInv, Finished
<1>8. FailInv'
  BY <1>0, <1>1 DEF ScanInv, FailInv
<1>9. CallerInv'
  BY <1>1 DEF ScanInv, CallerInv
<1>10. RoomInv'
  BY <1>1 DEF ScanInv, RoomInv, Queued, Running, Window
<1> QED
  BY <1>2, <1>3, <1>5, <1>6, <1>7, <1>8, <1>9, <1>10 DEF ScanInv

LEMMA CollectInv == ScanInv /\ Collect => ScanInv'
<1> SUFFICES ASSUME ScanInv, Collect PROVE ScanInv'
  OBVIOUS
<1>1. PICK i \in batch : batch' = batch \ {i} /\ Yields(i)
  BY DEF Collect
<1>2. i \in Finished
  BY DEF Collect, ScanInv, OutcomeInv, CallerInv
<1> QED
  BY <1>1, <1>2, YieldsInv DEF Collect

LEMMA DrainInv == ScanInv /\ Drain => ScanInv'
<1> SUFFICES ASSUME ScanInv, Drain PROVE ScanInv'
  OBVIOUS
<1>1. PICK i \in batch : i \in Finished /\ batch' = batch \ {i} /\ Yields(i)
  BY DEF Drain
<1> QED
  BY <1>1, YieldsInv DEF Drain

\* The steps that only move the caller on.
LEMMA MovesInv == ScanInv /\ (Collected \/ Exhausted \/ Drained \/ Leave) => ScanInv'
<1> SUFFICES ASSUME ScanInv, Collected \/ Exhausted \/ Drained \/ Leave PROVE ScanInv'
  OBVIOUS
<1>0. UNCHANGED <<next, pending, done, future, results, kept, raised>>
  BY DEF Collected, Exhausted, Drained, Leave
<1>1. /\ caller' \in {"feed", "drain", "leave", "returned"}
      /\ batch' \subseteq pending \cup done
      /\ InHand' = InHand
  <2>1. CASE Exhausted
    BY <2>1 DEF Exhausted, InHand, ScanInv, CallerInv
  <2>2. CASE Collected \/ Drained \/ Leave
    BY <2>2 DEF Collected, Drained, Leave, InHand, ScanInv, PlaceInv
  <2> QED
    BY <2>1, <2>2
<1>2. ScanTypeOK'
  BY <1>0, <1>1 DEF ScanInv, ScanTypeOK
<1>3. ReadInv' /\ PlaceInv' /\ KeptInv' /\ OutcomeInv' /\ FailInv'
  BY <1>0, <1>1 DEF ScanInv, ReadInv, PlaceInv, KeptInv, OutcomeInv, FailInv, Finished
<1>4. CallerInv'
  <2>1. CASE Collected
    BY <1>0, <2>1 DEF ScanInv, CallerInv, Collected
  <2>2. CASE Exhausted
    <3>1. next = Probes + 1
      BY <2>2, ScanAssumption DEF ScanInv, ScanTypeOK, Exhausted
    <3> QED
      BY <1>0, <2>2, <3>1 DEF ScanInv, CallerInv, Exhausted
  <2>3. CASE Drained
    BY <1>0, <2>3 DEF ScanInv, CallerInv, Drained
  <2>4. CASE Leave
    BY <1>0, <2>4 DEF ScanInv, CallerInv, Leave, Queued, Running
  <2> QED
    BY <2>1, <2>2, <2>3, <2>4
<1>5. RoomInv'
  <2>1. caller' = "feed" => Collected
    BY DEF Collected, Exhausted, Drained, Leave
  <2>2. caller' # "collect"
    BY <1>1
  <2> QED
    BY <1>0, <2>1, <2>2 DEF ScanInv, RoomInv, Collected, Window, Queued, Running
<1> QED
  BY <1>2, <1>3, <1>4, <1>5 DEF ScanInv

LEMMA WorkerInv == ScanInv /\ Worker => ScanInv'
<1> SUFFICES ASSUME ScanInv, NEW i \in Items, Start(i) \/ Finish(i) PROVE ScanInv'
  BY DEF Worker
<1>0. UNCHANGED <<caller, next, pending, done, batch, results, kept, raised>>
  BY DEF Start, Finish
<1>1. PICK outcome \in {"running", "open", "closed", "error"} :
        future' = [future EXCEPT ![i] = outcome]
  BY DEF Start, Finish
<1>2. future[i] \in {"queued", "running"}
  BY DEF Start, Finish, Queued, Running
<1>3. ScanTypeOK'
  BY <1>0, <1>1 DEF ScanInv, ScanTypeOK
<1>4. ReadInv'
  BY <1>0, <1>1, <1>2 DEF ScanInv, ScanTypeOK, ReadInv
<1>5. PlaceInv' /\ KeptInv'
  BY <1>0 DEF ScanInv, PlaceInv, KeptInv, InHand
<1>6. OutcomeInv'
  <2>1. i \notin done \cup results
    BY <1>2 DEF ScanInv, OutcomeInv, Finished
  <2>2. \A j \in done \cup results : future'[j] = future[j]
    BY <1>1, <2>1 DEF ScanInv, ScanTypeOK
  <2> QED
    BY <1>0, <2>2 DEF ScanInv, ScanTypeOK, OutcomeInv, Finished
<1>7. CallerInv'
  <2>1. caller # "returned"
    BY <1>2 DEF ScanInv, CallerInv, Queued, Running
  <2> QED
    BY <1>0, <2>1 DEF ScanInv, CallerInv
<1>8. RoomInv'
  <2>1. (Queued \cup Running)' \subseteq Queued \cup Running
    BY <1>1, <1>2 DEF ScanInv, ScanTypeOK, Queued, Running
  <2> QED
    BY <1>0, <2>1 DEF ScanInv, RoomInv, Window
<1>9. FailInv'
  <2>1. /\ i \notin results
        /\ \A j \in Items : future[j] = "error" => future'[j] = "error"
        /\ \A j \in results : future'[j] = future[j]
    BY <1>1, <1>2 DEF ScanInv, ScanTypeOK, OutcomeInv, Finished
  <2> QED
    BY <1>0, <2>1 DEF ScanInv, FailInv
<1> QED
  BY <1>3, <1>4, <1>5, <1>6, <1>7, <1>8, <1>9 DEF ScanInv

LEMMA ScanNextInv == ScanInv /\ [ScanNext]_scanVars => ScanInv'
<1> SUFFICES ASSUME ScanInv, [ScanNext]_scanVars PROVE ScanInv'
  OBVIOUS
<1>1. CASE Caller
  BY <1>1, SubmitInv, WaitInv, CollectInv, DrainInv, MovesInv DEF Caller
<1>2. CASE Worker
  BY <1>2, WorkerInv
<1>3. CASE UNCHANGED scanVars
  BY <1>3 DEF scanVars, ScanInv, ScanTypeOK, ReadInv, PlaceInv, KeptInv, OutcomeInv, FailInv,
              CallerInv, RoomInv, InHand, Finished, Queued, Running, Window
<1> QED
  BY <1>1, <1>2, <1>3 DEF ScanNext
-----------------------------------------------------------------------------
(* The theorems.                                                             *)

\* The invariant holds in every reachable state of a scan.
THEOREM ScanInvariance == ScanSpec => []ScanInv
<1> QED
  BY ScanInitInv, ScanNextInv, PTL DEF ScanSpec

\* Type correctness of a scan.
THEOREM ScanTypeCorrectness == ScanSpec => []ScanTypeOK
<1>1. ScanInv => ScanTypeOK
  BY DEF ScanInv
<1> QED
  BY <1>1, ScanInvariance, PTL

\* _map_lazily is bounded in memory, however long the sweep: a window of probes at
\* most is under way, one of futures is pending, and one at most is held of the last
\* batch until the next wait.
THEOREM BoundedFutures == ScanSpec => []FuturesAreBounded
<1>1. ScanInv => FuturesAreBounded
  <2> SUFFICES ASSUME ScanInv
               PROVE  /\ Cardinality(Queued \cup Running) <= Window
                      /\ Cardinality(pending) <= Window
                      /\ Cardinality(done) <= Window
    BY DEF FuturesAreBounded
  <2>1. /\ pending \in SUBSET Items
        /\ Queued \cup Running \in SUBSET pending
        /\ Cardinality(pending) <= Window /\ Cardinality(done) <= Window
    BY DEF ScanInv, ScanTypeOK, RoomInv
  <2>2. Cardinality(Queued \cup Running) <= Cardinality(pending)
    BY <2>1, NoLarger
  <2>3. Cardinality(pending) \in Nat /\ Cardinality(Queued \cup Running) \in Nat
    <3>1. Queued \cup Running \in SUBSET Items
      BY <2>1
    <3> QED
      BY <2>1, <3>1, ItemsFinite
  <2> QED
    BY <2>1, <2>2, <2>3, WindowType
<1> QED
  BY <1>1, ScanInvariance, PTL

\* A scan loses no port and invents none, in whatever order its probes end.
THEOREM Completeness == ScanSpec => []ScanIsComplete
<1>1. ScanInv => ScanIsComplete
  <2> SUFFICES ASSUME ScanInv, caller = "returned", ~raised
               PROVE  results = Items /\ kept = {i \in Items : future[i] = "open"}
    BY DEF ScanIsComplete
  <2>1. InHand = {} /\ next = Probes + 1
    BY DEF ScanInv, CallerInv, InHand
  <2>2. \A i \in Items : i < next
    BY <2>1, ScanAssumption DEF Items
  <2>3. results = Items
    BY <2>1, <2>2 DEF ScanInv, KeptInv, ScanTypeOK
  <2> QED
    BY <2>3 DEF ScanInv, OutcomeInv
<1> QED
  BY <1>1, ScanInvariance, PTL

\* No probe outlives its scan, also when one of them raised.
THEOREM NoStragglers == ScanSpec => []NothingRunsOn
<1>1. ScanInv => NothingRunsOn
  BY DEF ScanInv, CallerInv, NothingRunsOn
<1> QED
  BY <1>1, ScanInvariance, PTL

\* No result is yielded twice.
THEOREM ResultsOnce == ScanSpec => []YieldedOnce
<1>1. ScanInv => YieldedOnce
  BY DEF ScanInv, PlaceInv, YieldedOnce
<1> QED
  BY <1>1, ScanInvariance, PTL
-----------------------------------------------------------------------------
(* The refinement.                                                           *)

\* Where the steps of a scan and of a sweep meet.
Found == [i \in Items |-> IF i \in Finished THEN future[i] ELSE "none"]
Over == IF caller # "returned" THEN "no" ELSE IF raised THEN "raised" ELSE "returned"

LEMMA Seen == Abstract!vars = <<Found, results, Over>>
BY DEF Abstract!vars, Found, Over

\* The initial state of a scan is that of a sweep.
LEMMA InitRefines == ScanInit => Abstract!Init
BY DEF ScanInit, Finished, Abstract!Init

\* Future i takes part in what a sweep sees only when its probe ends.
LEMMA FinishRefines ==
    ASSUME ScanInv, NEW i \in Items, Finish(i)
    PROVE  Abstract!Probe(i)
<1>1. PICK outcome \in {"open", "closed", "error"} :
        future' = [future EXCEPT ![i] = outcome]
  BY DEF Finish
<1>2. future[i] = "running" /\ i \notin Finished
  BY DEF Finish, Running, Finished
<1>3. Found' = [Found EXCEPT ![i] = outcome]
  BY <1>1, <1>2 DEF ScanInv, ScanTypeOK, Found, Finished
<1>4. Found[i] = "none"
  BY <1>2 DEF Found
<1>5. caller # "returned"
  BY <1>2 DEF ScanInv, CallerInv, Running
<1>6. results' = results /\ Over' = Over /\ Over = "no"
  BY <1>5 DEF Finish, Over
<1> QED
  BY <1>3, <1>4, <1>6 DEF Abstract!Probe, Found, Over

\* A result that is yielded is reported for the first time.
LEMMA YieldsRefines ==
    ASSUME ScanInv, NEW i \in Items, Yields(i), i \in Finished, i \notin results,
           future' = future, caller # "returned"
    PROVE  Abstract!Report(i) \/ UNCHANGED Abstract!vars
<1>1. Found' = Found
  BY DEF Found, Finished
<1>2. Over = "no" /\ Over' = "no"
  BY DEF Yields, Over
<1>3. CASE future[i] \in {"open", "closed"}
  <2>1. results' = results \cup {i} /\ Found[i] \in {"open", "closed"}
    BY <1>3 DEF Yields, Found
  <2> QED
    BY <1>1, <1>2, <2>1 DEF Abstract!Report, Found, Over
<1>4. CASE future[i] = "error"
  BY <1>1, <1>2, <1>4, Seen DEF Yields, Abstract!vars, Found, Over
<1> QED
  BY <1>3, <1>4 DEF Yields

\* The pool has been left: the scan returns or raises.
LEMMA LeaveRefines == ScanInv /\ Leave => Abstract!Return \/ Abstract!Raise
<1> SUFFICES ASSUME ScanInv, Leave PROVE Abstract!Return \/ Abstract!Raise
  OBVIOUS
<1>1. /\ Found' = Found /\ results' = results
      /\ Over = "no" /\ Over' = IF raised THEN "raised" ELSE "returned"
  BY DEF Leave, Found, Finished, Over
<1>2. CASE raised
  <2>1. PICK i \in Items : future[i] = "error"
    BY <1>2 DEF ScanInv, FailInv
  <2>2. Found[i] = "error"
    BY <2>1 DEF Found, Finished
  <2> QED
    BY <1>1, <1>2, <2>2 DEF Abstract!Raise, Found, Over
<1>3. CASE ~raised
  <2>1. results = Items
    <3>1. InHand = {} /\ next = Probes + 1
      BY <1>3 DEF ScanInv, CallerInv, InHand, Leave
    <3>2. \A i \in Items : i < next
      BY <3>1, ScanAssumption DEF Items
    <3> QED
      BY <1>3, <3>1, <3>2 DEF ScanInv, KeptInv, ScanTypeOK
  <2> QED
    BY <1>1, <1>3, <2>1 DEF Abstract!Return, Found, Over
<1> QED
  BY <1>2, <1>3 DEF ScanInv, ScanTypeOK

\* Submitting, waiting and moving on are not seen from the caller of the scan.
LEMMA HiddenSteps ==
    ASSUME ScanInv,
           Submit \/ Wait \/ Collected \/ Exhausted \/ Drained \/ \E i \in Items : Start(i)
    PROVE  UNCHANGED Abstract!vars
<1>1. results' = results
  BY DEF Submit, Wait, Collected, Exhausted, Drained, Start
<1>2. Over' = Over
  BY DEF Submit, Wait, Collected, Exhausted, Drained, Start, Over
<1>3. Found' = Found
  <2>1. CASE Submit
    <3>1. next \in Items /\ future[next] = "none"
      BY <2>1, ScanAssumption DEF ScanInv, ScanTypeOK, ReadInv, Submit, Items
    <3>2. future' = [future EXCEPT ![next] = "queued"]
      BY <2>1 DEF Submit
    <3> QED
      BY <3>1, <3>2 DEF ScanInv, ScanTypeOK, Found, Finished
  <2>2. CASE \E i \in Items : Start(i)
    <3>1. PICK i \in Items : Start(i)
      BY <2>2
    <3>2. future[i] = "queued" /\ future' = [future EXCEPT ![i] = "running"]
      BY <3>1 DEF Start, Queued
    <3> QED
      BY <3>2 DEF ScanInv, ScanTypeOK, Found, Finished
  <2>3. CASE Wait \/ Collected \/ Exhausted \/ Drained
    BY <2>3 DEF Wait, Collected, Exhausted, Drained, Found, Finished
  <2> QED
    BY <2>1, <2>2, <2>3
<1> QED
  BY <1>1, <1>2, <1>3, Seen DEF Abstract!vars, Found, Over

LEMMA NextRefines == ScanInv /\ [ScanNext]_scanVars => [Abstract!Next]_(Abstract!vars)
<1> SUFFICES ASSUME ScanInv, [ScanNext]_scanVars
             PROVE  Abstract!Next \/ UNCHANGED Abstract!vars
  OBVIOUS
<1>1. CASE Collect
  <2>1. PICK i \in batch : batch' = batch \ {i} /\ Yields(i)
    BY <1>1 DEF Collect
  <2>2. i \in Items /\ i \in Finished /\ i \notin results
    BY <1>1 DEF Collect, ScanInv, ScanTypeOK, OutcomeInv, CallerInv, PlaceInv, InHand
  <2>3. future' = future /\ caller # "returned"
    BY <1>1 DEF Collect
  <2> QED
    BY <2>1, <2>2, <2>3, YieldsRefines DEF Abstract!Next
<1>2. CASE Drain
  <2>1. PICK i \in batch : i \in Finished /\ batch' = batch \ {i} /\ Yields(i)
    BY <1>2 DEF Drain
  <2>2. i \in Items /\ i \notin results
    BY <1>2 DEF Drain, ScanInv, ScanTypeOK, PlaceInv, InHand
  <2>3. future' = future /\ caller # "returned"
    BY <1>2 DEF Drain
  <2> QED
    BY <2>1, <2>2, <2>3, YieldsRefines DEF Abstract!Next
<1>3. CASE \E i \in Items : Finish(i)
  BY <1>3, FinishRefines DEF Abstract!Next
<1>4. CASE Leave
  BY <1>4, LeaveRefines DEF Abstract!Next
<1>5. CASE Submit \/ Wait \/ Collected \/ Exhausted \/ Drained \/ \E i \in Items : Start(i)
  BY <1>5, HiddenSteps
<1>6. CASE UNCHANGED scanVars
  BY <1>6, Seen DEF scanVars, Abstract!vars, Found, Over, Finished
<1> QED
  BY <1>1, <1>2, <1>3, <1>4, <1>5, <1>6 DEF ScanNext, Caller, Worker

\* A scan implements a sweep: whatever its threads and batches do, its caller sees
\* every port probed once, reported as found, and an answer only when all are.
THEOREM Implements == ScanSpec => Abstract!Safety
<1> QED
  BY InitRefines, NextRefines, ScanInvariance, PTL DEF ScanSpec, Abstract!Safety

-----------------------------------------------------------------------------
(*****************************************************************************)
(* WaitForPort.  The argument is about timers.  The one an attempt runs        *)
(* against is set once, when the attempt begins, from what the deadline        *)
(* leaves; no step that blocks outlives its timer, the lookup of               *)
(* wait_for_port excepted.  A port that is steady is followed from the last    *)
(* change of the world on.                                                    *)
(*****************************************************************************)

\* The timer of the step in progress, and how far the clock may be.
Timers ==
    /\ pc \in {"lookup", "next", "connect"} =>
         /\ began < Deadline /\ began <= now
         /\ expires = began + Budget(Deadline - began)
    /\ pc = "connect" \/ (pc = "lookup" /\ async) => now <= expires
    /\ pc = "pause" => now <= expires /\ expires <= Deadline
    /\ async => now <= Deadline + Floor

\* How long ago the last attempt ended.
Spacing ==
    /\ pc = "failed" => ended = now
    /\ pc = "pause" => /\ ended \in Nat /\ ended < Deadline
                       /\ expires = ended + Least(delay, Deadline - ended)
    /\ pc = "loop" /\ ended # None => now >= ended + interval \/ now >= Deadline

\* A connect is to one of the addresses.
Listed == pc = "connect" => address <= Addresses

PortInv == TypeOK /\ NothingLeftOpen /\ Timers /\ Spacing /\ Listed

-----------------------------------------------------------------------------
\* What the comparisons compute.
LEMMA LeastGreatest ==
    ASSUME NEW a \in Nat, NEW b \in Nat
    PROVE  /\ Least(a, b) \in Nat /\ Least(a, b) <= a /\ Least(a, b) <= b
           /\ Least(a, b) = a \/ Least(a, b) = b
           /\ Greatest(a, b) \in Nat /\ Greatest(a, b) >= a /\ Greatest(a, b) >= b
           /\ Greatest(a, b) = a \/ Greatest(a, b) = b
BY DEF Least, Greatest

\* The arguments of the call and what is derived from them.
LEMMA Arguments ==
    ASSUME TypeOK
    PROVE  /\ interval \in Nat
           /\ Slowest \in Nat /\ interval <= Slowest
           /\ PerTry \in Nat
BY WaitAssumption, LeastGreatest DEF TypeOK, Slowest, PerTry

\* A timer set with what the deadline leaves is past it by Floor at most, and an
\* attempt has at most its own timeout.
LEMMA BudgetBounds ==
    ASSUME TypeOK, NEW remaining \in Nat \ {0}
    PROVE  /\ Budget(remaining) \in Nat \ {0}
           /\ Budget(remaining) <= remaining + Floor
           /\ Budget(remaining) <= Greatest(PerTry, Floor)
<1>1. /\ PerTry \in Nat /\ Floor \in Nat \ {0}
  BY Arguments, WaitAssumption
<1> QED
  BY <1>1 DEF Budget, Least, Greatest

\* Backing off never goes below the interval nor above the longest pause.
LEMMA GrownBounds ==
    ASSUME TypeOK, NEW d \in interval..Slowest
    PROVE  Grown(d) \in interval..Slowest
<1>1. interval \in Nat /\ Slowest \in Nat /\ interval <= Slowest
  BY Arguments
<1>2. d \in Nat /\ interval <= d /\ d <= Slowest
  BY <1>1
<1>3. (3 * d) \div 2 \in Nat /\ (3 * d) \div 2 >= d
  BY <1>2
<1> QED
  BY <1>1, <1>2, <1>3 DEF Grown, Least

-----------------------------------------------------------------------------
LEMMA InitIInv == Init => PortInv
<1> SUFFICES ASSUME Init PROVE PortInv
  OBVIOUS
<1>1. interval \in Nat /\ Slowest \in Nat /\ interval <= Slowest
  BY WaitAssumption, LeastGreatest DEF Init, Slowest
<1>2. TypeOK
  BY <1>1, WaitAssumption DEF Init, TypeOK
<1> QED
  BY <1>2, WaitAssumption DEF PortInv, Init, NothingLeftOpen, Timers, Spacing, Listed

-----------------------------------------------------------------------------
\* Each step keeps the invariant.

LEMMA AttemptIInv == PortInv /\ Attempt => PortInv'
<1> SUFFICES ASSUME PortInv, Attempt PROVE PortInv'
  OBVIOUS
<1> USE DEF PortInv
<1>0. /\ interval \in Nat /\ Slowest \in Nat /\ PerTry \in Nat
      /\ Slowest' = Slowest /\ PerTry' = PerTry /\ now \in Nat
  BY Arguments DEF TypeOK, Attempt, call, Slowest, PerTry
<1>1. CASE now >= Deadline /\ pc' = "done" /\ UNCHANGED <<expires, began>>
  BY <1>0, <1>1 DEF Attempt, Returns, TypeOK, NothingLeftOpen, Timers, Spacing, Listed, call, world
<1>2. CASE now < Deadline /\ pc' = "lookup"
  <2>1. Deadline - now \in Nat \ {0}
    BY <1>0, <1>2, WaitAssumption
  <2>2. Budget(Deadline - now) \in Nat \ {0} /\ Budget(Deadline - now) <= Deadline - now + Floor
    BY <2>1, BudgetBounds
  <2>3. /\ expires' = now + Budget(Deadline - now) /\ began' = now
        /\ UNCHANGED <<call, world, delay, address, open, now, ended, answer>>
    BY <1>0, <1>2 DEF Attempt, Returns
  <2>4. TypeOK'
    BY <1>0, <1>2, <2>2, <2>3 DEF TypeOK, call, world
  <2>5. Timers'
    <3>1. Budget(Deadline - now)' = Budget(Deadline - now)
      BY <1>0, <2>3 DEF Budget
    <3> QED
      BY <1>0, <1>2, <2>2, <2>3, <3>1 DEF Timers, call, Budget
  <2> QED
    BY <1>2, <2>3, <2>4, <2>5 DEF Attempt, NothingLeftOpen, Spacing, Listed
<1> QED
  BY <1>1, <1>2 DEF Attempt, Returns

LEMMA PauseIInv == PortInv /\ Pause => PortInv'
<1> SUFFICES ASSUME PortInv, Pause PROVE PortInv'
  OBVIOUS
<1> USE DEF PortInv
<1>0. /\ interval \in Nat /\ Slowest \in Nat /\ delay \in Nat
      /\ Slowest' = Slowest /\ now \in Nat /\ Deadline \in Nat
  BY Arguments, WaitAssumption DEF TypeOK, Pause, call, Slowest
<1>1. CASE now >= Deadline /\ pc' = "done" /\ UNCHANGED expires
  BY <1>0, <1>1 DEF Pause, Returns, TypeOK, NothingLeftOpen, Timers, Spacing, Listed, call, world
<1>2. CASE now < Deadline /\ pc' = "pause"
  <2>1. Deadline - now \in Nat
    BY <1>0, <1>2
  <2>2. /\ Least(delay, Deadline - now) \in Nat
        /\ Least(delay, Deadline - now) <= Deadline - now
    BY <1>0, <2>1, LeastGreatest
  <2>3. /\ expires' = now + Least(delay, Deadline - now)
        /\ UNCHANGED <<call, world, delay, address, open, now, began, ended, answer>>
    BY <1>0, <1>2 DEF Pause, Returns
  <2>4. TypeOK'
    BY <1>0, <1>2, <2>2, <2>3 DEF TypeOK, call, world
  <2> QED
    BY <1>0, <1>2, <2>2, <2>3, <2>4
    DEF Pause, NothingLeftOpen, Timers, Spacing, Listed, call
<1> QED
  BY <1>1, <1>2 DEF Pause, Returns

LEMMA ResumeIInv == PortInv /\ Resume => PortInv'
<1> SUFFICES ASSUME PortInv, Resume PROVE PortInv'
  OBVIOUS
<1> USE DEF PortInv
<1>0. /\ interval \in Nat /\ Slowest \in Nat /\ delay \in interval..Slowest
      /\ Slowest' = Slowest /\ now \in Nat /\ Deadline \in Nat
  BY Arguments, WaitAssumption DEF TypeOK, Resume, call, Slowest
<1>1. Grown(delay) \in interval..Slowest
  BY <1>0, GrownBounds
<1>2. TypeOK'
  BY <1>0, <1>1 DEF Resume, TypeOK, call, world
<1>3. now >= ended + interval \/ now >= Deadline
  <2>1. /\ ended \in Nat /\ ended < Deadline /\ delay \in Nat /\ interval <= delay
        /\ now >= ended + Least(delay, Deadline - ended)
    BY <1>0 DEF Spacing, Timers, Resume, TypeOK
  <2> QED
    BY <1>0, <2>1 DEF Least
<1> QED
  BY <1>0, <1>2, <1>3 DEF Resume, NothingLeftOpen, Timers, Spacing, Listed, call

LEMMA LookUpIInv == PortInv /\ LookUp => PortInv'
<1> SUFFICES ASSUME PortInv, LookUp PROVE PortInv'
  OBVIOUS
<1> USE DEF PortInv
<1>0. /\ UNCHANGED <<Slowest, PerTry>> /\ now \in Nat /\ 1 \in 1..Addresses + 1
  BY WaitAssumption DEF TypeOK, LookUp, call, Slowest, PerTry
<1>1. TypeOK'
  BY <1>0 DEF LookUp, CheckFails, TypeOK, call, world
<1>2. Timers' /\ Spacing' /\ NothingLeftOpen' /\ Listed'
  BY <1>0 DEF LookUp, CheckFails, NothingLeftOpen, Timers, Spacing, Listed, call, Budget
<1> QED
  BY <1>1, <1>2

LEMMA TryNextIInv == PortInv /\ TryNext => PortInv'
<1> SUFFICES ASSUME PortInv, TryNext PROVE PortInv'
  OBVIOUS
<1> USE DEF PortInv
<1>0. /\ UNCHANGED <<Slowest, PerTry>> /\ now \in Nat /\ expires \in Nat
      /\ address \in 1..Addresses + 1 /\ Addresses \in Nat
  BY WaitAssumption DEF TypeOK, TryNext, call, Slowest, PerTry
<1>1. expires' = expires /\ (pc' = "connect" => now <= expires)
  BY <1>0 DEF TryNext, CheckFails, Remaining
<1>2. TypeOK'
  BY <1>0, <1>1 DEF TryNext, CheckFails, TypeOK, NothingLeftOpen, call, world
<1>3. Timers'
  BY <1>0, <1>1 DEF TryNext, CheckFails, Timers, call, Budget
<1> QED
  BY <1>0, <1>2, <1>3 DEF TryNext, CheckFails, NothingLeftOpen, Spacing, Listed

LEMMA ConnectIInv == PortInv /\ Connect => PortInv'
<1> SUFFICES ASSUME PortInv, Connect PROVE PortInv'
  OBVIOUS
<1> USE DEF PortInv
<1>0. /\ UNCHANGED <<Slowest, PerTry>> /\ now \in Nat /\ open = 1
      /\ address \in 1..Addresses /\ Addresses \in Nat
  BY WaitAssumption DEF TypeOK, Connect, NothingLeftOpen, Listed, call, Slowest, PerTry
<1>1. TypeOK'
  BY <1>0 DEF Connect, Returns, Refused, TypeOK, call, world
<1>2. Timers'
  BY <1>0 DEF Connect, Returns, Refused, Timers, call, Budget
<1> QED
  BY <1>0, <1>1, <1>2 DEF Connect, Returns, Refused, NothingLeftOpen, Spacing, Listed

LEMMA CancelIInv == PortInv /\ Cancel => PortInv'
<1> SUFFICES ASSUME PortInv, Cancel PROVE PortInv'
  OBVIOUS
<1> USE DEF PortInv
<1>0. /\ UNCHANGED <<Slowest, PerTry>>
      /\ open' = 0
  BY DEF Cancel, Closing, NothingLeftOpen, call, Slowest, PerTry
<1>1. TypeOK'
  BY <1>0 DEF Cancel, Returns, TypeOK, call, world
<1> QED
  BY <1>0, <1>1 DEF Cancel, Returns, NothingLeftOpen, Timers, Spacing, Listed, call

LEMMA ChangeIInv == PortInv /\ Change => PortInv'
<1> SUFFICES ASSUME PortInv, Change PROVE PortInv'
  OBVIOUS
<1> USE DEF PortInv
<1>0. UNCHANGED <<Slowest, PerTry>> /\ changes' \in 0..MaxChanges
  BY WaitAssumption DEF TypeOK, Change, call, Slowest, PerTry
<1>1. TypeOK'
  BY <1>0 DEF Change, TypeOK, call
<1> QED
  BY <1>0, <1>1 DEF Change, NothingLeftOpen, Timers, Spacing, Listed, call, Budget

\* Where the clock ticks, the timer of the step is not yet due, or the step is the
\* lookup of wait_for_port.
LEMMA TickIInv == PortInv /\ Tick => PortInv'
<1> SUFFICES ASSUME PortInv, Tick PROVE PortInv'
  OBVIOUS
<1> USE DEF PortInv
<1>0. /\ UNCHANGED <<Slowest, PerTry>> /\ now \in Nat /\ now' = now + 1
      /\ now' \in 0..MaxTime /\ expires \in Nat /\ Deadline \in Nat /\ Floor \in Nat
      /\ began \in Nat
  BY WaitAssumption DEF TypeOK, Tick, call, Slowest, PerTry
<1>1. TypeOK'
  BY <1>0 DEF Tick, TypeOK, call, world
<1>2. /\ pc \in {"lookup", "connect", "pause"}
      /\ async \/ pc \in {"connect", "pause"} => now' <= expires
  BY <1>0 DEF Tick, Blocked
<1>3. async => now' <= Deadline + Floor
  <2>1. CASE pc = "pause"
    BY <1>0, <1>2, <2>1 DEF Timers
  <2>2. CASE pc \in {"lookup", "connect"}
    <3>1. Deadline - began \in Nat \ {0} /\ expires = began + Budget(Deadline - began)
      BY <1>0, <2>2 DEF Timers
    <3>2. /\ Budget(Deadline - began) \in Nat
          /\ Budget(Deadline - began) <= Deadline - began + Floor
      BY <3>1, BudgetBounds
    <3> QED
      BY <1>0, <1>2, <3>1, <3>2
  <2> QED
    BY <1>2, <2>1, <2>2
<1>4. Timers'
  BY <1>0, <1>2, <1>3 DEF Tick, Timers, call, Budget
<1> QED
  BY <1>0, <1>1, <1>2, <1>4 DEF Tick, NothingLeftOpen, Spacing, Listed

\* The invariant of a wait: what its timers are set from and when they are due.
THEOREM WaitInvariance == Spec => []PortInv
<1>1. PortInv /\ [Next]_vars => PortInv'
  <2> SUFFICES ASSUME PortInv, [Next]_vars PROVE PortInv'
    OBVIOUS
  <2>1. CASE Next
    BY <2>1, AttemptIInv, PauseIInv, ResumeIInv, LookUpIInv, TryNextIInv, ConnectIInv,
       CancelIInv, ChangeIInv, TickIInv DEF Next, TcpCheck
  <2>2. CASE UNCHANGED vars
    BY <2>2 DEF vars, call, world, PortInv, TypeOK, NothingLeftOpen, Timers, Spacing,
       Listed, Slowest, PerTry, Budget
  <2> QED
    BY <2>1, <2>2
<1> QED
  BY InitIInv, <1>1, PTL DEF Spec

-----------------------------------------------------------------------------
\* Every variable of a wait keeps its range, for any arguments and any number of
\* addresses: backing off stays between interval= and the longest pause.
THEOREM WaitTypeCorrectness == Spec => []TypeOK
<1>1. PortInv => TypeOK
  BY DEF PortInv
<1> QED
  BY WaitInvariance, <1>1, PTL

\* No connect is ever begun that its call does not close, cancelled or not.
THEOREM NoSocketLeft == Spec => []NothingLeftOpen
<1>1. PortInv => NothingLeftOpen
  BY DEF PortInv
<1> QED
  BY WaitInvariance, <1>1, PTL

\* Where an attempt is, its timer is at most Floor past the deadline.
LEMMA TimerBounds ==
    ASSUME PortInv, pc \in {"lookup", "next", "connect"}
    PROVE  /\ expires <= Deadline + Floor
           /\ expires <= began + Greatest(PerTry, Floor)
<1> USE DEF PortInv
<1>0. /\ began \in Nat /\ Deadline \in Nat /\ Floor \in Nat /\ began < Deadline
      /\ PerTry \in Nat /\ expires = began + Budget(Deadline - began)
  BY Arguments, WaitAssumption DEF TypeOK, Timers
<1>1. Deadline - began \in Nat \ {0}
  BY <1>0
<1>2. Greatest(PerTry, Floor) \in Nat
  BY <1>0, LeastGreatest
<1> QED
  BY <1>0, <1>1, <1>2, BudgetBounds

\* await_for_port never outlasts its deadline by more than the smallest timeout of
\* a connect, and wait_for_port neither connects nor pauses later than that.
THEOREM DeadlineHolds == Spec => []EndsInTime
<1>1. PortInv => EndsInTime
  <2> SUFFICES ASSUME PortInv PROVE EndsInTime
    OBVIOUS
  <2>0. now \in Nat /\ expires \in Nat /\ Deadline \in Nat /\ Floor \in Nat
    BY WaitAssumption DEF PortInv, TypeOK
  <2>1. CASE pc = "connect"
    BY <2>0, <2>1, TimerBounds DEF PortInv, Timers, EndsInTime
  <2>2. CASE pc # "connect"
    BY <2>0, <2>2 DEF PortInv, Timers, EndsInTime
  <2> QED
    BY <2>1, <2>2
<1> QED
  BY WaitInvariance, <1>1, PTL

\* However many addresses an attempt tries, they share the timeout= of one.
THEOREM OneTimeout == Spec => []AttemptIsBounded
<1>1. PortInv => AttemptIsBounded
  <2> SUFFICES ASSUME PortInv, pc = "connect"
               PROVE  now <= began + Greatest(PerTry, Floor)
    BY DEF AttemptIsBounded
  <2>1. now \in Nat /\ expires \in Nat /\ began \in Nat
    BY WaitAssumption DEF PortInv, TypeOK
  <2>2. PerTry \in Nat /\ Floor \in Nat
    BY Arguments, WaitAssumption DEF PortInv
  <2>3. Greatest(PerTry, Floor) \in Nat
    BY <2>2, LeastGreatest
  <2> QED
    BY <2>1, <2>3, TimerBounds DEF PortInv, Timers
<1> QED
  BY WaitInvariance, <1>1, PTL

\* A wait keeps to its deadline and each attempt to its timeout.
THEOREM TimesAreKept == Spec => []KeepsItsTimes
BY DeadlineHolds, OneTimeout, PTL DEF KeepsItsTimes

\* Attempts are interval= apart at least, whatever the backing off and the deadline
\* make of the pause between them.
THEOREM PausesKeepInterval == Spec => IntervalIsKept
<1>1. PortInv /\ [Next]_vars =>
        [pc = "loop" /\ pc' = "lookup" /\ ended # None => now >= ended + interval]_vars
  <2> SUFFICES ASSUME PortInv, Next, pc = "loop", pc' = "lookup", ended # None
               PROVE  now >= ended + interval
    OBVIOUS
  <2>1. Attempt
    BY DEF Next, Pause, Resume, TcpCheck, LookUp, TryNext, Connect, Cancel, Change, Tick,
       Returns, Refused, CheckFails
  <2>2. now < Deadline
    BY <2>1 DEF Attempt, Returns
  <2> QED
    BY <2>2, WaitAssumption DEF PortInv, TypeOK, Spacing
<1> QED
  BY WaitInvariance, <1>1, PTL DEF Spec, IntervalIsKept
-----------------------------------------------------------------------------
\* The port answers, and no other address of its destination keeps an attempt waiting.
Steady == Accepting /\ ~Silent

\* While that is so an attempt takes no time.  The one in progress at the last change may
\* fail, and was over when that happened; one that began later has yet to come to an
\* address that accepts.  A pause began before the change, or with it.
SteadyInv ==
    /\ ended # None => ended <= now
    /\ answer = "false" => pc = "done"
    /\ Steady =>
         /\ pc = "lookup" => now = changed \/ now = began
         /\ pc \in {"next", "connect"} =>
              \/ now = changed
              \/ now = began /\ \E a \in 1..Addresses : service[a] = "accepts" /\ a >= address
         /\ pc = "failed" => now = changed
         /\ pc = "pause" => ended <= changed
         /\ pc = "loop" => now <= changed + Slowest
    /\ SteadyPortIsFound

\* An attempt that began now has time left.
LEMMA JustBegun ==
    ASSUME PortInv, pc \in {"lookup", "next", "connect"}, now = began
    PROVE  expires > now
<1>1. began \in Nat /\ began < Deadline /\ expires = began + Budget(Deadline - began)
  BY DEF PortInv, TypeOK, Timers
<1>2. Deadline - began \in Nat \ {0}
  BY <1>1, WaitAssumption
<1>3. Budget(Deadline - began) \in Nat \ {0}
  BY <1>2, BudgetBounds DEF PortInv
<1> QED
  BY <1>1, <1>3

\* What the steps of the wait rely on.
LEMMA SteadyFacts ==
    ASSUME PortInv
    PROVE  /\ now \in Nat /\ changed \in Nat /\ expires \in Nat /\ Slowest \in Nat
           /\ Deadline \in Nat /\ Addresses \in Nat /\ address \in 1..Addresses + 1
           /\ ended \in Nat \cup {None} /\ began \in Nat
           /\ delay \in Nat /\ delay <= Slowest /\ None \notin Nat
  BY Arguments, WaitAssumption DEF PortInv, TypeOK

\* The top of the loop and the pause: neither gives up on a port that is steady.
LEMMA LoopKeepsSteady ==
    ASSUME PortInv, SteadyInv, Attempt \/ Pause \/ Resume
    PROVE  SteadyInv'
<1>1. /\ UNCHANGED <<names, service, changed, now, ended, Slowest, Steady, HasAnswered, Silent>>
      /\ HasAnswered => Accepting
  BY DEF Attempt, Pause, Resume, call, world, Slowest, Steady, Accepting, Silent, HasAnswered
<1>2. HasAnswered => changed + Slowest < Deadline
  BY DEF HasAnswered
<1>3. CASE Attempt
  BY <1>1, <1>2, <1>3, SteadyFacts DEF Attempt, Returns, SteadyInv, SteadyPortIsFound, Steady
<1>4. CASE Pause
  <2>1. ended = now
    BY <1>4 DEF PortInv, Spacing, Pause
  <2> QED
    BY <1>1, <1>2, <1>4, <2>1, SteadyFacts
    DEF Pause, Returns, SteadyInv, SteadyPortIsFound, Steady
<1>5. CASE Resume
  <2>1. /\ ended \in Nat /\ ended < Deadline /\ now = expires
        /\ expires = ended + Least(delay, Deadline - ended)
    BY <1>5, SteadyFacts DEF PortInv, Spacing, Timers, Resume
  <2>2. now <= ended + Slowest
    BY <2>1, SteadyFacts DEF Least
  <2> QED
    BY <1>1, <1>5, <2>1, <2>2, SteadyFacts DEF Resume, SteadyInv, SteadyPortIsFound, Steady
<1> QED
  BY <1>3, <1>4, <1>5

\* An attempt that begins while the port is steady finds it.
LEMMA CheckKeepsSteady ==
    ASSUME PortInv, SteadyInv, TcpCheck
    PROVE  SteadyInv'
<1>1. UNCHANGED <<names, service, changed, now, began, Slowest, Steady, HasAnswered, Silent>>
  BY DEF TcpCheck, LookUp, TryNext, Connect, call, world, Slowest, Steady, Accepting, Silent,
     HasAnswered
<1>2. pc \in {"lookup", "next", "connect"} /\ answer # "false"
  BY DEF TcpCheck, LookUp, TryNext, Connect, SteadyInv
<1>3. now = began => expires > now
  BY <1>2, JustBegun
<1>4. CASE LookUp
  <2>1. Steady => \E a \in 1..Addresses : service[a] = "accepts" /\ a >= 1
    BY SteadyFacts DEF Steady, Accepting
  <2> QED
    BY <1>1, <1>2, <1>3, <1>4, <2>1, SteadyFacts
    DEF LookUp, CheckFails, LookupTimesOut, SteadyInv, SteadyPortIsFound, Steady, Accepting
<1>5. CASE TryNext
  <2>1. CASE pc' = "failed"
    <3>1. address > Addresses \/ Remaining = 0
      BY <1>5, <2>1 DEF TryNext
    <3>2. Remaining = 0 => now >= expires
      BY SteadyFacts DEF Remaining
    <3>3. Steady => now = changed
      BY <1>3, <1>5, <3>1, <3>2, SteadyFacts DEF TryNext, SteadyInv
    <3>4. ended' = now /\ answer' = answer
      BY <1>5, <2>1 DEF TryNext, CheckFails
    <3> QED
      BY <1>1, <1>2, <2>1, <3>3, <3>4, SteadyFacts DEF SteadyInv, SteadyPortIsFound
  <2>2. CASE /\ service[address] = "no_socket" /\ address' = address + 1 /\ UNCHANGED pc
             /\ UNCHANGED ended
    <3>1. \A a \in 1..Addresses :
              service[a] = "accepts" /\ a >= address => a >= address + 1
      BY <2>2, SteadyFacts
    <3> QED
      BY <1>1, <1>2, <1>5, <2>2, <3>1, SteadyFacts DEF TryNext, SteadyInv, SteadyPortIsFound
  <2>3. CASE pc' = "connect" /\ UNCHANGED <<address, ended>>
    BY <1>1, <1>2, <1>5, <2>3, SteadyFacts DEF TryNext, SteadyInv, SteadyPortIsFound
  <2> QED
    BY <1>5, <2>1, <2>2, <2>3 DEF TryNext, CheckFails
<1>6. CASE Connect
  <2>1. CASE Returns("true")
    BY <1>1, <1>2, <1>6, <2>1 DEF Connect, Returns, Refused, SteadyInv, SteadyPortIsFound
  <2>2. CASE service[address] = "refuses" \/ now >= expires
    <3>1. \A a \in 1..Addresses :
              now < expires /\ service[a] = "accepts" /\ a >= address => a >= address + 1
      BY <2>2, SteadyFacts
    <3> QED
      BY <1>1, <1>2, <1>3, <1>6, <2>1, <2>2, <3>1, SteadyFacts
      DEF Connect, Refused, SteadyInv, SteadyPortIsFound
  <2> QED
    BY <1>6, <2>1, <2>2 DEF Connect
<1> QED
  BY <1>4, <1>5, <1>6 DEF TcpCheck

\* A change starts the count anew, and time passes only in a pause.
LEMMA WorldKeepsSteady ==
    ASSUME PortInv, SteadyInv, Cancel \/ Change \/ Tick
    PROVE  SteadyInv'
<1>1. CASE Cancel
  BY <1>1 DEF Cancel, Returns, SteadyInv, SteadyPortIsFound, call, world
<1>2. CASE Change
  <2>1. Slowest' = Slowest /\ answer # "false"
    BY <1>2 DEF Change, call, Slowest, SteadyInv
  <2> QED
    BY <1>2, <2>1, SteadyFacts DEF Change, SteadyInv, SteadyPortIsFound, PortInv, Spacing
<1>3. CASE Tick
  <2>1. /\ UNCHANGED <<Slowest, Steady, HasAnswered, Silent, answer, changed, ended, pc>>
        /\ now' = now + 1
    BY <1>3 DEF Tick, call, world, Slowest, Steady, HasAnswered, Accepting, Silent
  <2>2. Steady => pc = "pause"
    BY <1>3, SteadyFacts DEF Tick, Blocked, Steady, Accepting, Silent, PortInv, Listed
  <2> QED
    BY <1>3, <2>1, <2>2, SteadyFacts DEF SteadyInv, SteadyPortIsFound
<1> QED
  BY <1>1, <1>2, <1>3

\* A port that answers for longer than the longest pause is found, and no refusal, failed
\* lookup or backing off of wait_for_port misses it, on any number of addresses.
THEOREM SteadyFound == Spec => []SteadyPortIsFound
<1>1. Init => SteadyInv
  <2> SUFFICES ASSUME Init
               PROVE  SteadyInv
    OBVIOUS
  <2>1. Slowest \in Nat
    BY InitIInv, SteadyFacts
  <2> QED
    BY <2>1, WaitAssumption DEF Init, SteadyInv, SteadyPortIsFound
<1>2. PortInv /\ SteadyInv /\ [Next]_vars => SteadyInv'
  <2> SUFFICES ASSUME PortInv, SteadyInv, [Next]_vars
               PROVE  SteadyInv'
    OBVIOUS
  <2>1. CASE UNCHANGED vars
    BY <2>1 DEF vars, call, world, SteadyInv, SteadyPortIsFound, HasAnswered, Steady,
       Accepting, Silent, Slowest
  <2> QED
    BY <2>1, LoopKeepsSteady, CheckKeepsSteady, WorldKeepsSteady DEF Next
<1>3. SteadyInv => SteadyPortIsFound
  BY DEF SteadyInv
<1> QED
  BY WaitInvariance, <1>1, <1>2, <1>3, PTL DEF Spec
=============================================================================
