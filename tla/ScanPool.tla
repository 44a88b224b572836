------------------------------- MODULE ScanPool -------------------------------
(*****************************************************************************)
(* scan_ports and scan_hosts (src/netimps/_scan.py): probes mapped lazily over *)
(* a thread pool, with a bounded number of futures (_map_lazily).             *)
(*                                                                           *)
(* The caller submits, waits and collects; Workers threads take the submitted  *)
(* probes in order.  A probe is one step: it finds the port open, closed, or   *)
(* raises.                                                                    *)
(*****************************************************************************)
EXTENDS Naturals, FiniteSets

CONSTANTS
    Probes,  \* how many items the sweep has; they are 1..Probes, in order
    Workers  \* max_workers of the pool

ASSUME ScanAssumption == Probes \in Nat /\ Workers \in Nat \ {0}

Items == 1..Probes

VARIABLES
    caller,  \* "feed", "wait" for a future, "collect" what is done, "drain" the
             \* last futures, "leave" the pool, "returned"
    next,    \* the next item to read
    pending, \* the set pending of the code
    done,    \* the set done: what the last wait returned, kept until the next one
    batch,   \* of the set a for loop is going through, what it has yet to come to
    future,  \* for each item, what became of it
    results, \* the items yielded to scan_ports or scan_hosts
    kept,    \* those it keeps: the ports it will report
    raised   \* whether the result of a future raised

scanVars == <<caller, next, pending, done, batch, future, results, kept, raised>>

ScanTypeOK ==
    /\ caller \in {"feed", "wait", "collect", "drain", "leave", "returned"}
    /\ next \in 1..Probes + 1
    /\ pending \subseteq Items /\ done \subseteq Items /\ batch \subseteq Items
    /\ future \in [Items -> {"none", "queued", "running", "open", "closed", "error"}]
    /\ results \subseteq Items /\ kept \subseteq Items
    /\ raised \in BOOLEAN
-----------------------------------------------------------------------------
\* The most futures the caller lets be pending.
Window == IF 2 * Workers > 2 THEN 2 * Workers ELSE 2

Finished == {i \in Items : future[i] \in {"open", "closed", "error"}}
Running == {i \in Items : future[i] = "running"}
Queued == {i \in Items : future[i] = "queued"}

ScanInit ==
    /\ caller = "feed"
    /\ next = 1
    /\ pending = {} /\ done = {} /\ batch = {}
    /\ future = [i \in Items |-> "none"]
    /\ results = {} /\ kept = {}
    /\ raised = FALSE
-----------------------------------------------------------------------------
(* The caller.                                                               *)

\* Mutant: the caller waits one future too late.
Full_OneOver(futures) == Cardinality(futures) > Window
Full(futures) == Cardinality(futures) >= Window

\* An item is read and submitted.
Submit ==
    /\ caller = "feed"
    /\ next <= Probes
    /\ future' = [future EXCEPT ![next] = "queued"]
    /\ pending' = pending \cup {next}
    /\ next' = next + 1
    /\ caller' = IF Full(pending') THEN "wait" ELSE "feed"
    /\ UNCHANGED <<done, batch, results, kept, raised>>

\* The futures a wait leaves.
Left(finished) == pending \ finished

\* wait(return_when=FIRST_COMPLETED): every future done at that moment.  Only
\* now are the futures of the wait before it let go.
Wait ==
    /\ caller = "wait"
    /\ pending \cap Finished # {}
    /\ done' = pending \cap Finished
    /\ pending' = Left(done')
    /\ batch' = done'
    /\ caller' = "collect"
    /\ UNCHANGED <<next, future, results, kept, raised>>

\* Mutant: a probe that raised counts as a closed port.
Yields_Swallows(i) ==
    /\ results' = results \cup {i}
    /\ kept' = IF future[i] = "open" THEN kept \cup {i} ELSE kept
    /\ UNCHANGED <<caller, raised>>

\* future.result() of item i, yielded to the scan, or raised.
Yields(i) ==
    \/ /\ future[i] \in {"open", "closed"}
       /\ results' = results \cup {i}
       /\ kept' = IF future[i] = "open" THEN kept \cup {i} ELSE kept
       /\ UNCHANGED <<caller, raised>>
    \/ /\ future[i] = "error"
       /\ raised' = TRUE
       /\ caller' = "leave"
       /\ UNCHANGED <<results, kept>>

\* The loop comes to the next future of the batch; the set stays as it is.
Collect ==
    /\ caller = "collect"
    /\ \E i \in batch : batch' = batch \ {i} /\ Yields(i)
    /\ UNCHANGED <<next, pending, done, future>>

\* Mutant: the caller waits again before it reads another item.
Collected_WaitsAgain ==
    /\ caller = "collect"
    /\ batch = {}
    /\ caller' = "wait"
    /\ UNCHANGED <<next, pending, done, batch, future, results, kept, raised>>

\* The batch is yielded; the next item is read.
Collected ==
    /\ caller = "collect"
    /\ batch = {}
    /\ caller' = "feed"
    /\ UNCHANGED <<next, pending, done, batch, future, results, kept, raised>>

\* Mutant: the caller leaves once every item has been read.
Exhausted_Leaves ==
    /\ caller = "feed"
    /\ next > Probes
    /\ caller' = "leave"
    /\ UNCHANGED <<next, pending, done, batch, future, results, kept, raised>>

\* The items are exhausted; the futures left are yielded, in no order.
Exhausted ==
    /\ caller = "feed"
    /\ next > Probes
    /\ caller' = "drain"
    /\ batch' = pending
    /\ UNCHANGED <<next, pending, done, future, results, kept, raised>>

Drain ==
    /\ caller = "drain"
    /\ \E i \in batch : i \in Finished /\ batch' = batch \ {i} /\ Yields(i)
    /\ UNCHANGED <<next, pending, done, future>>

Drained ==
    /\ caller = "drain"
    /\ batch = {}
    /\ caller' = "leave"
    /\ UNCHANGED <<next, pending, done, batch, future, results, kept, raised>>

\* Mutant: the pool is left without waiting for it.
Leave_NoWait ==
    /\ caller = "leave"
    /\ caller' = "returned"
    /\ UNCHANGED <<next, pending, done, batch, future, results, kept, raised>>

\* The pool's __exit__ waits for every probe submitted, raised or not.
Leave ==
    /\ caller = "leave"
    /\ Queued \cup Running = {}
    /\ caller' = "returned"
    /\ UNCHANGED <<next, pending, done, batch, future, results, kept, raised>>

Caller ==
    \/ Submit \/ Wait \/ Collect \/ Collected
    \/ Exhausted \/ Drain \/ Drained \/ Leave
-----------------------------------------------------------------------------
(* The pool.                                                                 *)

\* A free worker takes the probe submitted first.
Start(i) ==
    /\ i \in Queued
    /\ \A j \in Queued : i <= j
    /\ Cardinality(Running) < Workers
    /\ future' = [future EXCEPT ![i] = "running"]
    /\ UNCHANGED <<caller, next, pending, done, batch, results, kept, raised>>

Finish(i) ==
    /\ i \in Running
    /\ \E outcome \in {"open", "closed", "error"} :
         future' = [future EXCEPT ![i] = outcome]
    /\ UNCHANGED <<caller, next, pending, done, batch, results, kept, raised>>
-----------------------------------------------------------------------------
Worker == \E i \in Items : Start(i) \/ Finish(i)

ScanNext == Caller \/ Worker

\* The caller runs on, and every probe ends: tcp_check has a timeout.
Fairness == WF_scanVars(Caller) /\ \A i \in Items : WF_scanVars(Start(i)) /\ WF_scanVars(Finish(i))

ScanSpec == ScanInit /\ [][ScanNext]_scanVars /\ Fairness
-----------------------------------------------------------------------------
(* Properties.                                                               *)

\* Memory does not grow with the sweep: the probes submitted and not over are never
\* more than the window, nor are the futures pending, nor those of the last batch, which
\* are held while the window fills again: up to two windows of futures exist, where the
\* docstring of _map_lazily speaks of one.
FuturesAreBounded ==
    /\ Cardinality(Queued \cup Running) <= Window
    /\ Cardinality(pending) <= Window
    /\ Cardinality(done) <= Window

\* A scan that returns has a result for every item, and reports exactly the ports
\* whose probe found them open.
ScanIsComplete ==
    caller = "returned" /\ ~raised =>
        /\ results = Items
        /\ kept = {i \in Items : future[i] = "open"}

\* When the scan is over no probe of it is running or will, raised or not.
NothingRunsOn == caller = "returned" => Queued \cup Running = {}

\* The futures the caller has yet to yield.
InHand == IF caller \in {"feed", "wait", "collect"} THEN pending \cup batch ELSE batch

\* A result is yielded at most once: one that has been is never in hand again.
YieldedOnce == results \cap InHand = {}

\* A scan is a sweep: seen from its caller, batches and threads make no difference.
Abstract == INSTANCE Sweep WITH
    Targets <- Items,
    found <- [i \in Items |-> IF i \in Finished THEN future[i] ELSE "none"],
    reported <- results,
    over <- IF caller # "returned" THEN "no" ELSE IF raised THEN "raised" ELSE "returned"

IsASweep == Abstract!Spec
=============================================================================
