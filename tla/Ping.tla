--------------------------------- MODULE Ping ---------------------------------
(***************************************************************************)
(* One call of netimps.ping by the system's ping (_ping/_run.py), try by   *)
(* try, over a path that carries a size or does not, loses packets, and    *)
(* has routers that answer in the destination's place.                     *)
(***************************************************************************)
EXTENDS Integers, Sequences

CONSTANTS MaxSize,        \* the widest link
          MaxLosses,      \* bound of the model on packets lost to chance
          MaxChanges,     \* bound on changes of the route
          MaxBroken       \* bound on ping programs that hang or do not start

VARIABLES path,           \* the path to the destination
          probe,          \* the call under way, its size and its tries
          lost, changed, broken     \* faults so far

pingVars == <<path, probe, lost, changed, broken>>

\* The link the packets leave by, the narrowest link after it, and who answers: the
\* destination's echo, its UDP service, or neither.
Paths ==
    {p \in [hop : 1..MaxSize, rest : 1..MaxSize, local : BOOLEAN, echo : BOOLEAN,
            service : BOOLEAN] : p.local => p.rest = p.hop}
Mtu(p) == IF p.hop < p.rest THEN p.hop ELSE p.rest

\* What ping prints that holds a time or a TTL: the destination's reply, another host's,
\* or a router's error.
Lines == {"destination", "another", "expired"}
Outputs == {<<>>} \cup {<<l>> : l \in Lines} \cup (Lines \X Lines)

Quiet == [state |-> "quiet", method |-> "icmp", size |-> 0, left |-> 0]

PingInit ==
    /\ path \in Paths
    /\ probe = Quiet
    /\ lost = 0 /\ changed = 0 /\ broken = 0

Started(method, size, tries) ==
    [state |-> "running", method |-> method, size |-> size,
     left |-> IF tries < 1 THEN 1 ELSE tries]
-----------------------------------------------------------------------------
\* Mutant: any line with a measurement counts.
AnsweredBy_Any(text) == text # <<>>

\* Of the lines with a measurement only the destination's count.
AnsweredBy(text) == \E n \in DOMAIN text : text[n] = "destination"

Carried == probe.size <= Mtu(path) /\ path.echo

\* What the program prints when no packet is lost.
Printed == {text \in Outputs : Carried <=> \E n \in DOMAIN text : text[n] = "destination"}

\* Mutant: one try is all there is.
Unanswered_Once == probe' = [probe EXCEPT !.state = "failed"]

\* A try without an answer leads to the next one, if one is left.
Unanswered ==
    probe' = IF probe.left > 1 THEN [probe EXCEPT !.left = @ - 1]
             ELSE [probe EXCEPT !.state = "failed"]

Answered(text) ==
    IF AnsweredBy(text) THEN probe' = [probe EXCEPT !.state = "answered"] ELSE Unanswered

\* One run of the program.  A zero exit is no proof that the destination answered, a
\* program that is missing or hangs is not run again.
Try ==
    /\ probe.state = "running" /\ probe.method = "icmp"
    /\ \/ /\ \E text \in Printed : Answered(text)
          /\ UNCHANGED <<lost, broken>>
       \/ /\ Carried /\ lost < MaxLosses
          /\ lost' = lost + 1 /\ UNCHANGED broken
          /\ Unanswered
       \/ /\ broken < MaxBroken
          /\ broken' = broken + 1 /\ UNCHANGED lost
          /\ probe' = [probe EXCEPT !.state = "failed"]
    /\ UNCHANGED <<path, changed>>

\* The route beyond the first link changes.
Reroute ==
    /\ changed < MaxChanges
    /\ changed' = changed + 1
    /\ path' \in {[path EXCEPT !.rest = m] : m \in 1..MaxSize}
    /\ path' \in Paths
    /\ UNCHANGED <<probe, lost, broken>>
=============================================================================
