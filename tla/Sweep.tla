--------------------------------- MODULE Sweep ---------------------------------
(*****************************************************************************)
(* What scan_ports and scan_hosts promise (src/netimps/_scan.py), whatever     *)
(* does the probing: every target is probed once and reported as it was found, *)
(* in any order, and the scan returns when all are, or raises because a probe  *)
(* did.  Nothing is probed once it is over.                                   *)
(*****************************************************************************)
CONSTANT Targets

VARIABLES
    found,    \* what the probe of each target found, "none" before that
    reported, \* the targets whose result the scan has
    over      \* "no", "returned" or "raised"

vars == <<found, reported, over>>

Init ==
    /\ found = [i \in Targets |-> "none"]
    /\ reported = {}
    /\ over = "no"

Probe(i) ==
    /\ over = "no"
    /\ found[i] = "none"
    /\ \E outcome \in {"open", "closed", "error"} :
         found' = [found EXCEPT ![i] = outcome]
    /\ UNCHANGED <<reported, over>>

Report(i) ==
    /\ over = "no"
    /\ i \notin reported
    /\ found[i] \in {"open", "closed"}
    /\ reported' = reported \cup {i}
    /\ UNCHANGED <<found, over>>

Return ==
    /\ over = "no"
    /\ reported = Targets
    /\ over' = "returned"
    /\ UNCHANGED <<found, reported>>

Raise ==
    /\ over = "no"
    /\ \E i \in Targets : found[i] = "error"
    /\ over' = "raised"
    /\ UNCHANGED <<found, reported>>

Next == Return \/ Raise \/ \E i \in Targets : Probe(i) \/ Report(i)

Safety == Init /\ [][Next]_vars
Spec == Safety /\ WF_vars(Next)
=============================================================================
