-------------------------------- MODULE Attempt --------------------------------
(*****************************************************************************)
(* What the backends of resolve share with the chain that asks them: the      *)
(* clock, the deadline they read through _budget (src/netimps/_dns/_common.py),*)
(* the names of the search list, and what an attempt ends with.               *)
(*                                                                           *)
(* Time is in ticks and passes only where a backend blocks.                   *)
(*****************************************************************************)
EXTENDS Naturals

CONSTANTS
    Names,   \* how many names the search list makes of the query; 1..Names
    Timeout, \* timeout=, in ticks
    None

\* How an attempt ends: with records, with the empty list, with ResolutionTimeoutError
\* ("late") or another ResolutionError ("failed"), with any other exception ("raised").
Outcomes == {"records", "empty", "late", "failed", "raised"}

ASSUME AttemptAssumption ==
    /\ Names \in Nat \ {0}
    /\ Timeout \in Nat \ {0}
    /\ None \notin Nat \cup Outcomes

VARIABLES
    now,    \* time.monotonic
    end,    \* _DEADLINE, None without one
    name,   \* the name being asked for; Names + 1 after the last
    denied, \* the names that something asked has no records for
    answer  \* how the attempt ended, None before

attempt == <<now, end, name, denied, answer>>

AttemptTypeOK ==
    /\ now \in Nat
    /\ end \in Nat \cup {None}
    /\ name \in 1..Names + 1
    /\ denied \subseteq 1..Names
    /\ answer \in Outcomes \cup {None}

Least(a, b) == IF a < b THEN a ELSE b
Greatest(a, b) == IF a > b THEN a ELSE b

\* _budget raises.
Passed == end # None /\ end <= now

\* Mutant: what is left of the deadline does not cut the timeout.
Expiry_Uncut == now + Timeout

\* _budget(timeout), as the time at which it runs out.
Expiry == IF end = None THEN now + Timeout ELSE Least(end, now + Timeout)

Fresh == name' = 1 /\ denied' = {} /\ answer' = None

Ends(outcome) == answer' = outcome /\ UNCHANGED <<now, end, name, denied>>

\* The next name, when this one has no records or could not be asked for.
NextName == name' = name + 1 /\ UNCHANGED <<now, end, denied, answer>>
Denied ==
    /\ name' = name + 1
    /\ denied' = denied \cup {name}
    /\ UNCHANGED <<now, end, answer>>
=============================================================================
