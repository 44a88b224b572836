------------------------------ MODULE SystemLookup ------------------------------
(*****************************************************************************)
(* resolve_system (src/netimps/_dns/_system.py): getaddrinfo for the names of   *)
(* the search list, each in a daemon thread that is abandoned when its time is  *)
(* up.                                                                        *)
(*****************************************************************************)
EXTENDS Attempt

VARIABLES
    system,   \* "idle"; about to "look" a name up; or in "get", waiting for the thread
    thread,   \* the thread looked to: None, "running", or what it put in the queue
    expiry,   \* when the wait for it is over
    abandoned \* threads left in getaddrinfo

systemVars == <<system, thread, expiry, abandoned>>

\* What getaddrinfo comes back with: addresses, the answer that there are none, an
\* outage (EAI_AGAIN, EAI_FAIL), or UnicodeError for a name it cannot encode.
Lookups == {"records", "none", "outage", "invalid"}

SystemTypeOK ==
    /\ system \in {"idle", "look", "get"}
    /\ thread \in {None, "running"} \cup Lookups
    /\ expiry \in Nat
    /\ abandoned \in Nat

SystemInit == system = "idle" /\ thread = None /\ expiry = 0 /\ abandoned = 0

SystemStarts == system' = "look" /\ thread' = None /\ UNCHANGED <<expiry, abandoned>>
-----------------------------------------------------------------------------
SystemEnds(outcome) ==
    /\ system' = "idle"
    /\ thread' = None
    /\ Ends(outcome)

\* _bounded_lookup reads the deadline and starts a thread.
Look ==
    /\ system = "look" /\ name <= Names
    /\ ~Passed
    /\ system' = "get"
    /\ thread' = "running"
    /\ expiry' = Expiry
    /\ UNCHANGED <<abandoned, attempt>>

TooLate ==
    /\ system = "look" /\ name <= Names
    /\ Passed
    /\ SystemEnds("late")
    /\ UNCHANGED <<expiry, abandoned>>

Put ==
    /\ thread = "running"
    /\ thread' \in Lookups
    /\ UNCHANGED <<system, expiry, abandoned, attempt>>

\* The thread's outcome reaches the caller.
Get ==
    /\ system = "get"
    /\ \/ thread = "records" /\ SystemEnds("records")
       \/ thread = "outage" /\ SystemEnds("failed")
       \/ thread = "invalid" /\ SystemEnds("raised")
       \/ thread = "none" /\ Denied /\ system' = "look" /\ thread' = None
    /\ UNCHANGED <<expiry, abandoned>>

\* Mutant: a name that takes too long is one without records.
Expired_NextName == NextName /\ system' = "look" /\ thread' = None

\* ResolutionTimeoutError ends the search.
Expired == SystemEnds("late")

\* Mutant: the wait for the thread has no end.
Abandon_Never == FALSE /\ UNCHANGED <<systemVars, attempt>>

Abandon ==
    /\ system = "get" /\ thread = "running"
    /\ now >= expiry
    /\ Expired
    /\ abandoned' = abandoned + 1
    /\ UNCHANGED expiry

\* No name of the list has an address.
Exhausted ==
    /\ system = "look" /\ name > Names
    /\ SystemEnds("empty")
    /\ UNCHANGED <<expiry, abandoned>>

SystemCaller == Look \/ TooLate \/ Get \/ Abandon \/ Exhausted
SystemNext == SystemCaller \/ Put

SystemWaits ==
    \/ system = "idle"
    \/ system = "get" /\ thread = "running" /\ now < expiry
=============================================================================
