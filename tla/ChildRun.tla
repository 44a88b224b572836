-------------------------------- MODULE ChildRun --------------------------------
(*****************************************************************************)
(* resolve_nslookup (src/netimps/_dns/_nslookup.py) over the runner of programs *)
(* (src/netimps/_proc.py, run and _kill_tree): one child for each name of the   *)
(* search list, with what it starts in its process group and on its pipes, a    *)
(* timeout that kills them, and a bound on how long a killed child is waited for.*)
(*****************************************************************************)
EXTENDS Attempt

CONSTANT Reap \* _REAP_SECONDS

ASSUME ChildAssumption == Reap \in Nat \ {0}

VARIABLES
    run,     \* "idle"; about to "start" a child; or in run: in "communicate", in
             \* the second, "drain", of a timeout, or in "wait" after an interrupt
    child,   \* for each name, the child run for it
    kin,     \* what that child started
    alarm,   \* when communicate gives up
    failure  \* last_error is set

childVars == <<run, child, kin, alarm, failure>>

ChildTypeOK ==
    /\ run \in {"idle", "start", "communicate", "drain", "wait"}
    /\ child \in [1..Names -> {"none", "running", "killed", "exited", "reaped"}]
    /\ kin \in [1..Names -> {"none", "running", "killed", "exited"}]
    /\ alarm \in Nat
    /\ failure \in BOOLEAN

ChildInit ==
    /\ run = "idle"
    /\ child = [n \in 1..Names |-> "none"]
    /\ kin = [n \in 1..Names |-> "none"]
    /\ alarm = 0
    /\ failure = FALSE

ChildStarts == run' = "start" /\ failure' = FALSE /\ UNCHANGED <<child, kin, alarm>>
-----------------------------------------------------------------------------
(* The processes.                                                            *)

Fork(n) ==
    /\ child[n] = "running" /\ kin[n] = "none"
    /\ kin' = [kin EXCEPT ![n] = "running"]
    /\ UNCHANGED <<run, child, alarm, failure, attempt>>

ChildExits(n) ==
    /\ child[n] \in {"running", "killed"}
    /\ child' = [child EXCEPT ![n] = "exited"]
    /\ UNCHANGED <<run, kin, alarm, failure, attempt>>

KinExits(n) ==
    /\ kin[n] \in {"running", "killed"}
    /\ kin' = [kin EXCEPT ![n] = "exited"]
    /\ UNCHANGED <<run, child, alarm, failure, attempt>>

\* A killed process is gone at some time, not at once.
Dies(n) ==
    \/ child[n] = "killed" /\ ChildExits(n)
    \/ kin[n] = "killed" /\ KinExits(n)

\* What is left holds the pipes, so the end of the output is the end of them all.
AllGone(n) == child[n] = "exited" /\ kin[n] \in {"none", "exited"}
-----------------------------------------------------------------------------
(* The caller.                                                               *)

Signalled(process) == IF process = "running" THEN "killed" ELSE process

\* Mutant: only the child itself is killed.
KillTree_ChildOnly ==
    child' = [child EXCEPT ![name] = Signalled(@)] /\ UNCHANGED kin

\* _kill_tree: the whole group, whether or not its leader has exited.
KillTree ==
    /\ child' = [child EXCEPT ![name] = Signalled(@)]
    /\ kin' = [kin EXCEPT ![name] = Signalled(@)]

\* ResolutionError for one name: it is kept, and the next name is tried.
Fails == run' = "start" /\ failure' = TRUE /\ NextName

Spawn ==
    /\ run = "start" /\ name <= Names
    /\ ~Passed
    /\ run' = "communicate"
    /\ child' = [child EXCEPT ![name] = "running"]
    /\ alarm' = Expiry
    /\ UNCHANGED <<kin, failure, attempt>>

\* The deadline has passed, or the program is missing or cannot be started.
NotSpawned ==
    /\ run = "start" /\ name <= Names
    /\ Fails
    /\ UNCHANGED <<child, kin, alarm>>

\* communicate returns: records, a stated lack of them, or output that is neither.
Collect ==
    /\ run = "communicate"
    /\ AllGone(name)
    /\ child' = [child EXCEPT ![name] = "reaped"]
    /\ \/ run' = "idle" /\ Ends("records") /\ UNCHANGED failure
       \/ run' = "start" /\ Denied /\ UNCHANGED failure
       \/ Fails
    /\ UNCHANGED <<kin, alarm>>

\* TimeoutExpired.
Expire ==
    /\ run = "communicate"
    /\ now >= alarm /\ ~AllGone(name)
    /\ KillTree
    /\ run' = "drain"
    /\ alarm' = now + Reap
    /\ UNCHANGED <<failure, attempt>>

\* The second communicate ends, by itself or after _REAP_SECONDS; TimeoutError.
Drained ==
    /\ run = "drain"
    /\ \/ AllGone(name) /\ child' = [child EXCEPT ![name] = "reaped"]
       \/ ~AllGone(name) /\ now >= alarm /\ UNCHANGED child
    /\ Fails
    /\ UNCHANGED <<kin, alarm>>

\* KeyboardInterrupt or any other exception in communicate.
Interrupt ==
    /\ run = "communicate"
    /\ KillTree
    /\ run' = "wait"
    /\ UNCHANGED <<alarm, failure, attempt>>

\* One in the second communicate leaves run at once.
InterruptDrain ==
    /\ run = "drain"
    /\ run' = "idle"
    /\ Ends("raised")
    /\ UNCHANGED <<child, kin, alarm, failure>>

\* process.wait waits for the child alone and without a timeout.
Waited ==
    /\ run = "wait"
    /\ child[name] = "exited"
    /\ child' = [child EXCEPT ![name] = "reaped"]
    /\ run' = "idle"
    /\ Ends("raised")
    /\ UNCHANGED <<kin, alarm, failure>>

\* Mutant: a name that could not be asked about counts as one without records.
Verdict_Empty == "empty"
Verdict == IF failure THEN "failed" ELSE "empty"

AllTried ==
    /\ run = "start" /\ name > Names
    /\ run' = "idle"
    /\ Ends(Verdict)
    /\ UNCHANGED <<child, kin, alarm, failure>>

ChildCaller ==
    Spawn \/ NotSpawned \/ Collect \/ Expire \/ Drained \/ Waited \/ AllTried

ChildNext ==
    \/ ChildCaller \/ Interrupt \/ InterruptDrain
    \/ \E n \in 1..Names : Fork(n) \/ ChildExits(n) \/ KinExits(n)

ChildWaits ==
    \/ run = "idle"
    \/ run \in {"communicate", "drain"} /\ ~AllGone(name) /\ now < alarm
    \/ run = "wait" /\ child[name] # "exited"
-----------------------------------------------------------------------------
\* When run is left, by a timeout or an interrupt too, everything it started has exited
\* or has been killed: "the child and its children are killed first".
NoProcessRunsOn ==
    \A n \in 1..Names :
        "running" \in {child[n], kin[n]} => run = "communicate" /\ n = name
=============================================================================
