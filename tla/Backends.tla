-------------------------------- MODULE Backends --------------------------------
(*****************************************************************************)
(* One uncached call of resolve with the backends it asks: the loop of          *)
(* _resolve_chain (src/netimps/_dns/_chain.py) over resolve_wire,               *)
(* resolve_system and resolve_nslookup, under one deadline.                    *)
(*                                                                           *)
(* Resolver takes a backend for one step that ends in time; here the backends   *)
(* are what they are, and a child that one leaves behind goes on while the next  *)
(* is asked.                                                                  *)
(*****************************************************************************)
EXTENDS WireQuery, SystemLookup, ChildRun, Sequences, FiniteSets

CONSTANTS
    Chains,    \* the backends that can serve a call, in order
    Deadlines, \* the values of deadline=, None among them
    MaxTime    \* bound: the clock

ASSUME BackendsAssumption ==
    /\ Chains \subseteq Seq({"wire", "system", "nslookup"}) \ {<<>>}
    /\ Deadlines \subseteq (Nat \ {0}) \cup {None}
    /\ MaxTime \in Nat

VARIABLES
    chain,  \* the chain of this call
    step,   \* the backend being asked
    asking, \* whether it has been started
    empty,  \* a backend answered, without records
    result  \* what the call ends with: a list or that no backend could be asked

chainVars == <<chain, step, asking, empty, result>>
vars == <<attempt, wireVars, systemVars, childVars, chainVars>>

TypeOK ==
    /\ AttemptTypeOK /\ WireTypeOK /\ SystemTypeOK /\ ChildTypeOK
    /\ now <= MaxTime
    /\ chain \in Chains
    /\ step \in 1..Len(chain) + 1
    /\ asking \in BOOLEAN /\ empty \in BOOLEAN
    /\ result \in {None, "records", "empty", "outage", "raised"}

Init ==
    /\ now = 0
    /\ end \in Deadlines
    /\ name = 1 /\ denied = {} /\ answer = None
    /\ WireInit /\ SystemInit /\ ChildInit
    /\ chain \in Chains /\ step = 1
    /\ asking = FALSE /\ empty = FALSE /\ result = None
-----------------------------------------------------------------------------
Asked(backend) == result = None /\ step <= Len(chain) /\ chain[step] = backend

Tries ==
    /\ ~asking /\ ~Passed
    /\ asking' = TRUE
    /\ Fresh
    /\ \/ Asked("wire") /\ WireStarts /\ UNCHANGED <<systemVars, childVars>>
       \/ Asked("system") /\ SystemStarts /\ UNCHANGED <<wireVars, childVars>>
       \/ Asked("nslookup") /\ ChildStarts /\ UNCHANGED <<wireVars, systemVars>>
    /\ UNCHANGED <<now, end, chain, step, empty, result>>

Rest == UNCHANGED <<attempt, wireVars, systemVars, childVars, chain>>

\* A passed deadline ends the chain, one backend after the other.
Skips ==
    /\ result = None /\ step <= Len(chain) /\ ~asking
    /\ Passed
    /\ step' = step + 1
    /\ Rest /\ UNCHANGED <<asking, empty, result>>

\* Records and exceptions that are no ResolutionError leave the chain; an empty
\* answer is remembered.
Concludes ==
    /\ asking /\ answer # None
    /\ asking' = FALSE
    /\ IF answer \in {"records", "raised"}
         THEN /\ result' = answer
              /\ UNCHANGED <<step, empty>>
         ELSE /\ step' = step + 1
              /\ empty' = (empty \/ answer = "empty")
              /\ UNCHANGED result
    /\ Rest

\* No backend is left.
Returns ==
    /\ result = None /\ step > Len(chain)
    /\ result' = IF empty THEN "empty" ELSE "outage"
    /\ Rest /\ UNCHANGED <<step, asking, empty>>

Tick ==
    /\ result = None /\ asking /\ answer = None
    /\ WireWaits /\ SystemWaits /\ ChildWaits
    /\ now < MaxTime
    /\ now' = now + 1
    /\ UNCHANGED <<end, name, denied, answer, wireVars, systemVars, childVars, chainVars>>

Chain == Tries \/ Skips \/ Concludes \/ Returns
Wire == WireNext /\ UNCHANGED <<systemVars, childVars, chainVars>>
System == SystemNext /\ UNCHANGED <<wireVars, childVars, chainVars>>
Child == ChildNext /\ UNCHANGED <<wireVars, systemVars, chainVars>>

Next == Chain \/ Wire \/ System \/ Child \/ Tick

\* The caller runs whenever it is not blocked, time passes, and a killed process dies.
\* Nothing is assumed of servers, of getaddrinfo or of a program that is not killed.
Fairness ==
    /\ WF_vars(Chain)
    /\ WF_vars(WireCaller /\ UNCHANGED <<systemVars, childVars, chainVars>>)
    /\ WF_vars(SystemCaller /\ UNCHANGED <<wireVars, childVars, chainVars>>)
    /\ WF_vars(ChildCaller /\ UNCHANGED <<wireVars, systemVars, chainVars>>)
    /\ \A n \in 1..Names :
         WF_vars(Dies(n) /\ UNCHANGED <<wireVars, systemVars, chainVars>>)
    /\ WF_vars(Tick)

Spec == Init /\ [][Next]_vars /\ Fairness
-----------------------------------------------------------------------------
\* What the docstring of resolve says of deadline=: seconds for the whole call, every
\* backend and search candidate sharing it.  The query over TCP of the wire backend and
\* the wait for a killed nslookup are all that may come on top.
DeadlineHolds ==
    end # None =>
        /\ system # "idle" => now <= end
        /\ wire # "idle" => now <= end + Floor
        /\ run \notin {"idle", "wait"} => now <= end + Reap

\* Every backend ends in its own time and in that of the call: what one used up is
\* not given to the next.
StaysInTime == WireInTime /\ DeadlineHolds

\* A call leaves one thread in getaddrinfo at most for each time its chain names the
\* OS resolver, however many names the search list has: the first that takes too long
\* ends the attempt.
OneThreadEach == abandoned <= Cardinality({n \in 1..Len(chain) : chain[n] = "system"})

\* What a call leaves running behind its answer: a getaddrinfo that does not return for
\* each attempt with the OS resolver at most, and no program.
NothingIsLeft == OneThreadEach /\ NoProcessRunsOn

\* A backend returns the empty list only on evidence: each name of the search list was
\* denied, and for the wire backend at least one.
EmptyIsDenied ==
    asking /\ answer = "empty" =>
        denied = 1..Names \/ (Asked("wire") /\ denied # {})

\* Every call ends, though servers are silent or never stop sending, getaddrinfo never
\* returns and nslookup ignores all but SIGKILL.
CallEnds == <>(result # None)
=============================================================================
