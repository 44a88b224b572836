------------------------------ MODULE WaitForPort ------------------------------
(*****************************************************************************)
(* wait_for_port and tcp_check (src/netimps/_sockets/_connect.py), and their   *)
(* asyncio forms await_for_port and _tcp_check (_sockets/_aconnect.py).        *)
(*                                                                           *)
(* One call polls a destination whose name server and addresses change while  *)
(* it waits.  Time is in ticks and passes only where the call blocks: in the   *)
(* lookup, in a connect, in the pause between two attempts.                   *)
(*****************************************************************************)
EXTENDS Naturals

CONSTANTS
    Addresses,  \* how many addresses the destination has; they are 1..Addresses
    Deadline,   \* deadline=, for a call that begins at 0
    Intervals,  \* the values of interval=
    Timeouts,   \* the values of timeout=, None among them
    Second,     \* a second, in ticks
    Floor,      \* _MIN_TIMEOUT
    Services,   \* what an address may do with a connection
    MaxChanges, \* bound: changes of the name server or of an address
    MaxTime,    \* bound: the clock
    None

ASSUME WaitAssumption ==
    /\ Addresses \in Nat /\ Deadline \in Nat
    /\ Intervals \subseteq Nat /\ Timeouts \subseteq Nat \cup {None}
    /\ Second \in Nat \ {0} /\ Floor \in Nat \ {0}
    /\ Services \subseteq {"accepts", "refuses", "silent", "no_socket"}
    /\ MaxChanges \in Nat /\ MaxTime \in Nat
    /\ None \notin Nat

VARIABLES
    async,    \* whether this is await_for_port
    interval, \* interval=
    timeout,  \* timeout=
    pc,       \* the top of the "loop", the "lookup", the "next" address, a
              \* "connect", a "failed" attempt, the "pause", or "done"
    delay,    \* the pause after the next attempt that fails
    expires,  \* when the step in progress runs out: the attempt, or the pause
    address,  \* the address being tried
    open,     \* how many sockets are open
    answer,   \* what the call returned, or that it was cancelled
    names,    \* the name server
    service,  \* what each address does now
    now,      \* the monotonic clock
    changed,  \* when names or service last changed
    changes,  \* how often they have
    began,    \* when the last attempt began
    ended     \* when it ended, None during the first

call == <<async, interval, timeout>>
world == <<names, service, changed, changes>>
vars == <<call, world, pc, delay, expires, address, open, answer, now, began, ended>>

Least(a, b) == IF a < b THEN a ELSE b
Greatest(a, b) == IF a > b THEN a ELSE b

\* Both the timeout of an attempt, unless one is given, and the most that the
\* pauses back off to.
Slowest == Greatest(interval, Second)

TypeOK ==
    /\ async \in BOOLEAN /\ interval \in Intervals /\ timeout \in Timeouts
    /\ pc \in {"loop", "lookup", "next", "connect", "failed", "pause", "done"}
    /\ delay \in interval..Slowest /\ expires \in Nat /\ address \in 1..Addresses + 1
    /\ open \in 0..1
    /\ answer \in {"none", "true", "false", "cancelled"}
    /\ names \in {"works", "fails", "slow"}
    /\ service \in [1..Addresses -> Services]
    /\ now \in 0..MaxTime /\ changed \in 0..MaxTime /\ changes \in 0..MaxChanges
    /\ began \in Nat /\ ended \in Nat \cup {None}
-----------------------------------------------------------------------------
PerTry == IF timeout = None THEN Slowest ELSE timeout

\* Mutant: an attempt is not cut to what is left of the deadline.
Budget_PerTry(remaining) == Greatest(PerTry, Floor)

\* What one tcp_check may take, with remaining left of the deadline.
Budget(remaining) == Greatest(Least(PerTry, remaining), Floor)

\* Mutant: the pauses never exceed a second.
Grown_CapSecond(d) == Least((3 * d) \div 2, Second)

Grown(d) == Least((3 * d) \div 2, Slowest)

Init ==
    /\ async \in BOOLEAN /\ interval \in Intervals /\ timeout \in Timeouts
    /\ pc = "loop" /\ delay = interval
    /\ expires = 0 /\ address = 1 /\ open = 0 /\ answer = "none"
    /\ names \in {"works", "fails", "slow"}
    /\ service \in [1..Addresses -> Services]
    /\ now = 0 /\ changed = 0 /\ changes = 0
    /\ began = 0 /\ ended = None
-----------------------------------------------------------------------------
(* wait_for_port.                                                            *)

Returns(value) == pc' = "done" /\ answer' = value

\* The top of the loop, and into tcp_check.
Attempt ==
    /\ pc = "loop"
    /\ \/ /\ now >= Deadline
          /\ Returns("false")
          /\ UNCHANGED <<expires, began>>
       \/ /\ now < Deadline
          /\ pc' = "lookup"
          /\ expires' = now + Budget(Deadline - now)
          /\ began' = now
          /\ UNCHANGED answer
    /\ UNCHANGED <<call, world, delay, address, open, now, ended>>

\* tcp_check said no.
Pause ==
    /\ pc = "failed"
    /\ \/ /\ now >= Deadline
          /\ Returns("false")
          /\ UNCHANGED expires
       \/ /\ now < Deadline
          /\ pc' = "pause"
          /\ expires' = now + Least(delay, Deadline - now)
          /\ UNCHANGED answer
    /\ UNCHANGED <<call, world, delay, address, open, now, began, ended>>

Resume ==
    /\ pc = "pause"
    /\ now >= expires
    /\ pc' = "loop"
    /\ delay' = Grown(delay)
    /\ UNCHANGED <<call, world, expires, address, open, answer, now, began, ended>>
-----------------------------------------------------------------------------
(* tcp_check.                                                                *)

CheckFails == pc' = "failed" /\ ended' = now

\* Mutant: the executor's lookup is awaited as long as it takes.
LookupTimesOut_Never == FALSE
LookupTimesOut == async /\ now >= expires

\* getaddrinfo, which only await_for_port bounds.
LookUp ==
    /\ pc = "lookup"
    /\ \/ /\ names = "works"
          /\ pc' = "next"
          /\ address' = 1
          /\ UNCHANGED ended
       \/ /\ \/ names = "fails"
             \/ LookupTimesOut
          /\ CheckFails
          /\ UNCHANGED address
    /\ UNCHANGED <<call, world, delay, expires, open, answer, now, began>>

\* Mutant: every address is given the whole timeout.
Remaining_Whole == PerTry
\* The time left to the attempt, which its connects share.
Remaining == IF expires > now THEN expires - now ELSE 0

\* The next of the addresses; one whose family has no socket here is skipped.
TryNext ==
    /\ pc = "next"
    /\ \/ /\ address > Addresses \/ Remaining = 0
          /\ CheckFails
          /\ UNCHANGED <<address, open, expires>>
       \/ /\ address <= Addresses /\ Remaining > 0
          /\ \/ /\ service[address] = "no_socket"
                /\ address' = address + 1
                /\ UNCHANGED <<pc, open, expires>>
             \/ /\ service[address] # "no_socket"
                /\ pc' = "connect"
                /\ open' = open + 1
                /\ expires' = now + Remaining
                /\ UNCHANGED address
          /\ UNCHANGED ended
    /\ UNCHANGED <<call, world, delay, answer, now, began>>

\* Mutant: a refused connection ends the attempt.
Refused_Ends == CheckFails /\ UNCHANGED address
Refused == pc' = "next" /\ address' = address + 1 /\ UNCHANGED ended

\* The connection is made, refused, or not answered in time; the socket is closed
\* either way.
Connect ==
    /\ pc = "connect"
    /\ open' = open - 1
    /\ \/ service[address] = "accepts" /\ Returns("true") /\ UNCHANGED <<address, ended>>
       \/ /\ service[address] = "refuses" \/ now >= expires
          /\ Refused
          /\ UNCHANGED answer
    /\ UNCHANGED <<call, world, delay, expires, now, began>>

\* The finally block of _tcp_check.
Closing == IF pc = "connect" THEN open - 1 ELSE open

\* The task of await_for_port is cancelled where it waits.
Cancel ==
    /\ async
    /\ pc \in {"lookup", "connect", "pause"}
    /\ Returns("cancelled")
    /\ open' = Closing
    /\ UNCHANGED <<call, world, delay, expires, address, now, began, ended>>
-----------------------------------------------------------------------------
(* The network and the clock.                                                *)

Change ==
    /\ pc # "done"
    /\ changes < MaxChanges
    /\ \/ names' \in {"works", "fails", "slow"} \ {names} /\ UNCHANGED service
       \/ /\ \E a \in 1..Addresses, s \in Services :
               /\ service[a] # s /\ "no_socket" \notin {service[a], s}
               /\ service' = [service EXCEPT ![a] = s]
          /\ UNCHANGED names
    /\ changed' = now
    /\ changes' = changes + 1
    /\ UNCHANGED <<call, pc, delay, expires, address, open, answer, now, began, ended>>

\* The call blocks, with nothing to wake it and its timer not yet due.
Blocked ==
    \/ pc = "lookup" /\ names = "slow" /\ (async => now < expires)
    \/ pc = "connect" /\ service[address] = "silent" /\ now < expires
    \/ pc = "pause" /\ now < expires

Tick ==
    /\ Blocked
    /\ now < MaxTime
    /\ now' = now + 1
    /\ UNCHANGED <<call, world, pc, delay, expires, address, open, answer, began, ended>>

TcpCheck == LookUp \/ TryNext \/ Connect
Next == Attempt \/ Pause \/ Resume \/ TcpCheck \/ Cancel \/ Change \/ Tick

Spec == Init /\ [][Next]_vars /\ WF_vars(Attempt \/ Pause \/ Resume \/ TcpCheck \/ Tick)
-----------------------------------------------------------------------------
(* Properties.                                                               *)

\* await_for_port never lasts longer than its deadline and the smallest timeout a
\* connect can have.  wait_for_port may, in a lookup that takes what it takes, but
\* it neither connects nor pauses after that.
EndsInTime ==
    async \/ pc \in {"connect", "pause"} => now <= Deadline + Floor

\* timeout= bounds one attempt over all the addresses it tries together
\* (RELEASENOTES: "wait_for_port(timeout=) means one attempt").
AttemptIsBounded == pc = "connect" => now <= began + Greatest(PerTry, Floor)

\* Both clocks of a wait hold at once: the deadline of the call and the timeout of
\* the attempt in progress, whatever the addresses and the lookups do with either.
KeepsItsTimes == EndsInTime /\ AttemptIsBounded

\* Two attempts are never closer together than interval=: backing off does not
\* shorten it, and neither does the deadline.
IntervalIsKept ==
    [][pc = "loop" /\ pc' = "lookup" /\ ended # None => now >= ended + interval]_vars

\* A call that has ended, by an answer or by being cancelled, leaves no socket
\* open, and so does a call that is not connecting.
NothingLeftOpen == open = IF pc = "connect" THEN 1 ELSE 0

\* An address accepts, and the name server gives it.
Accepting == names = "works" /\ \E a \in 1..Addresses : service[a] = "accepts"
Silent == \E a \in 1..Addresses : service[a] = "silent"

\* The port has answered for longer than the longest pause before the deadline.
HasAnswered == Accepting /\ changed + Slowest < Deadline

\* Such a port is found, if no other address of the destination is silent:
\* neither a refusal, a failed lookup nor the pauses make the wait miss it.
SteadyPortIsFound == answer = "false" /\ HasAnswered => Silent

\* The call returns, unless it is wait_for_port and its lookup never does.
CallReturns == async \/ []<>(names # "slow") => <>(pc = "done")
=============================================================================
