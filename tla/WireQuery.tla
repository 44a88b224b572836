------------------------------- MODULE WireQuery -------------------------------
(*****************************************************************************)
(* resolve_wire (src/netimps/_dns/_wire.py): the names of the search list      *)
(* under every server in turn, one exchange over UDP each, over TCP when the   *)
(* reply is truncated, all within one timeout.                                *)
(*                                                                           *)
(* A server is silent, answers what it likes and when it likes, floods the     *)
(* socket with other datagrams, or sends its reply a byte at a time.          *)
(*****************************************************************************)
EXTENDS Attempt

CONSTANTS
    Servers, \* how many nameservers; they are 1..Servers
    Tcp,     \* tcp=
    Floor    \* the least time the query over TCP is given

ASSUME WireAssumption == Servers \in Nat \ {0} /\ Tcp \in BOOLEAN /\ Floor \in Nat \ {0}

VARIABLES
    wire,     \* "idle"; about to "ask" a server; or where the exchange blocks:
              \* "connect", "send", "read" over TCP, "listen" over UDP
    server,   \* the server being asked, Servers + 1 after the last
    limit,    \* when the whole resolution must be over
    until,    \* when the exchange must be over
    timer,    \* when the socket's timeout runs out
    last,     \* the error of the last server that did not answer
    answered, \* some server had no records of some name
    again     \* a reply was truncated; no variable of the code

wireVars == <<wire, server, limit, until, timer, last, answered, again>>

WireTypeOK ==
    /\ wire \in {"idle", "ask", "connect", "send", "read", "listen"}
    /\ server \in 1..Servers + 1
    /\ limit \in Nat /\ until \in Nat /\ timer \in Nat
    /\ last \in {"none", "silent", "error"}
    /\ answered \in BOOLEAN /\ again \in BOOLEAN

WireInit ==
    /\ wire = "idle" /\ server = 1
    /\ limit = 0 /\ until = 0 /\ timer = 0
    /\ last = "none" /\ answered = FALSE /\ again = FALSE

\* The attempt starts, the deadline not having passed.
WireStarts ==
    /\ wire' = "ask" /\ server' = 1
    /\ limit' = Expiry
    /\ last' = "none" /\ answered' = FALSE /\ again' = FALSE
    /\ UNCHANGED <<until, timer>>
-----------------------------------------------------------------------------
Exchanging == wire \in {"connect", "send", "read", "listen"}

WireEnds(outcome) ==
    /\ wire' = "idle"
    /\ Ends(outcome)
    /\ UNCHANGED <<server, limit, until, timer, last, answered, again>>

\* Mutant: a server is given all that is left.
Share_Whole == limit - now

\* The share of a server in what is left, the servers before it having had theirs.
Share == (limit - now) \div (Servers - server + 1)

\* One server is asked for one name.  A UDP query leaves without blocking.
Ask ==
    /\ wire = "ask" /\ name <= Names /\ server <= Servers
    /\ now < limit
    /\ wire' = IF Tcp THEN "connect" ELSE "listen"
    /\ until' = now + Share
    /\ timer' = until'
    /\ UNCHANGED <<server, limit, last, answered, again, attempt>>

\* No time is left for it.
OutOfTime ==
    /\ wire = "ask" /\ name <= Names /\ server <= Servers
    /\ now >= limit
    /\ WireEnds("late")

NextServer(error) ==
    /\ wire' = "ask"
    /\ server' = server + 1
    /\ last' = error
    /\ UNCHANGED <<limit, until, timer, answered, again, attempt>>

\* The server cannot be asked: no source address of its family, no socket, no route,
\* or a name that cannot be encoded.
Unasked ==
    /\ wire = "ask" /\ name <= Names /\ server <= Servers
    /\ now < limit
    /\ NextServer("error")

\* Every server has failed to answer for this name.
Unanswered ==
    /\ wire = "ask" /\ name <= Names /\ server > Servers
    /\ NextName
    /\ server' = 1
    /\ UNCHANGED <<wire, limit, until, timer, last, answered, again>>

\* Mutant: every recv is given the whole timeout.
Rearmed_Timeout == now + Timeout

\* _remaining: every blocking call is given what is left of the exchange.
Rearmed == until

\* A datagram that is no reply to the query is discarded, a reply over TCP comes in
\* pieces; the wait goes on.
MoreToCome ==
    /\ wire \in {"listen", "read"}
    /\ now < until
    /\ timer' = Rearmed
    /\ UNCHANGED <<wire, server, limit, until, last, answered, again, attempt>>

\* The connection is open; the query is sent.
Proceed ==
    /\ now < until
    /\ \/ wire = "connect" /\ wire' = "send"
       \/ wire = "send" /\ wire' = "read"
    /\ timer' = Rearmed
    /\ UNCHANGED <<server, limit, until, last, answered, again, attempt>>

Silence == Exchanging /\ now >= timer /\ NextServer("silent")

\* A refused or closed connection, a reply that cannot be read or is to another query,
\* or a code other than NOERROR and NXDOMAIN.
Breaks == Exchanging /\ NextServer("error")

\* Mutant: the query over TCP starts with a timeout of its own.
Retried_Timeout == now + Timeout

\* Only what is left bounds the query over TCP, and not the server's share.
Retried == Greatest(limit, now + Floor)

\* A truncated reply over UDP: the same server is asked over TCP.
Truncated ==
    /\ wire = "listen" /\ now <= timer
    /\ wire' = "connect"
    /\ until' = Retried
    /\ timer' = until'
    /\ again' = TRUE
    /\ UNCHANGED <<server, limit, last, answered, attempt>>

HasRecords ==
    /\ wire \in {"listen", "read"} /\ now <= timer
    /\ WireEnds("records")

\* NXDOMAIN, or no record of the type: the other servers are not asked for this name.
HasNone ==
    /\ wire \in {"listen", "read"} /\ now <= timer
    /\ Denied
    /\ wire' = "ask" /\ server' = 1
    /\ answered' = TRUE
    /\ UNCHANGED <<limit, until, timer, last, again>>

\* Mutant: a call in which no server answered returns the empty list.
Outcome_Empty == "empty"

Outcome == IF answered THEN "empty" ELSE IF last = "silent" THEN "late" ELSE "failed"

Conclude ==
    /\ wire = "ask" /\ name > Names
    /\ WireEnds(Outcome)

WireCaller == Ask \/ OutOfTime \/ Unasked \/ Unanswered \/ Silence \/ Conclude

WireNext ==
    \/ WireCaller
    \/ MoreToCome \/ Proceed \/ Breaks \/ Truncated \/ HasRecords \/ HasNone

\* The clock does not pass the time at which the call goes on by itself.
WireWaits == wire = "idle" \/ (Exchanging /\ now < timer)
-----------------------------------------------------------------------------
\* resolve_wire is over when its timeout is, every server included ("seconds for the
\* whole resolution"), whatever the servers send and however slowly, but for the little
\* that a query over TCP is always given.
WireInTime ==
    wire # "idle" =>
        /\ now <= limit + Floor
        /\ ~again => now <= limit

\* A silent server cannot use up the time in which the next would have answered: while
\* no reply has been truncated every server is reached, for the first name, before the
\* timeout is over.
SilenceIsShared ==
    wire = "ask" /\ name = 1 /\ server <= Servers /\ ~again => now < limit
=============================================================================
