------------------------------- MODULE PathMTU -------------------------------
(***************************************************************************)
(* discover_mtu (_sockets/_mtu.py): the search for the largest packet the  *)
(* path carries, by don't-fragment pings and, where ping itself is the     *)
(* limit, by datagrams, while packets are lost and the route changes.      *)
(***************************************************************************)
EXTENDS Ping, FiniteSets

CONSTANTS Lows, Highs,    \* the values of low= and high=
          Overheads,      \* the header's size: IPv4's or IPv6's
          Limits,         \* the largest packet a tool can send
          Tries,          \* the values of tries=
          MaxStrays       \* bound on the sizes for which a stray datagram comes

ASSUME PathAssumption ==
    /\ MaxSize \in Nat \ {0}
    /\ MaxLosses \in Nat /\ MaxChanges \in Nat /\ MaxBroken \in Nat
    /\ MaxStrays \in Nat
    /\ Lows \subseteq Nat /\ Highs \subseteq Nat
    /\ Overheads \subseteq Nat /\ Limits \subseteq Nat /\ Tries \subseteq Int

VARIABLES request,        \* the arguments, and what this platform can send
          search,         \* the search under way
          seen,           \* the path MTUs there have been since the call
          stray,          \* the sizes for which a stray datagram was taken as the answer
          result          \* what the call returns; 0 is None

mtuVars == <<request, search, seen, stray, result>>
vars == <<pingVars, mtuVars>>

Least(a, b) == IF a < b THEN a ELSE b

\* icmp and udp: the largest packet the tool of that method can send.
Requests ==
    [low : Lows, high : Highs, method : {"icmp", "udp"}, tries : Tries, overhead : Overheads,
     dont_fragment : BOOLEAN, icmp : Limits, udp : Limits, told : BOOLEAN]

\* The first hop's MTU when the outgoing interface could be told, else 0.
FirstHop == IF request.told THEN path.hop ELSE 0

None == [pc |-> "none"]
Init ==
    /\ PingInit
    /\ request \in Requests
    /\ search = None
    /\ seen = {Mtu(path)} /\ stray = {}
    /\ result = -1
-----------------------------------------------------------------------------
\* Where a search starts and how far it can go.
Begun(method, low, high, kept) ==
    LET limit == request[method]
        ceiling == IF request.told THEN Least(path.hop, limit) ELSE limit
        start == Least(high, ceiling)
    IN  [pc |-> "low", method |-> method, low |-> low, start |-> start, high |-> high,
         ceiling |-> IF request.told THEN ceiling ELSE start, first_hop |-> FirstHop,
         limit |-> limit, size |-> low, kept |-> kept]

\* Without the don't-fragment bit every size would survive: nothing is measured.
Discover ==
    /\ search = None /\ result = -1
    /\ IF request.dont_fragment
       THEN search' = Begun(request.method, request.low, request.high, 0) /\ UNCHANGED result
       ELSE result' = 0 /\ UNCHANGED search
    /\ UNCHANGED <<pingVars, request, seen, stray>>

\* One size: too small for its own headers or too large for the tool, or else a call of
\* ping - or one datagram, which tries= is not about.
Searching == search # None /\ result = -1
Probes ==
    /\ Searching /\ probe.state = "quiet"
    /\ probe' = IF search.size < request.overhead \/ search.size > search.limit
                THEN [Quiet EXCEPT !.state = "failed"]
                ELSE Started(search.method, search.size,
                             IF search.method = "icmp" THEN request.tries ELSE 1)
    /\ UNCHANGED <<path, lost, changed, broken, mtuVars>>
-----------------------------------------------------------------------------
At(pc, size) == [search EXCEPT !.pc = pc, !.size = size]

\* A search that ends at the tool's limit below the first hop's MTU: a destination on this
\* host has that MTU; for another one the datagrams may go further than ping did.
Found(n) ==
    LET bound == n = search.limit /\ search.first_hop > search.limit
    IN  IF bound /\ path.local
        THEN result' = search.first_hop /\ UNCHANGED search
        ELSE IF bound /\ search.method = "icmp"
        THEN search' = Begun("udp", n, search.first_hop, n) /\ UNCHANGED result
        ELSE result' = (IF n > search.kept THEN n ELSE search.kept) /\ UNCHANGED search

\* Mutant: the bounds are never taken to have met.
Narrow_Touching(low, high) ==
    IF high - low > 0
    THEN /\ search' = [At("narrow", (low + high) \div 2) EXCEPT !.low = low, !.high = high]
         /\ UNCHANGED result
    ELSE Found(low)

\* The largest size known to survive is low, the smallest known not to is high.
Narrow(low, high) ==
    IF high - low > 1
    THEN /\ search' = [At("narrow", (low + high) \div 2) EXCEPT !.low = low, !.high = high]
         /\ UNCHANGED result
    ELSE Found(low)

Survived ==
    CASE search.pc = "low" -> search' = At("high", search.start) /\ UNCHANGED result
      [] search.pc = "high" /\ search.start < search.ceiling ->
            search' = At("ceiling", search.ceiling) /\ UNCHANGED result
      [] search.pc = "high" /\ search.start >= search.ceiling -> Found(search.start)
      [] search.pc = "ceiling" -> Found(search.ceiling)
      [] search.pc = "narrow" -> Narrow(search.size, search.high)

Dropped ==
    CASE search.pc = "low" -> result' = search.kept /\ UNCHANGED search
      [] search.pc = "high" -> Narrow(search.low, search.start)
      [] search.pc = "ceiling" -> Narrow(search.start, search.ceiling)
      [] search.pc = "narrow" -> Narrow(search.low, search.size)

Learns ==
    /\ Searching /\ probe.state \notin {"quiet", "running"}
    /\ IF probe.state = "failed" THEN Dropped ELSE Survived
    /\ probe' = Quiet
    /\ UNCHANGED <<path, lost, changed, broken, request, seen, stray>>
-----------------------------------------------------------------------------
\* The size reaches the UDP service, and its answer comes back unless it is lost.
Served == probe.size <= Mtu(path) /\ path.service

\* One datagram, sent once and without a connection.  If the first link takes it, any
\* datagram that comes within the timeout is the answer, also a late one or another
\* host's; silence and errors are not.
Datagram ==
    /\ probe.state = "running" /\ probe.method = "udp"
    /\ \/ /\ Served
          /\ probe' = [probe EXCEPT !.state = "answered"]
          /\ UNCHANGED <<lost, stray>>
       \/ /\ ~Served
          /\ probe' = [probe EXCEPT !.state = "failed"]
          /\ UNCHANGED <<lost, stray>>
       \/ /\ Served /\ lost < MaxLosses
          /\ probe' = [probe EXCEPT !.state = "failed"]
          /\ lost' = lost + 1 /\ UNCHANGED stray
       \/ /\ probe.size <= path.hop /\ Cardinality(stray) < MaxStrays
          /\ probe' = [probe EXCEPT !.state = "answered"]
          /\ stray' = stray \cup {probe.size} /\ UNCHANGED lost
    /\ UNCHANGED <<path, changed, broken, request, search, seen, result>>

Pings == Try /\ UNCHANGED mtuVars
Tests == Pings \/ Datagram
Changes == Searching /\ Reroute /\ seen' = seen \cup {Mtu(path')} /\ UNCHANGED <<request, search, stray, result>>

Next == Discover \/ Probes \/ Tests \/ Learns \/ Changes

Spec == Init /\ [][Next]_vars /\ WF_vars(Discover \/ Probes \/ Tests \/ Learns)
-----------------------------------------------------------------------------
Probe ==
    [state : {"quiet", "running", "answered", "failed"}, method : {"icmp", "udp"},
     size : Nat, left : Nat]

Search ==
    [pc : {"low", "high", "ceiling", "narrow"}, method : {"icmp", "udp"}, low : Nat,
     start : Nat, high : Nat, ceiling : Nat, first_hop : Nat, limit : Nat, size : Nat,
     kept : Nat]

TypeOK ==
    /\ path \in Paths /\ request \in Requests
    /\ probe \in Probe
    /\ search \in Search \cup {None}
    /\ seen \subseteq 1..MaxSize /\ stray \subseteq Nat
    /\ result \in Nat \cup {-1}
    /\ lost \in Nat /\ changed \in Nat /\ broken \in Nat

\* A size the path never carried is reported only if a stray datagram stood for the answer
\* to that size: no loss, no line of ping that is another host's, no change of route and
\* no second search makes the result wider than the path has been.
NeverTooWide == result > 0 => result \in stray \/ \E m \in seen : result <= m

\* What the search can still tell: sizes up to the link's MTU or, when that cannot be
\* read, up to high=, and no larger than the tools send.
Reach ==
    LET widest == IF request.told THEN path.hop ELSE request.high
    IN  Least(widest, request[request.method])

\* The report is not narrower than the path has been either, as far as packets the search
\* can send reach, if fewer packets were lost than tries allow for ("tries=3 tolerates a
\* lossy path") and the destination answers.
Tolerated ==
    /\ broken = 0
    /\ lost = 0 \/ (request.method = "icmp" /\ lost < request.tries)
    /\ request.low <= request.high
    /\ request.low >= request.overhead /\ request.low <= Reach
    /\ IF request.method = "icmp" THEN path.echo ELSE path.service

NeverTooNarrow ==
    result >= 0 /\ request.dont_fragment /\ Tolerated =>
        \/ \E m \in seen : m < request.low
        \/ result >= Reach
        \/ \E m \in seen : result >= m

\* Every search ends, also on a path that loses what it is sent.
SearchEnds == <>(result >= 0)
=============================================================================
