---------------------------- MODULE PathMTUProofs ----------------------------
(*****************************************************************************)
(* Proofs about PathMTU, for every path and every change of the route, any    *)
(* arguments and any number of packets lost.                                  *)
(*                                                                           *)
(* The bounds of the search are sizes the path has carried, or a stray datagram *)
(* stood for, and, when the losses are tolerated, sizes it has dropped: the     *)
(* invariant carries both from the probes to the bounds and from the bounds to  *)
(* what is reported.                                                          *)
(*****************************************************************************)
EXTENDS PathMTU, TLAPS

\* Some route there has been since the call carries the size, or a stray datagram made it
\* seem so; some route drops it.
Fits(n) == (\E m \in seen : n <= m) \/ n \in stray
Drops(n) == \E m \in seen : m < n

\* The search is by the method that was asked for, or the one by datagrams after it.
FirstStage == search.method = request.method

\* A size that does not survive was dropped by the path, and by nothing else.
Precise == FirstStage /\ Tolerated

SizeInv ==
    /\ search.pc = "low" => search.size = search.low
    /\ search.pc = "high" => search.size = search.start
    /\ search.pc = "ceiling" => search.size = search.ceiling

\* What the search has found out so far.
BoundsInv ==
    /\ search.kept > 0 => Fits(search.kept)
    /\ search.pc # "low" => Fits(search.low)
    /\ search.pc = "ceiling" => Fits(search.start)

\* Before it narrows down, the first search has the bounds it began with.
BegunInv ==
    /\ search.low = request.low
    /\ search.start = Least(request.high, Reach)
    /\ search.ceiling = Reach

NarrowInv ==
    /\ Drops(search.high)
    /\ request.low <= search.low /\ search.low <= search.size
    /\ search.size <= search.high /\ search.high <= search.limit

SearchInv ==
    /\ request.dont_fragment
    /\ search.first_hop = FirstHop
    /\ search.limit = request[search.method]
    /\ SizeInv
    /\ BoundsInv
    /\ FirstStage /\ search.pc # "narrow" => BegunInv
    /\ Precise /\ search.pc = "narrow" => NarrowInv
    /\ ~FirstStage => search.method = "udp" /\ search.kept >= Reach

\* A try was lost to chance, or the path drops the size.
TriesLeft ==
    \/ Drops(probe.size)
    \/ probe.method = "udp"
    \/ probe.left >= 1 /\ probe.left + lost >= request.tries

ProbeInv ==
    /\ Searching
    /\ probe.state = "running" => probe.size = search.size /\ probe.method = search.method
    /\ probe.state = "running" /\ Precise => TriesLeft
    /\ probe.state = "answered" => Fits(search.size)
    /\ probe.state = "failed" /\ Precise => Drops(search.size)

IInv ==
    /\ TypeOK
    /\ Mtu(path) \in seen
    /\ search # None => SearchInv
    /\ probe.state # "quiet" => ProbeInv
    /\ NeverTooWide
    /\ NeverTooNarrow
-----------------------------------------------------------------------------
\* What the arguments and the path are.
LEMMA Types ==
    ASSUME TypeOK
    PROVE  /\ request.low \in Nat /\ request.high \in Nat /\ request.overhead \in Nat
           /\ request.icmp \in Nat /\ request.udp \in Nat
           /\ request["icmp"] = request.icmp /\ request["udp"] = request.udp
           /\ request.method \in {"icmp", "udp"} /\ request[request.method] \in Nat
           /\ request.tries \in Int /\ request.told \in BOOLEAN
           /\ path.hop \in 1..MaxSize /\ path.rest \in 1..MaxSize
           /\ path.local => path.rest = path.hop
           /\ Mtu(path) \in 1..MaxSize /\ FirstHop \in Nat
           /\ Reach \in Nat
<1> USE PathAssumption
<1>1. /\ request.low \in Nat /\ request.high \in Nat /\ request.overhead \in Nat
      /\ request.icmp \in Nat /\ request.udp \in Nat
      /\ request.method \in {"icmp", "udp"}
      /\ request.tries \in Int /\ request.told \in BOOLEAN
  BY DEF TypeOK, Requests
<1>2. /\ path.hop \in 1..MaxSize /\ path.rest \in 1..MaxSize
      /\ path.local => path.rest = path.hop
  BY DEF TypeOK, Paths
<1>3. request["icmp"] = request.icmp /\ request["udp"] = request.udp
  OBVIOUS
<1>4. request[request.method] \in Nat
  BY <1>1, <1>3
<1>5. Mtu(path) \in 1..MaxSize /\ FirstHop \in Nat
  BY <1>1, <1>2 DEF Mtu, FirstHop
<1>6. Reach \in Nat
  BY <1>1, <1>2, <1>4 DEF Reach, Least
<1> QED
  BY <1>1, <1>2, <1>3, <1>4, <1>5, <1>6

LEMMA BegunType ==
    ASSUME TypeOK, NEW method \in {"icmp", "udp"}, NEW low \in Nat, NEW high \in Nat,
           NEW kept \in Nat
    PROVE  /\ Begun(method, low, high, kept) \in Search
           /\ LET s == Begun(method, low, high, kept)
              IN  /\ s.pc = "low" /\ s.method = method /\ s.low = low /\ s.size = low
                  /\ s.kept = kept /\ s.first_hop = FirstHop /\ s.limit = request[method]
<1>1. request[method] \in Nat
  BY Types
<1>2. path.hop \in Nat /\ FirstHop \in Nat
  BY Types, PathAssumption
<1>3. Least(path.hop, request[method]) \in Nat
  BY <1>1, <1>2 DEF Least
<1>4. Least(high, IF request.told THEN Least(path.hop, request[method])
                  ELSE request[method]) \in Nat
  BY <1>1, <1>3 DEF Least
<1> QED
  BY <1>1, <1>2, <1>3, <1>4 DEF Begun, Search

\* The next probe of a search, with the bounds it has now.
LEMMA NextType ==
    ASSUME search \in Search, NEW pc \in {"low", "high", "ceiling", "narrow"},
           NEW size \in Nat, NEW low \in Nat, NEW high \in Nat
    PROVE  /\ At(pc, size) \in Search
           /\ [At(pc, size) EXCEPT !.low = low, !.high = high] \in Search
  BY DEF At, Search

\* A search is a record with a step of its own, so there is none or one.
LEMMA NoneType == None \notin Search
  BY DEF None, Search
-----------------------------------------------------------------------------
\* A search ends with a size that some route has carried and that is wide enough.
LEMMA Reports ==
    ASSUME IInv, Searching, probe' = Quiet,
           UNCHANGED <<path, lost, changed, broken, request, seen, stray, search>>,
           result' \in Nat, result' > 0 => Fits(result'),
           Tolerated => \/ \E m \in seen : m < request.low
                        \/ result' >= Reach
                        \/ \E m \in seen : result' >= m
    PROVE  IInv'
<1>1. TypeOK'
  BY DEF IInv, TypeOK, Probe, Quiet
<1>2. Mtu(path)' \in seen'
  BY DEF IInv, Mtu
<1>3. search' # None => SearchInv'
  BY DEF IInv, SearchInv, SizeInv, BoundsInv, BegunInv, NarrowInv, Precise, FirstStage, Tolerated, Reach,
         FirstHop, Fits, Drops
<1>4. probe'.state = "quiet"
  BY DEF Quiet
<1>5. NeverTooWide'
  BY DEF NeverTooWide, Fits
<1>6. NeverTooNarrow'
  BY DEF NeverTooNarrow, Tolerated, Reach
<1> QED
  BY <1>1, <1>2, <1>3, <1>4, <1>5, <1>6 DEF IInv

\* A search goes on with its next size.
LEMMA GoesOn ==
    ASSUME IInv, probe' = Quiet, result = -1,
           UNCHANGED <<path, lost, changed, broken, request, seen, stray, result>>,
           search' \in Search, SearchInv'
    PROVE  IInv'
<1>1. TypeOK'
  BY DEF IInv, TypeOK, Probe, Quiet
<1>2. Mtu(path)' \in seen'
  BY DEF IInv, Mtu
<1>3. probe'.state = "quiet"
  BY DEF Quiet
<1>4. NeverTooWide' /\ NeverTooNarrow'
  BY DEF NeverTooWide, NeverTooNarrow
<1> QED
  BY <1>1, <1>2, <1>3, <1>4 DEF IInv

\* Faults only add up, and the first link stays: what a search knows stays true.
LEMMA SearchKept ==
    ASSUME IInv, search # None, UNCHANGED <<request, search>>,
           path'.hop = path.hop, path'.echo = path.echo, path'.service = path.service,
           lost' \in Nat, lost <= lost', broken' \in Nat, broken <= broken',
           seen \subseteq seen', stray \subseteq stray'
    PROVE  SearchInv' /\ (Tolerated' => Tolerated)
<1>1. lost \in Nat /\ broken \in Nat
  BY DEF IInv, TypeOK
<1>2. request.tries \in Int
  BY Types DEF IInv
<1>3. Reach' = Reach /\ FirstHop' = FirstHop
  BY DEF Reach, FirstHop
<1>4. Tolerated' => Tolerated
  BY <1>1, <1>2, <1>3 DEF Tolerated
<1>5. (\A n : Fits(n) => Fits(n)') /\ (\A n : Drops(n) => Drops(n)')
  BY DEF Fits, Drops
<1>6. SizeInv' /\ BoundsInv' /\ (BegunInv => BegunInv')
  BY <1>3, <1>5 DEF IInv, SearchInv, SizeInv, BoundsInv, BegunInv
<1>7. NarrowInv => NarrowInv'
  BY <1>5 DEF NarrowInv
<1> QED
  BY <1>3, <1>4, <1>6, <1>7 DEF IInv, SearchInv, FirstStage, Precise

\* No size the first search asks for is too small or too large to be sent.
LEMMA SizeCanBeSent ==
    ASSUME IInv, search # None, Precise
    PROVE  request.overhead <= search.size /\ search.size <= search.limit
<1>1. SearchInv /\ TypeOK /\ FirstStage /\ Tolerated
  BY DEF IInv, Precise
<1>2. search \in Search
  BY <1>1 DEF TypeOK
<1>3. search.limit = request[request.method]
  BY <1>1 DEF SearchInv, FirstStage
<1>4. /\ request.overhead <= request.low /\ request.low <= request.high
      /\ request.low <= Reach
  BY <1>1 DEF Tolerated
<1>5. /\ request.overhead \in Nat /\ request.low \in Nat /\ request.high \in Nat
      /\ search.limit \in Nat /\ path.hop \in Nat /\ Reach \in Nat
  BY <1>1, <1>3, Types, PathAssumption
<1>6. /\ Reach <= search.limit
      /\ request.low <= Least(request.high, Reach)
      /\ Least(request.high, Reach) <= search.limit
  BY <1>3, <1>4, <1>5 DEF Reach, Least
<1>7. CASE search.pc = "narrow"
  <2>1. NarrowInv
    BY <1>1, <1>7 DEF SearchInv, Precise
  <2>2. search.low \in Nat /\ search.size \in Nat /\ search.high \in Nat
    BY <1>2 DEF Search
  <2> QED
    BY <1>4, <1>5, <2>1, <2>2 DEF NarrowInv
<1>8. CASE search.pc # "narrow"
  <2>1. BegunInv /\ SizeInv
    BY <1>1, <1>8 DEF SearchInv
  <2>2. search.size \in {request.low, Least(request.high, Reach), Reach}
    BY <1>2, <1>8, <2>1 DEF BegunInv, SizeInv, Search
  <2>3. Least(request.high, Reach) \in Nat
    BY <1>5 DEF Least
  <2>4. \A n \in Nat : request.low <= n /\ n <= search.limit =>
              request.overhead <= n /\ n <= search.limit
    BY <1>4, <1>5
  <2>5. request.low <= search.limit
    BY <1>4, <1>5, <1>6
  <2> QED
    BY <1>4, <1>5, <1>6, <2>2, <2>3, <2>4, <2>5
<1> QED
  BY <1>7, <1>8
-----------------------------------------------------------------------------
LEMMA InitInv == Init => IInv
<1> SUFFICES ASSUME Init
             PROVE  IInv
  OBVIOUS
<1> USE PathAssumption
<1>1. path \in Paths /\ request \in Requests
  BY DEF Init, PingInit
<1>2. Mtu(path) \in 1..MaxSize
  BY <1>1 DEF Paths, Mtu
<1>3. TypeOK
  BY <1>1, <1>2 DEF Init, PingInit, TypeOK, Probe, Quiet
<1>4. probe.state = "quiet" /\ search = None
  BY DEF Init, PingInit, Quiet
<1>5. NeverTooWide /\ NeverTooNarrow
  BY DEF Init, NeverTooWide, NeverTooNarrow
<1> QED
  BY <1>3, <1>4, <1>5 DEF IInv, Init

\* A search for the size by the method that was asked for starts well.
LEMMA DiscoverInv == ASSUME IInv, Discover PROVE IInv'
<1> USE DEF IInv
<1>1. CASE request.dont_fragment
  <2> DEFINE s == Begun(request.method, request.low, request.high, 0)
  <2>1. search' = s /\ UNCHANGED <<pingVars, request, seen, stray, result>> /\ result = -1
    BY <1>1 DEF Discover
  <2>2. s \in Search /\ s.pc = "low" /\ s.method = request.method /\ s.low = request.low
        /\ s.size = request.low /\ s.kept = 0 /\ s.first_hop = FirstHop
        /\ s.limit = request[request.method]
    <3>1. request.method \in {"icmp", "udp"} /\ request.low \in Nat /\ request.high \in Nat
      BY Types
    <3> QED
      BY <3>1, 0 \in Nat, BegunType
  <2>3. s.start = Least(request.high, Reach) /\ s.ceiling = Reach
    <3>1. request.high \in Nat /\ request[request.method] \in Nat
      BY Types
    <3> QED
      BY <3>1 DEF Begun, Reach, Least
  <2> HIDE DEF s
  <2>4. SearchInv'
    <3>1. SizeInv' /\ BoundsInv'
      BY <2>1, <2>2 DEF SizeInv, BoundsInv
    <3>2. BegunInv'
      BY <2>1, <2>2, <2>3 DEF BegunInv, pingVars, Reach
    <3> QED
      BY <1>1, <2>1, <2>2, <3>1, <3>2 DEF SearchInv, FirstStage, FirstHop, pingVars
  <2>5. probe'.state = "quiet" /\ probe' = probe
    BY <2>1, NoneType DEF pingVars, ProbeInv, Searching, Discover
  <2>6. TypeOK'
    BY <2>1, <2>2 DEF TypeOK, pingVars
  <2>7. NeverTooWide' /\ NeverTooNarrow'
    BY <2>1 DEF NeverTooWide, NeverTooNarrow
  <2> QED
    BY <2>1, <2>4, <2>5, <2>6, <2>7 DEF pingVars, Mtu
<1>2. CASE ~request.dont_fragment
  <2>1. result' = 0 /\ UNCHANGED <<pingVars, request, seen, stray, search>> /\ search = None
    BY <1>2 DEF Discover
  <2>2. TypeOK'
    BY <2>1 DEF TypeOK, pingVars
  <2>3. NeverTooWide' /\ NeverTooNarrow'
    BY <1>2, <2>1 DEF NeverTooWide, NeverTooNarrow
  <2>4. probe'.state = "quiet"
    BY <2>1 DEF pingVars, ProbeInv, Searching
  <2> QED
    BY <2>1, <2>2, <2>3, <2>4 DEF pingVars, Mtu
<1> QED
  BY <1>1, <1>2

\* A ping program is run, or the size is not one that can be sent.
LEMMA ProbesInv == ASSUME IInv, Probes PROVE IInv'
<1>1. /\ search # None /\ result = -1
      /\ UNCHANGED <<path, lost, changed, broken, request, search, seen, stray, result>>
  BY DEF Probes, Searching, mtuVars
<1>2. TypeOK /\ SearchInv /\ search \in Search
  BY <1>1 DEF IInv, TypeOK
<1>3. lost \in Nat /\ broken \in Nat
  BY <1>2 DEF TypeOK
<1>4. SearchInv' /\ (Tolerated' => Tolerated)
  BY <1>1, <1>3, SearchKept
<1>5. ASSUME probe' \in Probe, ProbeInv'
      PROVE  IInv'
  <2>1. TypeOK'
    BY <1>1, <1>2, <1>5 DEF TypeOK
  <2>2. NeverTooWide' /\ NeverTooNarrow'
    BY <1>1 DEF NeverTooWide, NeverTooNarrow
  <2> QED
    BY <1>1, <1>4, <1>5, <2>1, <2>2 DEF IInv, Mtu
<1>6. CASE search.size < request.overhead \/ search.size > search.limit
  <2>1. probe' = [Quiet EXCEPT !.state = "failed"]
    BY <1>6 DEF Probes
  <2>2. probe' \in Probe /\ probe'.state = "failed"
    BY <2>1 DEF Probe, Quiet
  <2>3. search.size \in Nat /\ search.limit \in Nat /\ request.overhead \in Nat
    BY <1>2, Types DEF Search
  <2>4. ~Precise
    BY <1>1, <1>6, <2>3, SizeCanBeSent
  <2>5. ~Precise'
    BY <1>1, <1>4, <2>4 DEF Precise, FirstStage
  <2>6. ProbeInv'
    BY <1>1, <2>2, <2>5 DEF ProbeInv, Searching
  <2> QED
    BY <1>5, <2>2, <2>6
<1>7. CASE ~(search.size < request.overhead \/ search.size > search.limit)
  <2> DEFINE tries == IF search.method = "icmp" THEN request.tries ELSE 1
             left == IF tries < 1 THEN 1 ELSE tries
  <2>1. probe' = Started(search.method, search.size, tries)
    BY <1>7 DEF Probes
  <2>2. request.tries \in Int /\ search.method \in {"icmp", "udp"} /\ search.size \in Nat
    BY <1>2, Types DEF Search
  <2>3. left \in Nat /\ left >= 1 /\ (search.method = "icmp" => left + lost >= request.tries)
    BY <1>3, <2>2
  <2>4. probe' = [state |-> "running", method |-> search.method, size |-> search.size,
                  left |-> left]
    BY <2>1 DEF Started
  <2> HIDE DEF left, tries
  <2>5. probe' \in Probe
    BY <2>2, <2>3, <2>4 DEF Probe
  <2>6. /\ probe'.state = "running" /\ probe'.method = search.method
        /\ probe'.size = search.size /\ probe'.left = left
    BY <2>4
  <2>7. TriesLeft'
    BY <1>1, <2>2, <2>3, <2>6 DEF TriesLeft
  <2>8. ProbeInv'
    BY <1>1, <2>6, <2>7 DEF ProbeInv, Searching
  <2> QED
    BY <1>5, <2>5, <2>8
<1> QED
  BY <1>6, <1>7

\* The route changes under a search.
LEMMA ChangesInv == ASSUME IInv, Changes PROVE IInv'
<1>1. /\ search # None /\ result = -1
      /\ UNCHANGED <<lost, broken, request, search, stray, result, probe>>
      /\ changed' = changed + 1 /\ path' \in Paths /\ seen' = seen \cup {Mtu(path')}
  BY DEF Changes, Searching, Reroute
<1>2. PICK m \in 1..MaxSize : path' = [path EXCEPT !.rest = m]
  BY DEF Changes, Reroute
<1>3. TypeOK /\ SearchInv /\ search \in Search /\ path \in Paths
  BY <1>1 DEF IInv, TypeOK
<1>4. path'.hop = path.hop /\ path'.echo = path.echo /\ path'.service = path.service
  BY <1>2, <1>3 DEF Paths
<1>5. lost \in Nat /\ broken \in Nat /\ changed \in Nat
  BY <1>3 DEF TypeOK
<1>6. SearchInv' /\ (Tolerated' => Tolerated)
  BY <1>1, <1>4, <1>5, SearchKept
<1>7. Mtu(path') \in 1..MaxSize
  BY <1>1, PathAssumption DEF Paths, Mtu
<1>8. TypeOK'
  <2>1. seen' \subseteq 1..MaxSize
    BY <1>1, <1>3, <1>7 DEF TypeOK
  <2>2. changed' \in Nat
    BY <1>1, <1>5
  <2> QED
    BY <1>1, <1>3, <2>1, <2>2 DEF TypeOK
<1>9. probe.state # "quiet" => ProbeInv'
  BY <1>1, <1>6 DEF IInv, ProbeInv, Searching, Precise, FirstStage, TriesLeft, Fits, Drops
<1>10. NeverTooWide' /\ NeverTooNarrow'
  BY <1>1 DEF NeverTooWide, NeverTooNarrow
<1> QED
  BY <1>1, <1>6, <1>8, <1>9, <1>10 DEF IInv, Mtu

\* A call of ping that goes without an answer has one try less.
LEMMA UnansweredType ==
    ASSUME probe \in Probe, probe.state = "running", Unanswered
    PROVE  /\ probe' \in Probe
           /\ probe'.method = probe.method /\ probe'.size = probe.size
           /\ \/ probe.left > 1 /\ probe'.left = probe.left - 1 /\ probe'.state = "running"
              \/ probe.left <= 1 /\ probe'.left = probe.left /\ probe'.state = "failed"
<1>1. probe.left \in Nat
  BY DEF Probe
<1>2. CASE probe.left > 1
  <2>1. probe.left - 1 \in Nat
    BY <1>1, <1>2
  <2> QED
    BY <1>2, <2>1 DEF Unanswered, Probe
<1>3. CASE ~(probe.left > 1)
  BY <1>1, <1>3 DEF Unanswered, Probe
<1> QED
  BY <1>2, <1>3

\* A try that goes unanswered because the path drops the size leaves the next one no
\* better off, and one that is lost is one of those that tries= allows for.
LEMMA UnansweredInv ==
    ASSUME IInv, probe.state = "running", Unanswered, Searching,
           UNCHANGED <<request, search, seen, stray, result>>,
           lost' \in Nat, broken' \in Nat, lost <= lost',
           Tolerated' => Tolerated,
           Precise' => Drops(probe.size) \/ lost' = lost + 1
    PROVE  probe' \in Probe /\ ProbeInv'
<1>1. probe \in Probe /\ lost \in Nat /\ request.tries \in Int
  BY Types DEF IInv, TypeOK
<1>2. ProbeInv /\ probe.size = search.size /\ probe.method = search.method
  BY DEF IInv, ProbeInv
<1>3. /\ probe' \in Probe
      /\ probe'.method = probe.method /\ probe'.size = probe.size
      /\ \/ probe.left > 1 /\ probe'.left = probe.left - 1 /\ probe'.state = "running"
         \/ probe.left <= 1 /\ probe'.left = probe.left /\ probe'.state = "failed"
  BY <1>1, UnansweredType
<1>4. probe.left \in Nat /\ probe.method \in {"icmp", "udp"}
  BY <1>1 DEF Probe
<1>5. Precise' => Precise /\ TriesLeft
  BY <1>2 DEF Precise, FirstStage, ProbeInv
<1>6. Drops(probe.size)' <=> Drops(probe.size)
  BY <1>3 DEF Drops
<1>7. CASE probe'.state = "running"
  <2>1. Precise' => TriesLeft'
    <3> SUFFICES ASSUME Precise'
                 PROVE  TriesLeft'
      OBVIOUS
    <3>1. probe.left > 1 /\ probe'.left = probe.left - 1
      BY <1>3, <1>7
    <3>2. CASE Drops(probe.size)
      BY <1>6, <3>2 DEF TriesLeft
    <3>3. CASE ~Drops(probe.size)
      <4>1. lost' = lost + 1
        BY <3>3
      <4>2. probe.method = "udp" \/ probe.left + lost >= request.tries
        BY <1>5, <3>3 DEF TriesLeft
      <4>3. \/ probe'.method = "udp"
            \/ probe'.left >= 1 /\ probe'.left + lost' >= request.tries
        BY <1>1, <1>3, <1>4, <3>1, <4>1, <4>2
      <4> QED
        BY <4>3 DEF TriesLeft
    <3> QED
      BY <3>2, <3>3
  <2> QED
    BY <1>2, <1>3, <1>7, <2>1 DEF ProbeInv, Searching
<1>8. CASE probe'.state = "failed"
  <2>1. Precise' => Drops(probe.size)
    <3> SUFFICES ASSUME Precise', ~Drops(probe.size)
                 PROVE  FALSE
      OBVIOUS
    <3>1. lost' = lost + 1 /\ lost' # 0
      BY <1>1
    <3>2. request.method = "icmp" /\ lost' < request.tries
      BY <3>1 DEF Precise, Tolerated
    <3>3. probe.method = "icmp"
      BY <1>2, <1>5, <3>2 DEF Precise, FirstStage
    <3>4. probe.left + lost >= request.tries
      BY <1>5, <3>3 DEF TriesLeft
    <3>5. probe.left <= 1
      BY <1>3, <1>8
    <3> QED
      BY <1>1, <1>4, <3>1, <3>2, <3>4, <3>5
  <2>2. Precise' => Drops(search.size)'
    BY <1>2, <2>1 DEF Drops
  <2> QED
    BY <1>3, <1>8, <2>2 DEF ProbeInv, Searching
<1> QED
  BY <1>3, <1>7, <1>8

\* One run of the program.
LEMMA PingsInv == ASSUME IInv, Pings PROVE IInv'
<1>1. /\ probe.state = "running" /\ probe.method = "icmp"
      /\ UNCHANGED <<path, changed, request, search, seen, stray, result>>
  BY DEF Pings, Try, mtuVars
<1>2. ProbeInv /\ Searching /\ search # None /\ result = -1
  BY <1>1 DEF IInv, ProbeInv, Searching
<1>3. TypeOK /\ SearchInv /\ probe \in Probe /\ lost \in Nat /\ broken \in Nat
  BY <1>2 DEF IInv, TypeOK
<1>4. lost' \in Nat /\ lost <= lost' /\ broken' \in Nat /\ broken <= broken'
  BY <1>3 DEF Pings, Try
<1>5. SearchInv' /\ (Tolerated' => Tolerated)
  BY <1>1, <1>2, <1>4, SearchKept
<1>6. probe.size = search.size /\ probe.method = search.method
  BY <1>1, <1>2 DEF ProbeInv
<1>7. Mtu(path) \in seen /\ Mtu(path) \in Nat /\ probe.size \in Nat
  BY <1>3, Types, PathAssumption DEF IInv, Probe
<1>8. ASSUME probe' \in Probe, ProbeInv'
      PROVE  IInv'
  <2>1. TypeOK'
    BY <1>1, <1>3, <1>4, <1>8 DEF TypeOK
  <2>2. NeverTooWide' /\ NeverTooNarrow'
    BY <1>1, <1>2 DEF NeverTooWide, NeverTooNarrow
  <2> QED
    BY <1>1, <1>5, <1>8, <2>1, <2>2 DEF IInv, Mtu
<1>9. ASSUME NEW text \in Printed, Answered(text), UNCHANGED <<lost, broken>>
      PROVE  IInv'
  <2>1. CASE AnsweredBy(text)
    <3>1. Carried
      BY <1>9, <2>1 DEF Printed, AnsweredBy
    <3>2. probe' = [probe EXCEPT !.state = "answered"]
      BY <1>9, <2>1 DEF Answered
    <3>3. probe' \in Probe /\ probe'.state = "answered"
      BY <1>3, <3>2 DEF Probe
    <3>4. Fits(search.size)'
      BY <1>1, <1>6, <1>7, <3>1 DEF Fits, Carried
    <3>5. ProbeInv'
      BY <1>1, <1>2, <3>3, <3>4 DEF ProbeInv, Searching
    <3> QED
      BY <1>8, <3>3, <3>5
  <2>2. CASE ~AnsweredBy(text)
    <3>1. ~Carried
      BY <1>9, <2>2 DEF Printed, AnsweredBy
    <3>2. Unanswered
      BY <1>9, <2>2 DEF Answered
    <3>3. Precise' => Drops(probe.size)
      <4> SUFFICES ASSUME Precise'
                   PROVE  Drops(probe.size)
        OBVIOUS
      <4>1. Tolerated /\ probe.method = request.method
        BY <1>1, <1>5, <1>6 DEF Precise, FirstStage
      <4>2. ~(probe.size <= Mtu(path))
        BY <1>1, <3>1, <4>1 DEF Carried, Tolerated
      <4> QED
        BY <1>7, <4>2 DEF Drops
    <3>4. probe' \in Probe /\ ProbeInv'
      BY <1>1, <1>2, <1>4, <1>5, <3>2, <3>3, UnansweredInv
    <3> QED
      BY <1>8, <3>4
  <2> QED
    BY <2>1, <2>2
<1>10. ASSUME lost' = lost + 1, Unanswered
       PROVE  IInv'
  <2>1. probe' \in Probe /\ ProbeInv'
    BY <1>1, <1>2, <1>4, <1>5, <1>10, UnansweredInv
  <2> QED
    BY <1>8, <2>1
<1>11. ASSUME broken' = broken + 1, probe' = [probe EXCEPT !.state = "failed"]
       PROVE  IInv'
  <2>1. probe' \in Probe /\ probe'.state = "failed"
    BY <1>3, <1>11 DEF Probe
  <2>2. ~Tolerated'
    BY <1>3, <1>11 DEF Tolerated
  <2>3. ProbeInv'
    BY <1>1, <1>2, <2>1, <2>2 DEF ProbeInv, Searching, Precise
  <2> QED
    BY <1>8, <2>1, <2>3
<1> QED
  BY <1>9, <1>10, <1>11 DEF Pings, Try

\* One datagram: what answers it came over a path that carries the size, or is a stray
\* one for that size; a datagram that was lost is not tolerated.
LEMMA DatagramInv == ASSUME IInv, Datagram PROVE IInv'
<1>1. /\ probe.state = "running" /\ probe.method = "udp"
      /\ UNCHANGED <<path, changed, broken, request, search, seen, result>>
  BY DEF Datagram
<1>2. ProbeInv /\ Searching /\ search # None /\ result = -1
  BY <1>1 DEF IInv, ProbeInv, Searching
<1>3. TypeOK /\ probe \in Probe /\ lost \in Nat /\ broken \in Nat
  BY <1>2 DEF IInv, TypeOK
<1>4. Mtu(path) \in seen /\ Mtu(path) \in Nat /\ probe.size \in Nat
  BY <1>3, Types, PathAssumption DEF IInv, Probe
<1>5. /\ lost' \in Nat /\ lost <= lost' /\ stray \subseteq stray' /\ stray' \subseteq Nat
      /\ broken' \in Nat /\ broken <= broken'
  BY <1>1, <1>3, <1>4 DEF Datagram, TypeOK
<1>6. SearchInv' /\ (Tolerated' => Tolerated)
  BY <1>1, <1>2, <1>5, SearchKept
<1>7. probe.size = search.size /\ probe.method = search.method
  BY <1>1, <1>2 DEF ProbeInv
<1>8. ASSUME probe' \in Probe, ProbeInv'
      PROVE  IInv'
  <2>1. TypeOK'
    BY <1>1, <1>3, <1>5, <1>8 DEF TypeOK
  <2>2. NeverTooWide' /\ NeverTooNarrow'
    BY <1>1, <1>2 DEF NeverTooWide, NeverTooNarrow
  <2> QED
    BY <1>1, <1>6, <1>8, <2>1, <2>2 DEF IInv, Mtu
<1>9. ASSUME probe' = [probe EXCEPT !.state = "answered"],
             Served \/ stray' = stray \cup {probe.size}
      PROVE  IInv'
  <2>1. probe' \in Probe /\ probe'.state = "answered"
    BY <1>3, <1>9 DEF Probe
  <2>2. Fits(search.size)'
    BY <1>1, <1>4, <1>7, <1>9 DEF Fits, Served
  <2>3. ProbeInv'
    BY <1>1, <1>2, <2>1, <2>2 DEF ProbeInv, Searching
  <2> QED
    BY <1>8, <2>1, <2>3
<1>10. ASSUME probe' = [probe EXCEPT !.state = "failed"], ~Served \/ lost' = lost + 1
       PROVE  IInv'
  <2>1. probe' \in Probe /\ probe'.state = "failed"
    BY <1>3, <1>10 DEF Probe
  <2>2. Precise' => Drops(search.size)'
    <3> SUFFICES ASSUME Precise'
                 PROVE  Drops(search.size)'
      OBVIOUS
    <3>1. Tolerated' /\ Tolerated /\ request.method = "udp"
      BY <1>1, <1>6, <1>7 DEF Precise, FirstStage
    <3>2. lost' = 0
      BY <1>1, <3>1 DEF Tolerated
    <3>3. ~Served
      BY <1>3, <1>10, <3>2
    <3>4. ~(probe.size <= Mtu(path))
      BY <3>1, <3>3 DEF Served, Tolerated
    <3> QED
      BY <1>1, <1>4, <1>7, <3>4 DEF Drops
  <2>3. ProbeInv'
    BY <1>1, <1>2, <2>1, <2>2 DEF ProbeInv, Searching
  <2> QED
    BY <1>8, <2>1, <2>3
<1> QED
  BY <1>9, <1>10 DEF Datagram

LEMMA TestsInv == ASSUME IInv, Tests PROVE IInv'
  BY PingsInv, DatagramInv DEF Tests
-----------------------------------------------------------------------------
\* The end of a search at a size that has survived, unless the tool was the limit: then a
\* second one starts, or this host itself is the destination.
LEMMA FoundInv ==
    ASSUME IInv, Searching, probe' = Quiet,
           UNCHANGED <<path, lost, changed, broken, request, seen, stray>>,
           NEW n \in Nat, Fits(n), Found(n),
           Precise => \/ \E m \in seen : m < request.low
                      \/ n >= Reach
                      \/ \E m \in seen : n >= m
    PROVE  IInv'
<1> DEFINE bound == n = search.limit /\ search.first_hop > search.limit
<1>1. TypeOK /\ SearchInv /\ search \in Search /\ result = -1
  BY DEF IInv, TypeOK, Searching
<1>2. /\ path.hop \in Nat /\ path.rest \in Nat
      /\ path.local => path.rest = path.hop
      /\ request.icmp \in Nat /\ request.udp \in Nat /\ request["icmp"] = request.icmp
      /\ request.method \in {"icmp", "udp"} /\ Reach \in Nat /\ FirstHop \in Nat
  BY <1>1, Types, PathAssumption
<1>3. search.first_hop = FirstHop /\ search.limit = request[search.method]
  BY <1>1 DEF SearchInv
<1>4. bound => request.told /\ search.first_hop = path.hop
  BY <1>1, <1>2, <1>3 DEF FirstHop, Search
<1>5. CASE bound /\ path.local
  <2>1. result' = path.hop /\ UNCHANGED search
    BY <1>4, <1>5 DEF Found
  <2>2. Fits(path.hop)
    <3>1. Mtu(path) = path.hop
      BY <1>2, <1>5 DEF Mtu
    <3> QED
      BY <1>2, <3>1 DEF IInv, Fits
  <2>3. path.hop >= Reach
    <3>1. request[request.method] \in Nat
      BY <1>1, Types
    <3> QED
      BY <1>2, <1>4, <1>5, <3>1 DEF Reach, Least
  <2> QED
    BY <1>2, <2>1, <2>2, <2>3, Reports
<1>6. CASE bound /\ ~path.local /\ search.method = "icmp"
  <2> DEFINE s == Begun("udp", n, search.first_hop, n)
  <2>1. search' = s /\ UNCHANGED result
    BY <1>6 DEF Found
  <2>2. s \in Search /\ s.pc = "low" /\ s.method = "udp" /\ s.low = n /\ s.size = n
        /\ s.kept = n /\ s.first_hop = FirstHop /\ s.limit = request["udp"]
    <3>1. search.first_hop \in Nat
      BY <1>2, <1>3
    <3> QED
      BY <1>1, <3>1, BegunType
  <2> HIDE DEF s
  <2>3. request.method = "icmp"
    BY <1>1, <1>2, <1>6 DEF SearchInv, FirstStage
  <2>4. n >= Reach
    <3>1. n = request[request.method]
      BY <1>3, <1>6, <2>3
    <3>2. request.told /\ path.hop \in Nat
      BY <1>2, <1>4, <1>6
    <3> QED
      BY <3>1, <3>2 DEF Reach, Least
  <2>5. Fits(n)'
    BY DEF Fits
  <2>6. SizeInv' /\ BoundsInv'
    BY <2>1, <2>2, <2>5 DEF SizeInv, BoundsInv
  <2>7. Reach' = Reach /\ FirstHop' = FirstHop
    BY DEF Reach, FirstHop
  <2>8. request'.dont_fragment
    BY <1>1 DEF SearchInv
  <2>9. SearchInv'
    BY <2>1, <2>2, <2>3, <2>4, <2>6, <2>7, <2>8 DEF SearchInv, FirstStage
  <2> QED
    BY <1>1, <2>1, <2>2, <2>9, GoesOn
<1>7. CASE ~(bound /\ path.local) /\ ~(bound /\ search.method = "icmp")
  <2> DEFINE best == IF n > search.kept THEN n ELSE search.kept
  <2>1. result' = best /\ UNCHANGED search
    BY <1>7 DEF Found
  <2>2. best \in Nat /\ best >= n /\ best >= search.kept
    BY <1>1 DEF Search
  <2>3. best > 0 => Fits(best)
    BY <1>1 DEF SearchInv, BoundsInv
  <2> HIDE DEF best
  <2>4. Tolerated => \/ \E m \in seen : m < request.low
                     \/ best >= Reach
                     \/ \E m \in seen : best >= m
    <3>1. CASE FirstStage
      <4>1. \A m \in seen : m \in Nat
        BY <1>1, PathAssumption DEF TypeOK
      <4> QED
        BY <1>2, <2>2, <3>1, <4>1 DEF Precise
    <3>2. CASE ~FirstStage
      <4>1. search.kept >= Reach /\ search.kept \in Nat
        BY <1>1, <3>2 DEF SearchInv, Search
      <4> QED
        BY <1>2, <2>2, <4>1
    <3> QED
      BY <3>1, <3>2
  <2> QED
    BY <2>1, <2>2, <2>3, <2>4, Reports
<1> QED
  BY <1>5, <1>6, <1>7

\* The bounds close in on the size, or have met.
LEMMA NarrowStep ==
    ASSUME IInv, Searching, probe' = Quiet,
           UNCHANGED <<path, lost, changed, broken, request, seen, stray>>,
           NEW low \in Nat, NEW high \in Nat, Fits(low), Narrow(low, high),
           Precise => Drops(high) /\ request.low <= low /\ high <= search.limit
    PROVE  IInv'
<1>1. TypeOK /\ SearchInv /\ search \in Search /\ result = -1
  BY DEF IInv, TypeOK, Searching
<1>2. CASE high - low > 1
  <2> DEFINE middle == (low + high) \div 2
             s == [At("narrow", middle) EXCEPT !.low = low, !.high = high]
  <2>1. search' = s /\ UNCHANGED result
    BY <1>2 DEF Narrow
  <2>2. middle \in Nat /\ low <= middle /\ middle <= high
    BY <1>2
  <2> HIDE DEF middle
  <2>3. s \in Search
    BY <1>1, <2>2, NextType
  <2>4. /\ s.pc = "narrow" /\ s.size = middle /\ s.low = low /\ s.high = high
        /\ s.method = search.method /\ s.kept = search.kept
        /\ s.first_hop = search.first_hop /\ s.limit = search.limit
    BY <1>1 DEF At, Search
  <2> HIDE DEF s
  <2>5. \A k : Fits(k) => Fits(k)'
    BY DEF Fits
  <2>6. SizeInv' /\ BoundsInv'
    BY <1>1, <2>1, <2>4, <2>5 DEF SizeInv, BoundsInv, SearchInv
  <2>7. Precise' => Precise
    BY <2>1, <2>4 DEF Precise, FirstStage, Tolerated, Reach
  <2>8. Precise' => NarrowInv'
    BY <2>1, <2>2, <2>4, <2>7 DEF NarrowInv, Drops
  <2>9. SearchInv'
    BY <1>1, <2>1, <2>4, <2>6, <2>8 DEF SearchInv, FirstStage, FirstHop, Reach
  <2> QED
    BY <1>1, <2>1, <2>3, <2>9, GoesOn
<1>3. CASE ~(high - low > 1)
  <2>1. Found(low)
    BY <1>3 DEF Narrow
  <2>2. Precise => \E m \in seen : low >= m
    <3>1. \A m \in seen : m \in Nat
      BY <1>1, PathAssumption DEF TypeOK
    <3> QED
      BY <1>3, <3>1 DEF Drops
  <2> QED
    BY <2>1, <2>2, FoundInv
<1> QED
  BY <1>2, <1>3

\* The answer to a probe moves the search one step on, or ends it.
LEMMA LearnsInv == ASSUME IInv, Learns PROVE IInv'
<1>1. /\ Searching /\ search # None /\ result = -1 /\ probe' = Quiet
      /\ UNCHANGED <<path, lost, changed, broken, request, seen, stray>>
      /\ probe.state \notin {"quiet", "running"}
  BY DEF Learns, Searching
<1>2. TypeOK /\ SearchInv /\ search \in Search /\ probe \in Probe /\ ProbeInv
  BY <1>1 DEF IInv, TypeOK
<1>3. /\ search.low \in Nat /\ search.start \in Nat /\ search.high \in Nat
      /\ search.ceiling \in Nat /\ search.size \in Nat /\ search.kept \in Nat
      /\ search.limit \in Nat /\ search.pc \in {"low", "high", "ceiling", "narrow"}
  BY <1>2 DEF Search
<1>4. /\ request.low \in Nat /\ request.high \in Nat /\ path.hop \in Nat
      /\ request[request.method] \in Nat /\ Reach \in Nat
  BY <1>2, Types, PathAssumption
<1>5. SizeInv /\ BoundsInv
  BY <1>2 DEF SearchInv
<1>6. Precise => search.limit = request[request.method]
  BY <1>2 DEF SearchInv, Precise, FirstStage
<1>7. /\ Precise /\ search.pc # "narrow" => BegunInv
      /\ Precise /\ search.pc = "narrow" => NarrowInv
  BY <1>2 DEF SearchInv, Precise
<1>8. Least(request.high, Reach) <= Reach /\ Reach <= request[request.method]
  BY <1>4 DEF Reach, Least
<1>9. Precise => request.low <= Least(request.high, Reach)
  BY <1>4, <1>8 DEF Precise, Tolerated, Least
<1>10. CASE probe.state = "failed"
  <2>1. Dropped /\ (Precise => Drops(search.size))
    BY <1>1, <1>2, <1>10 DEF Learns, ProbeInv
  <2>2. CASE search.pc = "low"
    <3>1. result' = search.kept /\ UNCHANGED search
      BY <2>1, <2>2 DEF Dropped
    <3>2. search.kept > 0 => Fits(search.kept)
      BY <1>5 DEF BoundsInv
    <3>3. Tolerated => \/ \E m \in seen : m < request.low
                       \/ search.kept >= Reach
      <4>1. CASE FirstStage
        <5>1. Tolerated => search.size = request.low
          BY <1>5, <1>7, <2>2, <4>1 DEF SizeInv, BegunInv, Precise
        <5> QED
          BY <2>1, <4>1, <5>1 DEF Precise, Drops
      <4>2. CASE ~FirstStage
        BY <1>2, <4>2 DEF SearchInv
      <4> QED
        BY <4>1, <4>2
    <3> QED
      BY <1>1, <1>3, <3>1, <3>2, <3>3, Reports
  <2>3. CASE search.pc = "high"
    <3>1. Narrow(search.low, search.start)
      BY <2>1, <2>3 DEF Dropped
    <3>2. Fits(search.low)
      BY <1>5, <2>3 DEF BoundsInv
    <3>3. Precise => /\ Drops(search.start) /\ request.low <= search.low
                     /\ search.start <= search.limit
      BY <1>3, <1>4, <1>5, <1>6, <1>7, <1>8, <2>1, <2>3 DEF SizeInv, BegunInv, Least
    <3> QED
      BY <1>1, <1>3, <3>1, <3>2, <3>3, NarrowStep
  <2>4. CASE search.pc = "ceiling"
    <3>1. Narrow(search.start, search.ceiling)
      BY <2>1, <2>4 DEF Dropped
    <3>2. Fits(search.start)
      BY <1>5, <2>4 DEF BoundsInv
    <3>3. Precise => /\ Drops(search.ceiling) /\ request.low <= search.start
                     /\ search.ceiling <= search.limit
      BY <1>5, <1>6, <1>7, <1>8, <1>9, <2>1, <2>4 DEF SizeInv, BegunInv
    <3> QED
      BY <1>1, <1>3, <3>1, <3>2, <3>3, NarrowStep
  <2>5. CASE search.pc = "narrow"
    <3>1. Narrow(search.low, search.size)
      BY <2>1, <2>5 DEF Dropped
    <3>2. Fits(search.low)
      BY <1>5, <2>5 DEF BoundsInv
    <3>3. Precise => /\ Drops(search.size) /\ request.low <= search.low
                     /\ search.size <= search.limit
      BY <1>3, <1>4, <1>7, <2>1, <2>5 DEF NarrowInv
    <3> QED
      BY <1>1, <1>3, <3>1, <3>2, <3>3, NarrowStep
  <2> QED
    BY <1>3, <2>2, <2>3, <2>4, <2>5
<1>11. CASE probe.state = "answered"
  <2>1. Survived /\ Fits(search.size)
    BY <1>1, <1>2, <1>11 DEF Learns, ProbeInv
  <2>2. ASSUME NEW pc \in {"high", "ceiling"}, NEW n \in Nat,
               search' = At(pc, n), UNCHANGED result,
               pc = "high" => n = search.start, pc = "ceiling" => n = search.ceiling,
               search.pc # "narrow", Fits(search.low), pc = "ceiling" => Fits(search.start)
        PROVE  IInv'
    <3>1. search' \in Search
      BY <1>2, <2>2, NextType
    <3>2. /\ search'.pc = pc /\ search'.size = n /\ search'.low = search.low
          /\ search'.start = search.start /\ search'.ceiling = search.ceiling
          /\ search'.method = search.method /\ search'.kept = search.kept
          /\ search'.first_hop = search.first_hop /\ search'.limit = search.limit
      BY <1>2, <2>2 DEF At, Search
    <3>3. \A k : Fits(k) => Fits(k)'
      BY <1>1 DEF Fits
    <3>4. SizeInv' /\ BoundsInv'
      BY <1>5, <2>2, <3>2, <3>3 DEF SizeInv, BoundsInv
    <3>5. BegunInv => BegunInv'
      BY <1>1, <3>2 DEF BegunInv, Reach
    <3>6. SearchInv'
      BY <1>1, <1>2, <2>2, <3>2, <3>4, <3>5 DEF SearchInv, FirstStage, FirstHop, Reach
    <3> QED
      BY <1>1, <2>2, <3>1, <3>6, GoesOn
  <2>3. CASE search.pc = "low"
    <3>1. search' = At("high", search.start) /\ UNCHANGED result
      BY <2>1, <2>3 DEF Survived
    <3>2. Fits(search.low)
      BY <1>5, <2>1, <2>3 DEF SizeInv
    <3> QED
      BY <1>3, <2>2, <2>3, <3>1, <3>2
  <2>4. CASE search.pc = "high" /\ search.start < search.ceiling
    <3>1. search' = At("ceiling", search.ceiling) /\ UNCHANGED result
      <4>1. ~(search.start >= search.ceiling)
        BY <1>3, <2>4
      <4> QED
        BY <2>1, <2>4, <4>1 DEF Survived
    <3>2. Fits(search.low) /\ Fits(search.start)
      BY <1>5, <2>1, <2>4 DEF SizeInv, BoundsInv
    <3> QED
      BY <1>3, <2>2, <2>4, <3>1, <3>2
  <2>5. CASE search.pc = "high" /\ search.start >= search.ceiling
    <3>1. Found(search.start)
      BY <1>3, <2>1, <2>5 DEF Survived
    <3>2. Fits(search.start)
      BY <1>5, <2>1, <2>5 DEF SizeInv
    <3>3. Precise => search.start >= Reach
      BY <1>3, <1>4, <1>7, <2>5 DEF BegunInv
    <3> QED
      BY <1>1, <1>3, <3>1, <3>2, <3>3, FoundInv
  <2>6. CASE search.pc = "ceiling"
    <3>1. Found(search.ceiling)
      BY <2>1, <2>6 DEF Survived
    <3>2. Fits(search.ceiling)
      BY <1>5, <2>1, <2>6 DEF SizeInv
    <3>3. Precise => search.ceiling >= Reach
      BY <1>4, <1>7, <2>6 DEF BegunInv
    <3> QED
      BY <1>1, <1>3, <3>1, <3>2, <3>3, FoundInv
  <2>7. CASE search.pc = "narrow"
    <3>1. Narrow(search.size, search.high)
      BY <2>1, <2>7 DEF Survived
    <3>2. Precise => /\ Drops(search.high) /\ request.low <= search.size
                     /\ search.high <= search.limit
      BY <1>3, <1>4, <1>7, <2>7 DEF NarrowInv
    <3> QED
      BY <1>1, <1>3, <2>1, <3>1, <3>2, NarrowStep
  <2> QED
    BY <1>3, <2>3, <2>4, <2>5, <2>6, <2>7
<1> QED
  BY <1>1, <1>2, <1>10, <1>11 DEF Probe
-----------------------------------------------------------------------------
\* The inductive invariant: what the search knows of the path, from probe to bound and
\* from bound to report.
THEOREM Invariance == Spec => []IInv
<1>1. Init => IInv
  BY InitInv
<1>2. IInv /\ [Next]_vars => IInv'
  <2> SUFFICES ASSUME IInv, [Next]_vars
               PROVE  IInv'
    OBVIOUS
  <2>1. CASE Discover
    BY <2>1, DiscoverInv
  <2>2. CASE Probes
    BY <2>2, ProbesInv
  <2>3. CASE Tests
    BY <2>3, TestsInv
  <2>4. CASE Learns
    BY <2>4, LearnsInv
  <2>5. CASE Changes
    BY <2>5, ChangesInv
  <2>6. CASE UNCHANGED vars
    <3>1. UNCHANGED <<path, probe, lost, changed, broken, request, search, seen, stray, result>>
      BY <2>6 DEF vars, pingVars, mtuVars
    <3>2. search # None => SearchInv'
      <4>1. lost \in Nat /\ broken \in Nat
        BY DEF IInv, TypeOK
      <4> QED
        BY <3>1, <4>1, SearchKept
    <3>3. TypeOK' /\ NeverTooWide' /\ NeverTooNarrow'
      BY <3>1 DEF IInv, TypeOK, NeverTooWide, NeverTooNarrow, Tolerated, Reach
    <3>4. probe.state # "quiet" => ProbeInv'
      BY <3>1 DEF IInv, ProbeInv, Searching, Precise, FirstStage, Tolerated, Reach,
                  TriesLeft, Fits, Drops
    <3> QED
      BY <3>1, <3>2, <3>3, <3>4 DEF IInv, Mtu
  <2> QED
    BY <2>1, <2>2, <2>3, <2>4, <2>5, <2>6 DEF Next
<1> QED
  BY <1>1, <1>2, PTL DEF Spec

\* Type correctness.
THEOREM TypeCorrectness == Spec => []TypeOK
<1>1. IInv => TypeOK
  BY DEF IInv
<1> QED
  BY <1>1, Invariance, PTL

\* discover_mtu reports no size that no route has carried, whatever is lost, changes or
\* answers a ping in the destination's place, and in either search, unless a stray datagram
\* was taken for the answer to a datagram of just that size.
THEOREM NotTooWide == Spec => []NeverTooWide
<1>1. IInv => NeverTooWide
  BY DEF IInv
<1> QED
  BY <1>1, Invariance, PTL

\* discover_mtu reports no size below the widest it can tell of unless some route was as
\* narrow, as long as each size keeps one of its tries: for every tries=, not only the
\* few a run can count to.
THEOREM NotTooNarrow == Spec => []NeverTooNarrow
<1>1. IInv => NeverTooNarrow
  BY DEF IInv
<1> QED
  BY <1>1, Invariance, PTL
=============================================================================
