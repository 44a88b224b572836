----------------------------- MODULE Selection -----------------------------
(***************************************************************************)
(* Naming a local adapter or address: Interface and its choice of an         *)
(* address (_ifaddrs/_model.py), the lookups over an enumeration             *)
(* (_ifaddrs/_lookup.py) and a spec reduced to an address or to an index     *)
(* (_ifaddrs/_spec.py).                                                      *)
(* An address is a family, a number of Bits bits and a zone; the constants   *)
(* say which numbers are loopback or link-local.  A query is its kind, as    *)
(* _classify_interface_query tells it, and what it wants.                    *)
(***************************************************************************)
EXTENDS Naturals, Sequences, FiniteSetsExt

CONSTANTS
    Bits,       \* of an address (32 and 128)
    Loopback, LinkLocal     \* disjoint sets of numbers

ASSUME SelectionAssumption ==
    /\ Bits \in Nat \ {0}
    /\ Loopback \union LinkLocal \subseteq 0..(2^Bits - 1)
    /\ Loopback \intersect LinkLocal = {}

IPInterface == [v6 : BOOLEAN, n : Nat, length : Nat]

Interface ==
    [name : Nat, index : Nat, mac : Nat, loopback : {"yes", "no", "unreported"},
     ips : Seq(IPInterface)]

\* An IPv6 zone names an adapter by its index or its name.
Zone == {[by |-> "none"]} \union [by : {"index", "name"}, of : Nat]

Query ==
    [kind : {"interface"}, adapter : Interface] \union [kind : {"invalid"}]
    \union [kind : {"mac"}, mac : Nat] \union [kind : {"name"}, name : Nat]
    \union [kind : {"index"}, index : Nat]
    \union [kind : {"address"}, v6 : BOOLEAN, n : Nat, zone : Zone]
    \union [kind : {"network"}, v6 : BOOLEAN, n : Nat, length : 0..Bits]

NoAdapter == [none |-> TRUE]
Failed == [error |-> TRUE]

Unknown == 0    \* the name "<unknown>" of a degraded enumeration

Net(n, length) == n \div 2^(Bits - length)

\* The places of ipv4 and of ipv6 among an adapter's addresses.
OfFamily(adapter, v6) == {i \in DOMAIN adapter.ips : adapter.ips[i].v6 = v6}

\* The flag the system reported, or a guess from the addresses.
IsLoopback(adapter) ==
    IF adapter.loopback # "unreported" THEN adapter.loopback = "yes"
    ELSE /\ \E i \in DOMAIN adapter.ips : adapter.ips[i].n \in Loopback
         /\ \A i \in DOMAIN adapter.ips :
                adapter.ips[i].n \in Loopback \union LinkLocal

\* Mutant: the first address of the family.
PrimaryIP_First(adapter, v6, loopbackOk) ==
    LET candidates == OfFamily(adapter, v6)
    IN  IF candidates = {} THEN NoAdapter ELSE adapter.ips[Min(candidates)]

\* Routable, then loopback, then link-local, in the system's order within each.
PrimaryIP(adapter, v6, loopbackOk) ==
    LET candidates == OfFamily(adapter, v6)
        loopback == {i \in candidates : adapter.ips[i].n \in Loopback}
        linkLocal == {i \in candidates : adapter.ips[i].n \in LinkLocal}
        routable == candidates \ (loopback \union linkLocal)
    IN  IF routable # {} THEN adapter.ips[Min(routable)]
        ELSE IF loopback # {} /\ loopbackOk THEN adapter.ips[Min(loopback)]
        ELSE IF linkLocal # {} THEN adapter.ips[Min(linkLocal)]
        ELSE NoAdapter

ZoneNames(adapter, zone) ==
    IF zone.by = "index" THEN adapter.index # 0 /\ adapter.index = zone.of
    ELSE adapter.name = zone.of

Holds(adapter, wanted) ==
    \E i \in DOMAIN adapter.ips :
        adapter.ips[i].v6 = wanted.v6 /\ adapter.ips[i].n = wanted.n

Matches(adapter, query) ==
    CASE query.kind = "mac" -> adapter.mac = query.mac
      [] query.kind = "name" -> adapter.name = query.name
      [] query.kind = "index" -> adapter.index = query.index
      [] query.kind = "address" ->
            /\ Holds(adapter, query)
            /\ query.zone.by = "none" \/ ZoneNames(adapter, query.zone)
      [] query.kind = "network" ->
            \E i \in DOMAIN adapter.ips :
                /\ adapter.ips[i].v6 = query.v6
                /\ Net(adapter.ips[i].n, query.length) = Net(query.n, query.length)

\* The places of the adapters a query matches, in the order of the enumeration.
Matching(adapters, query) ==
    IF query.kind \in {"interface", "invalid"} THEN {}
    ELSE {i \in DOMAIN adapters : Matches(adapters[i], query)}

Interfaces(adapters, query) ==
    IF query.kind = "interface" THEN {query.adapter}
    ELSE {adapters[i] : i \in Matching(adapters, query)}

\* The first match; an address nobody holds can stand for an adapter of its own.
GetInterface(adapters, query, strict) ==
    LET found == Matching(adapters, query)
    IN  IF query.kind = "interface" THEN query.adapter
        ELSE IF found # {} THEN adapters[Min(found)]
        ELSE IF strict \/ query.kind # "address" THEN NoAdapter
        ELSE [name |-> Unknown, index |-> 0, mac |-> 0, loopback |-> "unreported",
              ips |-> <<[v6 |-> query.v6, n |-> query.n, length |-> Bits]>>]

Degraded(adapters) == \E i \in DOMAIN adapters : adapters[i].name = Unknown

\* interface_address; the interfaces are enumerated again to ask whether the
\* enumeration is degraded.
InterfaceAddress(adapters, again, query, want, strict) ==
    LET none == IF strict THEN Failed ELSE NoAdapter
        found == GetInterface(adapters, query, TRUE)
        first == PrimaryIP(found, want = "v6", TRUE)
        chosen == IF first = NoAdapter /\ want = "either"
                  THEN PrimaryIP(found, TRUE, TRUE) ELSE first
    IN  CASE query.kind \in {"interface", "mac", "name"} ->
                IF found = NoAdapter \/ chosen = NoAdapter THEN none
                ELSE [v6 |-> chosen.v6, n |-> chosen.n]
          [] query.kind = "address" ->
                IF want # "either" /\ query.v6 # (want = "v6") /\ strict THEN none
                ELSE IF strict /\ found = NoAdapter /\ ~Degraded(again) THEN none
                ELSE [v6 |-> query.v6, n |-> query.n]
          [] OTHER -> none

InterfaceIndex(adapters, query, strict) ==
    LET none == IF strict THEN Failed ELSE NoAdapter
        found == GetInterface(adapters, query, TRUE)
    IN  IF query.kind \notin {"interface", "mac", "name", "address"} THEN none
        ELSE IF found = NoAdapter \/ found.index = 0 THEN none
        ELSE [index |-> found.index]

IsLocalAddress(adapters, query) ==
    query.n \in Loopback \/ Interfaces(adapters, query) # {}

=============================================================================
