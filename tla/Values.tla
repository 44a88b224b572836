------------------------------- MODULE Values -------------------------------
(***************************************************************************)
(* What callers do with the values of netimps, step by step: a name is       *)
(* built from parts or read from a message and others are derived from it    *)
(* and sent; a host and a port become one text and are split again; a spec   *)
(* is reduced to an adapter and its address; a destination to a route.       *)
(***************************************************************************)
EXTENDS NameWire, HostText, Routing

CONSTANTS
    Pieces,         \* sequences of parts a name is built from
    Peers,          \* names an operation is given besides the one it is called on
    Messages,       \* messages not written by Encode
    Endpoints,      \* hosts, bracketed or not, with a port or none
    Enumerations,   \* what the system can report of its adapters
    Queries,        \* what an adapter is named by
    Tables,         \* routing tables, of IPv6 or not
    Addresses       \* the numbers of destinations

IsName(name) ==
    /\ name.labels # <<>> /\ Octets(name.labels) <= MaxName
    /\ \A i \in DOMAIN name.labels : name.labels[i].key # 0

ASSUME NamesGiven ==
    /\ Pieces \subseteq Seq([labels : Seq(Writable), absolute : BOOLEAN, text : BOOLEAN])
    /\ Peers \subseteq [labels : Seq(Writable), absolute : BOOLEAN]
    /\ \A p \in Peers : IsName(p)

ASSUME MessagesGiven == Messages \subseteq Seq(0..255)

\* A host is a name, with no colon in it, or an IPv6 address, in brackets or not.
ASSUME EndpointsGiven ==
    \A e \in Endpoints :
        /\ e.bare \in Seq({"name", "port", "big"}) \ {<<>>} \/ IsIPv6Literal(e.bare)
        /\ e.host \in {e.bare, <<"[">> \o e.bare \o <<"]">>}
        /\ e.port \in {Port, NoPort}

ASSUME AdaptersGiven ==
    /\ Enumerations \subseteq Seq(Interface)
    /\ Queries \subseteq Query

\* The kernel lists only the rows that are up in the IPv4 table.
ASSUME TablesGiven ==
    \A t \in Tables :
        /\ t.v6 \in BOOLEAN /\ t.rows \in Seq(Row)
        /\ t.v6 \/ \A i \in DOMAIN t.rows : t.rows[i].up

VARIABLE value

Nothing == {None, Bad}

ValuesInit ==
    \/ \E p \in Pieces : value = [kind |-> "parts", parts |-> p]
    \/ \E m \in Messages : \E offset \in 0..Len(m) :
          value = [kind |-> "reading", r |-> Reading(m, offset), sent |-> None]
    \/ \E e \in Endpoints : value = [kind |-> "endpoint", of |-> e]
    \/ \E e \in Enumerations, q \in Queries, want \in {"v4", "v6", "either"} :
       \E again \in {e} \union {d \in Enumerations : Degraded(d)}, strict \in BOOLEAN :
          value = [kind |-> "spec",
                   of |-> [adapters |-> e, again |-> again, query |-> q,
                           want |-> want, strict |-> strict]]
    \/ \E t \in Tables, n \in Addresses, resolved \in BOOLEAN :
       \E system \in {"linux", "bsd", "windows"} :
          value = [kind |-> "destination",
                   of |-> [table |-> t.rows, address |-> [v6 |-> t.v6, n |-> n],
                           system |-> system, resolved |-> resolved,
                           loopbackAdapter |-> 1]]

Named(name) == name \notin Nothing /\ value' = [kind |-> "name", name |-> name]

Build == value.kind = "parts" /\ Named(FQDN(value.parts))

Derive ==
    /\ value.kind = "name"
    /\ \/ Named(Domain(value.name))
       \/ Named(Reversed(value.name))
       \/ \E absolute \in BOOLEAN : Named(Qualified(value.name, absolute))
       \/ \E peer \in Peers :
             \/ Named(Under(value.name, peer))
             \/ Named(WithHostname(value.name, peer))
             \/ Named(RelativeTo(value.name, peer))
             \/ Named(CommonAncestor(value.name, peer))

\* The name goes into a message, alone or behind a peer whose last labels it
\* ends in and points at: into the peer itself, or at a pointer into it.
Send ==
    /\ value.kind = "name"
    /\ \/ value' = [kind |-> "reading", r |-> Reading(Encode(value.name), 0),
                    sent |-> [name |-> value.name, end |-> Len(Encode(value.name))]]
       \/ \E peer \in Peers : \E n \in 1..Len(peer.labels), chained \in BOOLEAN :
             LET own == SubSeq(value.name.labels, 1, Len(value.name.labels) - n)
                 at == 2 * (Len(peer.labels) - n)
                 before == Encode(peer) \o IF chained THEN <<Pointer, at>> ELSE <<>>
                 target == IF chained THEN Len(Encode(peer)) ELSE at
                 data == before \o LabelOctets(own) \o <<Pointer, target>>
             IN  /\ n <= Len(value.name.labels)
                 /\ Ending(value.name.labels, n) = Ending(peer.labels, n)
                 /\ value' = [kind |-> "reading",
                              r |-> Reading(data \o <<0>>, Len(before)),
                              sent |-> [name |-> value.name, end |-> Len(data)]]

Reads(r) == value' = [value EXCEPT !.r = r]

Follow == value.kind = "reading" /\ CanFollow(value.r) /\ Reads(Followed(value.r))

Take == value.kind = "reading" /\ CanTake(value.r) /\ Reads(Taken(value.r))

Finish ==
    /\ value.kind = "reading" /\ AtRoot(value.r)
    /\ value' = [kind |-> "decoded", name |-> Decoded(value.r),
                 end |-> EndOf(value.r), sent |-> value.sent]

Refuse ==
    /\ value.kind = "reading"
    /\ ~(CanFollow(value.r) \/ CanTake(value.r) \/ AtRoot(value.r))
    /\ value' = [kind |-> "decoded", name |-> Bad, end |-> -1, sent |-> value.sent]

Join ==
    /\ value.kind = "endpoint"
    /\ value' = [kind |-> "text", of |-> value.of,
                 joined |-> JoinHost(value.of.host, value.of.port)]

Split ==
    /\ value.kind = "text" /\ value.joined # Malformed
    /\ value' = [kind |-> "split", of |-> value.of,
                 alone |-> SplitHost(value.joined.text, NoPort),
                 beside |-> SplitPair(value.joined.text, value.of.port, NoPort)]

Select ==
    /\ value.kind = "spec"
    /\ value' =
        [kind |-> "selected", of |-> value.of,
         address |-> InterfaceAddress(value.of.adapters, value.of.again,
                        value.of.query, value.of.want, value.of.strict),
         index |-> InterfaceIndex(value.of.adapters, value.of.query,
                        value.of.strict)]

Look ==
    /\ value.kind = "destination"
    /\ value' =
        [kind |-> "route", of |-> value.of,
         route |-> GetRoute(value.of.system, value.of.table, value.of.resolved,
                            value.of.address, value.of.loopbackAdapter)]

ReadStep == Follow \/ Take \/ Finish \/ Refuse

ValuesNext == Build \/ Derive \/ Send \/ ReadStep \/ Join \/ Split \/ Select \/ Look

ValuesSpec == ValuesInit /\ [][ValuesNext]_value /\ WF_value(ReadStep)

-----------------------------------------------------------------------------
\* z holds the name n: some labels, none or more, come before z's.
Holding(z, n) ==
    \E k \in 0..Len(n.labels) :
        SubSeq(Key(n), k + 1, Len(n.labels)) = Key(z)

\* What derives from names, whatever the order of operations, is a name that
\* the relations between names agree on (_fqdn/_name.py): a name is at or under
\* exactly the domains its domains lists and itself, what is relative to a
\* domain goes back under it, the common ancestor is the nearest domain of both,
\* and sorting keeps every domain together.  It reads back from its own text,
\* except where the labels left read as an address.
NamesFormATree ==
    value.kind = "name" =>
      LET n == value.name
          ancestors == {n} \union ToSet(Domains(n))
      IN  /\ IsName(n)
          /\ FQDN(<<Text(n)>>) = IF ReadsAsAddress(n.labels) THEN Bad ELSE n
          /\ \A p \in Peers :
               LET above == {a \in ancestors : Holding(a, p)}
                   common == CommonAncestor(n, p)
               IN  /\ AtOrUnder(p, n) <=> Holding(p, n)
                   /\ AtOrUnder(p, n) <=> \E a \in ancestors : Key(a) = Key(p)
                   /\ IsSubdomainOf(n, p) <=> Holding(p, n) /\ Key(p) # Key(n)
                   /\ IsSubdomainOf(n, p) =>
                        Key(Under(p, RelativeTo(n, p))) = Key(n)
                   /\ IF above = {} THEN common = None
                      ELSE common \in above /\ \A a \in above : Holding(a, common)
                   /\ Less(n, p) \/ Less(p, n) \/ Same(n, p)
                   /\ ~(Less(n, p) /\ Less(p, n)) /\ (Same(n, p) => ~Less(n, p))
                   /\ \A q, z \in Peers :
                        Less(p, n) /\ Less(n, q) /\ Holding(z, p) /\ Holding(z, q)
                            => Holding(z, n)

\* A name read from a message is the one that was written there, fully
\* qualified, and the record goes on right after it, through whatever
\* compression the writer chose (read_labels, decode_at); of other messages
\* only names within the limits come out.
WireHoldsTheName ==
    value.kind = "decoded" =>
        IF value.sent = None
        THEN value.name # Bad => IsName(value.name) /\ value.name.absolute
        ELSE /\ value.name = Qualified(value.sent.name, TRUE)
             /\ value.end = value.sent.end

\* Every reading comes to an end, whatever its pointers point at (read_labels).
ReadingsEnd == value.kind = "reading" ~> value.kind = "decoded"

\* A host and its port come back from the text they were joined into, and the
\* same port beside that text changes nothing (join_host, split_host).
EndpointSurvivesItsText ==
    /\ value.kind = "text" /\ value.joined = Malformed =>
          ~IsIPv6Literal(value.of.bare) /\ value.of.host # value.of.bare
    /\ value.kind = "split" =>
          /\ value.alone = [host |-> value.of.bare, port |-> value.of.port]
          /\ value.beside = value.alone

\* The address and the index a spec is reduced to are those of one adapter the
\* spec names, of the family asked for, and link-local only where the adapter
\* has nothing better; without strict nothing is an error (interface_address,
\* interface_index, get_interface).
OneAdapter ==
    value.kind = "selected" =>
      LET s == value.of
          named == Interfaces(s.adapters, s.query)
          holders == {a \in named : Holds(a, value.address)}
          address == value.address \notin {NoAdapter, Failed}
          index == value.index \notin {NoAdapter, Failed}
      IN  /\ ~s.strict => Failed \notin {value.address, value.index}
          /\ s.strict => NoAdapter \notin {value.address, value.index}
          /\ index => \E a \in named : a.index = value.index.index /\ a.index # 0
          /\ s.strict /\ address =>
                /\ s.want # "either" => value.address.v6 = (s.want = "v6")
                /\ holders # {} \/ Degraded(s.again)
                /\ \A a \in holders : \A i \in DOMAIN a.ips :
                      s.query.kind # "address" /\ a = GetInterface(s.adapters, s.query, TRUE)
                        /\ a.ips[i].v6 = value.address.v6
                        /\ value.address.n \in LinkLocal =>
                            a.ips[i].n \in LinkLocal
          /\ s.strict /\ address /\ holders # {} /\ s.query.kind # "interface" =>
                IsLocalAddress(s.adapters,
                    [kind |-> "address", v6 |-> value.address.v6,
                     n |-> value.address.n, zone |-> [by |-> "none"]])
          /\ \A a \in named, v6 \in BOOLEAN :
                a.loopback = "unreported" /\ IsLoopback(a) =>
                    PrimaryIP(a, v6, FALSE) = NoAdapter
                        \/ PrimaryIP(a, v6, FALSE).n \in LinkLocal
          /\ s.strict /\ address /\ index /\ ~Degraded(s.adapters)
                /\ ~Degraded(s.again) =>
                \E a \in holders : a.index = value.index.index

\* The gateway and adapter found in the table are those the kernel would use,
\* rows it rejects with apart, and a destination is on link only where the
\* kernel hands packets to no gateway (_posix_next_hop, _parse_ipv6_route_table,
\* get_route).
RouteIsTheKernels ==
    value.kind = "route" =>
      LET d == value.of
          row == KernelRow(d.table, d.address.n)
          found == value.route
          byDefinition == d.address.n \in Loopback /\
                (d.system = "bsd" \/ (d.system = "linux" /\ ~d.address.v6))
      IN  IF ~d.resolved THEN found.onLink = "unknown"
          ELSE IF byDefinition THEN found.onLink = "yes"
          ELSE IF row = Unknowable THEN found.onLink = "unknown"
          ELSE ~row.reject =>
                /\ found.gateway = row.gateway
                /\ found.index = IndexOf[row.adapter]
                /\ found.onLink = IF row.gateway = 0 THEN "yes" ELSE "no"
=============================================================================
