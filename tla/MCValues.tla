------------------------------ MODULE MCValues ------------------------------
(***************************************************************************)
(* Values on small inputs.  Labels: a number, a word and the word in upper   *)
(* case; names of up to three labels, an address being two numbers.          *)
(* Messages: all of up to five octets out of the ones that differ.  Two      *)
(* adapters that may share addresses, a MAC address and lack an index.       *)
(***************************************************************************)
EXTENDS Values, TLC

MCIndexOf == [name \in 0..2 |-> name]

One == [key |-> 1, upper |-> FALSE]
Word == [key |-> 2, upper |-> FALSE]
Upper == [key |-> 2, upper |-> TRUE]
Empty == [key |-> 0, upper |-> FALSE]

MCPeers ==
    {[labels |-> l, absolute |-> a] :
        l \in {<<One>>, <<Word>>, <<Upper>>, <<One, Word>>, <<Word, One>>,
               <<One, One>>, <<Word, Upper>>}, a \in BOOLEAN}

SmallPieces ==
    {[labels |-> l, absolute |-> a, text |-> TRUE] :
        l \in {<<>>, <<One>>, <<Word>>, <<One, One>>, <<One, Empty, Word>>,
               <<Upper, One, Word>>}, a \in BOOLEAN}
    \union {p @@ [text |-> FALSE] : p \in MCPeers}

MCPieces == {<<>>} \union {<<p>> : p \in SmallPieces}
            \union {<<p, q>> : p \in SmallPieces, q \in SmallPieces}

MCMessages == UNION {[1..n -> {0, 1, 2, LabelOctet(Word), Pointer}] : n \in 0..5}

MCEndpoints ==
    {[host |-> h.host, bare |-> h.bare, port |-> p] :
        h \in {[host |-> <<"name">>, bare |-> <<"name">>],
               [host |-> <<"v6">>, bare |-> <<"v6">>],
               [host |-> <<"[", "v6", "]">>, bare |-> <<"v6">>],
               [host |-> <<"[", "name", "]">>, bare |-> <<"name">>]},
        p \in {Port, NoPort}}

Bound(v, n) == [v6 |-> v, n |-> n, length |-> 2]

Entries == {Bound(FALSE, 1), Bound(FALSE, 8), Bound(TRUE, 1), Bound(TRUE, 8)}

FirstIPs == {<<>>} \union {<<e>> : e \in Entries}
    \union {<<Bound(v, 8), Bound(w, 1)>> : v \in BOOLEAN, w \in BOOLEAN}
    \union {<<Bound(v, 1), Bound(~v, 1)>> : v \in BOOLEAN}

SecondIPs == {<<>>, <<Bound(TRUE, 8)>>, <<Bound(FALSE, 1)>>,
              <<Bound(FALSE, 10), Bound(TRUE, 10), Bound(TRUE, 8)>>}

Adapter(name, index, mac, ips) ==
    [name |-> name, index |-> index, mac |-> mac, loopback |-> "unreported",
     ips |-> ips]

Degenerate == <<Adapter(0, 0, 0, <<Bound(FALSE, 1)>>)>>

MCEnumerations ==
    {Degenerate} \union
    {<<Adapter(1, 1, 1, i), Adapter(2, k, m, j)>> :
        i \in FirstIPs, j \in SecondIPs, k \in {0, 2}, m \in {1, 2}}

Zones == {[by |-> "none"], [by |-> "index", of |-> 2], [by |-> "name", of |-> 1]}

MCQueries ==
    {[kind |-> "mac", mac |-> 1], [kind |-> "name", name |-> 2],
     [kind |-> "name", name |-> 3], [kind |-> "invalid"],
     [kind |-> "network", v6 |-> TRUE, n |-> 8, length |-> 1],
     [kind |-> "interface", adapter |-> Adapter(2, 0, 2, <<Bound(TRUE, 8)>>)]}
    \union {[kind |-> "address", v6 |-> v, n |-> n, zone |-> z] :
                v \in BOOLEAN, n \in {1, 8, 10}, z \in Zones}

Rows == {[destination |-> n, length |-> l, gateway |-> g, adapter |-> a,
          up |-> u, reject |-> r] :
            n \in {0, 8}, l \in {0, 1}, g \in {0, 9}, a \in {1, 2},
            u \in BOOLEAN, r \in BOOLEAN}

\* The kernel lists only the rows that are up in the IPv4 table.
RowsOf(v6) ==
    {r \in Rows : (v6 \/ r.up) /\ (r.reject => r.gateway = 0)
                    /\ (r.length = 0 => r.destination = 0)}

MCTables ==
    UNION {{[v6 |-> v, rows |-> t] :
        t \in {<<>>} \union {<<r, q>> : r \in RowsOf(v), q \in RowsOf(v)}} :
        v \in BOOLEAN}
=============================================================================
