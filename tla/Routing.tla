------------------------------ MODULE Routing ------------------------------
(***************************************************************************)
(* The next hop towards a destination (_sockets/_nexthop.py, _route.py): on  *)
(* Linux the routing table is read and searched here, elsewhere the kernel   *)
(* is asked.  A row is one line of the table: its destination and prefix     *)
(* length, the gateway (0 for none), the adapter and its flags.  The kernel  *)
(* lists rows of one prefix with the one it prefers first.                   *)
(***************************************************************************)
EXTENDS Selection

CONSTANT
    IndexOf     \* the index the system gives an adapter's name, 0 for none

Row ==
    [destination : Nat, length : 0..Bits, gateway : Nat, adapter : DOMAIN IndexOf,
     up : BOOLEAN, reject : BOOLEAN]

Unknowable == [error |-> TRUE]

Covers(row, n) == Net(n, row.length) = Net(row.destination, row.length)

\* Mutant: the last of several as long.
Best_LastOfEquals(rows, usable, n) ==
    LET covering == {i \in usable : Covers(rows[i], n)}
        better(i, j) == \/ rows[i].length > rows[j].length
                        \/ rows[i].length = rows[j].length /\ i > j
    IN  IF covering = {} THEN Unknowable
        ELSE rows[CHOOSE i \in covering : \A j \in covering \ {i} : better(i, j)]

\* Of the usable rows the longest prefix, and of several as long the first.
Best(rows, usable, n) ==
    LET covering == {i \in usable : Covers(rows[i], n)}
        better(i, j) == \/ rows[i].length > rows[j].length
                        \/ rows[i].length = rows[j].length /\ i < j
    IN  IF covering = {} THEN Unknowable
        ELSE rows[CHOOSE i \in covering : \A j \in covering \ {i} : better(i, j)]

Hop(row) ==
    IF row = Unknowable THEN Unknowable
    ELSE [gateway |-> row.gateway, index |-> IndexOf[row.adapter]]

\* /proc/net/route omits loopback, and its flags are not looked at.
PosixNextHop(table, n, loopbackAdapter) ==
    IF n \in Loopback
    THEN [gateway |-> 0, index |-> IndexOf[loopbackAdapter]]
    ELSE Hop(Best(table, DOMAIN table, n))

PosixNextHopV6(table, n) ==
    Hop(Best(table, {i \in DOMAIN table : table[i].up /\ ~table[i].reject}, n))

\* What the kernel does with a packet: of the rows that are up it takes the first of
\* the longest prefix, which may refuse it.
KernelRow(table, n) ==
    LET usable == {i \in DOMAIN table : table[i].up /\ Covers(table[i], n)}
        longest == {i \in usable : \A j \in usable : table[j].length <= table[i].length}
    IN  IF usable = {} THEN Unknowable ELSE table[Min(longest)]

\* `route -n get` and GetBestRoute2 ask the kernel.
AskedNextHop(table, n) ==
    LET row == KernelRow(table, n)
    IN  IF row = Unknowable \/ row.reject THEN Unknowable ELSE Hop(row)

BsdNextHop(table, n) ==
    IF n \in Loopback THEN [gateway |-> 0, index |-> 0] ELSE AskedNextHop(table, n)

\* get_route for an address; a name that does not resolve has none.
GetRoute(system, table, resolved, address, loopbackAdapter) ==
    LET answer ==
          IF ~resolved THEN Unknowable
          ELSE CASE system = "windows" -> AskedNextHop(table, address.n)
                 [] system = "bsd" -> BsdNextHop(table, address.n)
                 [] system = "linux" ->
                      IF address.v6 THEN PosixNextHopV6(table, address.n)
                      ELSE PosixNextHop(table, address.n, loopbackAdapter)
    IN  IF answer = Unknowable
        THEN [gateway |-> 0, index |-> 0, onLink |-> "unknown"]
        ELSE [gateway |-> answer.gateway, index |-> answer.index,
              onLink |-> IF answer.gateway = 0 THEN "yes" ELSE "no"]
=============================================================================
