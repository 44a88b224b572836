----------------------------- MODULE MCResolver -----------------------------
(* The instance of Resolver that TLC checks: two callers, with requests that   *)
(* differ in what keeps a backend out of the chain.                           *)
EXTENDS Resolver, TLC

CONSTANTS c1, c2

MCCallers == {c1, c2}

\* Both families, and an error rather than an empty list when nobody could ask.
Plain == [rdtypes |-> <<"a", "aaaa">>, ns |-> "none", plain |-> TRUE, sources |-> 0,
          strict |-> TRUE, backends |-> <<"wire", "system">>]

\* One source address, which the wire backend honours and the OS resolver cannot.
Sourced == [Plain EXCEPT !.sources = 1]

\* One server is named: a backend that runs past its time, then one that does not.
Server == [Plain EXCEPT !.strict = FALSE, !.ns = "server",
                        !.backends = <<"nslookup", "dnspython">>]

MCRequests == {Plain, Sourced, Server}
MCSymmetry == Permutations(MCCallers)

MCDeadlines == {None, 1}
MCTtls == {0, MaxTime + 1}
=============================================================================
