--------------------------- MODULE MCInterfaceCache ---------------------------
(* The instance of InterfaceCache that TLC checks: two threads, an adapter     *)
(* that appears and another that goes away.                                   *)
EXTENDS InterfaceCache, TLC

CONSTANTS t1, t2, plain, eth, tun

MCThreads == {t1, t2}
MCKeys == {plain}
MCIndexes == {eth, tun}

\* The fallback, then two states of the host.
MCPresent == 0 :> {} @@ 1 :> {eth} @@ 2 :> {tun}

\* Always stale, the default, and math.inf.
MCTtls == {0, TTL, MaxTime + 1}

MCSymmetry == Permutations(MCThreads)
=============================================================================
