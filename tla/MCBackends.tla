------------------------------- MODULE MCBackends -------------------------------
(*****************************************************************************)
(* Backends for TLC: with ns=, the wire backend and then nslookup; without, the *)
(* OS resolver and then nslookup.                                             *)
(*****************************************************************************)
EXTENDS Backends

MCChains ==
    {<<"wire", "nslookup">>, <<"system", "nslookup">>, <<"system", "system">>}
=============================================================================
