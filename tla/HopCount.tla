------------------------------- MODULE HopCount -------------------------------
(***************************************************************************)
(* count_hops (_sockets/_hops.py): probes with a growing TTL, one after    *)
(* the other, and a raw socket that hands over whatever ICMP there is.     *)
(* Answers take their time, and nothing tells which probe one is for.      *)
(***************************************************************************)
EXTENDS Integers

CONSTANTS MaxHops,        \* max_hops=
          Silent          \* the hops that answer nothing

VARIABLES distance,       \* the hops to the destination
          tool,           \* what the system's traceroute would find; 0 is nothing
          raw, allowed,   \* whether raw sockets open, and allow_traceroute=
          pc, ttl,        \* the loop and the probe it is at
          skipped,        \* whether a probe could not be sent
          flying,         \* the answers on their way: from a router, or the destination
          result          \* 0 is None

vars == <<distance, tool, raw, allowed, pc, ttl, skipped, flying, result>>
given == <<distance, tool, raw, allowed>>

Init ==
    /\ distance \in 1..MaxHops
    /\ tool \in {0, distance}
    /\ raw \in BOOLEAN /\ allowed \in BOOLEAN
    /\ pc = "open" /\ ttl = 1 /\ skipped = FALSE
    /\ flying = {} /\ result = -1

\* The system's tool, run when raw sockets are not allowed and when they gave nothing.
Traceroute == result' = tool

Open ==
    /\ pc = "open"
    /\ IF raw THEN pc' = "send" /\ UNCHANGED result
       ELSE pc' = "done" /\ (IF allowed THEN Traceroute ELSE result' = 0)
    /\ UNCHANGED <<given, ttl, skipped, flying>>

\* A probe that cannot be sent is skipped; one that is draws an answer from the hop its
\* TTL reaches, unless that hop is silent.
AnswerTo(n) == IF n >= distance THEN "target" ELSE "router"
Send ==
    /\ pc = "send" /\ ttl <= MaxHops
    /\ \/ /\ pc' = "wait"
          /\ flying' = IF ttl \in Silent THEN flying ELSE flying \cup {<<ttl, AnswerTo(ttl)>>}
          /\ UNCHANGED <<ttl, skipped>>
       \/ /\ ttl' = ttl + 1 /\ skipped' = TRUE
          /\ UNCHANGED <<pc, flying>>
    /\ UNCHANGED <<given, result>>

\* Any answer ends the wait: the destination's ends the count, a router's goes on with the
\* next TTL.
Receive ==
    /\ pc = "wait"
    /\ \E a \in flying :
         /\ flying' = flying \ {a}
         /\ IF a[2] = "target"
            THEN pc' = "done" /\ result' = ttl /\ UNCHANGED ttl
            ELSE pc' = "send" /\ ttl' = ttl + 1 /\ UNCHANGED result
    /\ UNCHANGED <<given, skipped>>

\* The hop's time is up.
TimeOut ==
    /\ pc = "wait"
    /\ pc' = "send" /\ ttl' = ttl + 1
    /\ UNCHANGED <<given, skipped, flying, result>>

GiveUp ==
    /\ pc = "send" /\ ttl > MaxHops
    /\ pc' = "done"
    /\ IF allowed THEN Traceroute ELSE result' = 0
    /\ UNCHANGED <<given, ttl, skipped, flying>>

Next == Open \/ Send \/ Receive \/ TimeOut \/ GiveUp
Spec == Init /\ [][Next]_vars
-----------------------------------------------------------------------------
\* "Return the number of hops to dst", "destination itself answered: distance found": no
\* probe being lost or unsent, the TTL of the count is the destination's distance.
HopsAreDistance == result > 0 /\ ~skipped => result = distance
=============================================================================
