----------------------------- MODULE BackendsProofs -----------------------------
(*****************************************************************************)
(* For any servers, names, timeout, chains and deadlines: type correctness of a *)
(* call that asks the backends, that the wire backend keeps to its timeout and   *)
(* reaches every server, that the deadline holds for all of them, that an empty   *)
(* answer rests on denials, and what a call leaves running at most.             *)
(*                                                                           *)
(* The first argument is about timers: one backend is in progress at a time,     *)
(* what it blocks in has a timer that was set from what the limit of the attempt  *)
(* leaves, and the limit is within the deadline.  The time of a server that says *)
(* nothing is less than what is left, because another server comes after it.     *)
(* The second, on top of it, is about what the attempts have gathered: the names *)
(* denied so far, and for each turn that is over at most one thread.            *)
(*****************************************************************************)
EXTENDS Backends, FiniteSetTheorems, TLAPS

\* One backend is in progress at a time, and none once the attempt has its answer.
Active ==
    /\ wire # "idle" => asking /\ answer = None /\ system = "idle" /\ run = "idle"
    /\ system # "idle" => asking /\ answer = None /\ run = "idle"
    /\ run # "idle" => asking /\ answer = None
    /\ asking => result = None /\ step <= Len(chain)

\* What a backend blocks for is one of the names, and one of the servers.
Placed ==
    /\ Exchanging => name <= Names /\ server <= Servers
    /\ system = "get" => name <= Names
    /\ run \in {"communicate", "drain", "wait"} => name <= Names

\* The exchange ends within the limit, and the socket's timeout with it.
WireTimers ==
    /\ wire # "idle" /\ end # None => limit <= end
    /\ Exchanging => timer = until /\ now <= until /\ until <= limit + Floor
    /\ Exchanging /\ ~again => until <= limit
    /\ wire = "listen" => until <= limit
    /\ wire = "ask" => now <= limit + Floor
    /\ wire = "ask" /\ ~again => now <= limit

\* For the first name, before any reply was truncated, a server that is not the last
\* leaves time for the next.
TimeIsLeft ==
    Exchanging /\ name = 1 /\ ~again /\ server < Servers => until < limit

SystemTimers ==
    /\ system = "look" /\ end # None => now <= end
    /\ system = "get" => now <= expiry /\ (end # None => expiry <= end)

ChildTimers ==
    /\ run = "start" /\ end # None => now <= end + Reap
    /\ run = "communicate" => now <= alarm /\ (end # None => alarm <= end)
    /\ run = "drain" => now <= alarm /\ (end # None => alarm <= end + Reap)

IInv ==
    /\ TypeOK /\ Active /\ Placed
    /\ WireTimers /\ TimeIsLeft /\ SilenceIsShared
    /\ SystemTimers /\ ChildTimers /\ NoProcessRunsOn

USE AttemptAssumption, WireAssumption, ChildAssumption, BackendsAssumption
-----------------------------------------------------------------------------
\* A part of what is left is not more than what is left,
LEMMA DivNat ==
    ASSUME NEW a \in Nat, NEW b \in Nat \ {0}
    PROVE  a \div b \in Nat /\ a \div b <= a
BY SMTT(30)

\* and a half or less of it is less.
LEMMA DivLess ==
    ASSUME NEW a \in Nat \ {0}, NEW b \in Nat, b >= 2
    PROVE  a \div b < a
BY SMTT(30)

\* A timer set while the deadline has not passed is due later, and by the deadline.
LEMMA ExpiryBounds ==
    ASSUME AttemptTypeOK, ~Passed
    PROVE  /\ Expiry \in Nat /\ now < Expiry
           /\ end # None => Expiry <= end
<1>1. CASE end = None
  BY <1>1 DEF AttemptTypeOK, Expiry
<1>2. CASE end # None
  BY <1>2 DEF AttemptTypeOK, Expiry, Passed, Least
<1> QED
  BY <1>1, <1>2

\* A server has at most what is left, and less if it is not the last.
LEMMA ShareBounds ==
    ASSUME AttemptTypeOK, WireTypeOK, server <= Servers, now < limit
    PROVE  /\ Share \in Nat
           /\ now + Share <= limit
           /\ server < Servers => now + Share < limit
<1> DEFINE left == limit - now
           shares == Servers - server + 1
<1>1. left \in Nat \ {0} /\ now + left = limit
  BY DEF AttemptTypeOK, WireTypeOK
<1>2. shares \in Nat \ {0} /\ (server < Servers => shares >= 2)
  BY DEF WireTypeOK
<1>3. left \div shares \in Nat /\ left \div shares <= left
  BY <1>1, <1>2, DivNat
<1>4. server < Servers => left \div shares < left
  BY <1>1, <1>2, DivLess
<1>5. Share = left \div shares
  BY DEF Share
<1> HIDE DEF left, shares
<1>6. now \in Nat /\ limit \in Nat
  BY DEF AttemptTypeOK, WireTypeOK
<1> QED
  BY <1>1, <1>3, <1>4, <1>5, <1>6

-----------------------------------------------------------------------------
\* No backend has been asked when a call starts.
LEMMA InitIInv == Init => IInv
<1> SUFFICES ASSUME Init PROVE IInv
  OBVIOUS
<1> USE DEF Init, WireInit, SystemInit, ChildInit
<1>1. AttemptTypeOK /\ WireTypeOK /\ SystemTypeOK
  <2>1. AttemptTypeOK
    BY DEF AttemptTypeOK
  <2>2. WireTypeOK
    <3>1. wire = "idle" /\ server \in 1..Servers + 1 /\ last = "none"
      OBVIOUS
    <3>2. limit \in Nat /\ until \in Nat /\ timer \in Nat
      OBVIOUS
    <3>3. answered \in BOOLEAN /\ again \in BOOLEAN
      OBVIOUS
    <3> QED
      BY <3>1, <3>2, <3>3 DEF WireTypeOK
  <2>3. SystemTypeOK
    BY DEF SystemTypeOK
  <2> QED
    BY <2>1, <2>2, <2>3
<1>2. TypeOK
  <2>1. ChildTypeOK
    BY DEF ChildTypeOK
  <2>2. step \in 1..Len(chain) + 1
    <3>1. chain \in Seq({"wire", "system", "nslookup"})
      OBVIOUS
    <3>2. Len(chain) \in Nat
      BY <3>1
    <3> QED
      BY <3>2
  <2> QED
    <3>1. now <= MaxTime /\ chain \in Chains
      OBVIOUS
    <3>2. asking \in BOOLEAN /\ empty \in BOOLEAN /\ result = None
      OBVIOUS
    <3> QED
      BY <1>1, <2>1, <2>2, <3>1, <3>2 DEF TypeOK
<1>3. Active /\ Placed
  BY DEF Active, Placed, Exchanging
<1>4. WireTimers /\ TimeIsLeft /\ SilenceIsShared
  BY DEF WireTimers, TimeIsLeft, SilenceIsShared, Exchanging
<1>5. SystemTimers /\ ChildTimers /\ NoProcessRunsOn
  BY DEF SystemTimers, ChildTimers, NoProcessRunsOn
<1> QED
  BY <1>2, <1>3, <1>4, <1>5 DEF IInv
-----------------------------------------------------------------------------
(* The wire backend.                                                         *)

\* What a step of it establishes, and what it leaves alone.
WireDone ==
    /\ AttemptTypeOK' /\ WireTypeOK'
    /\ now' = now /\ end' = end
    /\ wire # "idle" /\ (wire' # "idle" => answer' = answer)
    /\ Exchanging' => name' <= Names /\ server' <= Servers
    /\ WireTimers' /\ TimeIsLeft' /\ SilenceIsShared'

\* A step of resolve_wire keeps the exchange within the limit, and the limit in time.
LEMMA WireKeeps == ASSUME IInv, WireNext PROVE WireDone
<1> USE DEF IInv, attempt, Outcomes
<1>1. AttemptTypeOK /\ WireTypeOK
  BY DEF TypeOK
<1>2. /\ WireTimers /\ TimeIsLeft /\ SilenceIsShared
      /\ Exchanging => name <= Names /\ server <= Servers
  BY DEF Placed
<1> USE DEF WireDone, WireTimers, TimeIsLeft, SilenceIsShared, Exchanging, AttemptTypeOK,
       WireTypeOK
<1>3. CASE Ask
  BY <1>1, <1>2, <1>3, ShareBounds DEF Ask
<1>4. CASE OutOfTime
  BY <1>1, <1>2, <1>4 DEF OutOfTime, WireEnds, Ends
<1>5. CASE Unasked
  BY <1>1, <1>2, <1>5 DEF Unasked, NextServer
<1>6. CASE Unanswered
  BY <1>1, <1>2, <1>6 DEF Unanswered, NextName
<1>7. CASE Silence
  BY <1>1, <1>2, <1>7 DEF Silence, NextServer
<1>8. CASE Conclude
  BY <1>1, <1>2, <1>8 DEF Conclude, WireEnds, Ends, Outcome
<1>9. CASE MoreToCome
  BY <1>1, <1>2, <1>9 DEF MoreToCome, Rearmed
<1>10. CASE Proceed
  BY <1>1, <1>2, <1>10 DEF Proceed, Rearmed
<1>11. CASE Breaks
  BY <1>1, <1>2, <1>11 DEF Breaks, NextServer
<1>12. CASE Truncated
  BY <1>1, <1>2, <1>12 DEF Truncated, Retried, Greatest
<1>13. CASE HasRecords
  BY <1>1, <1>2, <1>13 DEF HasRecords, WireEnds, Ends
<1>14. CASE HasNone
  BY <1>1, <1>2, <1>14 DEF HasNone, Denied
<1> QED
  BY <1>3, <1>4, <1>5, <1>6, <1>7, <1>8, <1>9, <1>10, <1>11, <1>12, <1>13,
     <1>14 DEF WireNext, WireCaller
-----------------------------------------------------------------------------
(* The OS resolver.                                                          *)

SystemDone ==
    /\ AttemptTypeOK' /\ SystemTypeOK'
    /\ now' = now /\ end' = end
    /\ system # "idle" => (system' # "idle" => answer' = answer)
    /\ system = "idle" => system' = "idle" /\ UNCHANGED attempt
    /\ system' = "get" => name' <= Names
    /\ SystemTimers'

\* A step of resolve_system keeps the wait for a thread within the deadline.
LEMMA SystemKeeps == ASSUME IInv, SystemNext PROVE SystemDone
<1> USE DEF attempt, Outcomes, Lookups
<1>1. AttemptTypeOK /\ SystemTypeOK /\ SystemTimers /\ (system = "get" => name <= Names)
  BY DEF IInv, TypeOK, Placed
<1> USE DEF SystemDone, SystemTimers, AttemptTypeOK, SystemTypeOK
<1>2. CASE Look
  BY <1>1, <1>2, ExpiryBounds DEF Look
<1>3. CASE TooLate
  BY <1>1, <1>3 DEF TooLate, SystemEnds, Ends
<1>4. CASE Get
  <2>1. CASE thread = "none" /\ Denied /\ system' = "look" /\ thread' = None
    <3>1. denied \cup {name} \subseteq 1..Names /\ name + 1 \in 1..Names + 1
      BY <1>1, <1>4 DEF Get
    <3> QED
      BY <1>1, <1>4, <2>1, <3>1 DEF Get, Denied
  <2>2. CASE \E outcome \in Outcomes : SystemEnds(outcome)
    BY <1>1, <1>4, <2>2 DEF Get, SystemEnds, Ends
  <2> QED
    BY <1>4, <2>1, <2>2 DEF Get
<1>5. CASE Abandon
  BY <1>1, <1>5 DEF Abandon, Expired, SystemEnds, Ends
<1>6. CASE Exhausted
  BY <1>1, <1>6 DEF Exhausted, SystemEnds, Ends
<1>7. CASE Put
  BY <1>1, <1>7 DEF Put
<1> QED
  BY <1>2, <1>3, <1>4, <1>5, <1>6, <1>7 DEF SystemNext, SystemCaller

-----------------------------------------------------------------------------
(* nslookup.                                                                 *)

ChildDone ==
    /\ AttemptTypeOK' /\ ChildTypeOK'
    /\ now' = now /\ end' = end
    /\ run # "idle" => (run' # "idle" => answer' = answer)
    /\ run = "idle" => run' = "idle" /\ UNCHANGED attempt
    /\ run' \in {"communicate", "drain", "wait"} => name' <= Names
    /\ ChildTimers' /\ NoProcessRunsOn'

\* A step of nslookup, or of a process it started, keeps the runner within the deadline
\* and lets nothing run on.
LEMMA ChildKeeps == ASSUME IInv, ChildNext PROVE ChildDone
<1> USE DEF attempt, Outcomes
<1>1. AttemptTypeOK /\ ChildTypeOK /\ ChildTimers /\ NoProcessRunsOn
      /\ (run \in {"communicate", "drain", "wait"} => name <= Names)
  BY DEF IInv, TypeOK, Placed
<1> USE DEF ChildDone, ChildTimers, AttemptTypeOK, ChildTypeOK, NoProcessRunsOn
<1>2. CASE Spawn
  BY <1>1, <1>2, ExpiryBounds DEF Spawn
<1>3. CASE NotSpawned
  BY <1>1, <1>3 DEF NotSpawned, Fails, NextName
<1>4. CASE Collect
  <2>1. /\ name \in 1..Names /\ name + 1 \in 1..Names + 1
        /\ denied \cup {name} \subseteq 1..Names
    <3>1. name \in Nat /\ 1 <= name /\ name <= Names /\ denied \subseteq 1..Names
      BY <1>1, <1>4 DEF Collect
    <3> QED
      BY <3>1
  <2>2. child' \in [1..Names -> {"none", "running", "killed", "exited", "reaped"}]
    BY <1>1, <1>4, <2>1 DEF Collect
  <2>3. NoProcessRunsOn' /\ now' = now /\ end' = end
    BY <1>1, <1>4, <2>1 DEF Collect, AllGone, Fails, NextName, Denied, Ends
  <2>4. ChildTimers'
    BY <1>1, <1>4, <2>3 DEF Collect, Fails
  <2>5. CASE run' = "idle" /\ Ends("records") /\ UNCHANGED failure
    BY <1>1, <1>4, <2>2, <2>3, <2>4, <2>5 DEF Collect, Ends
  <2>6. CASE run' = "start" /\ Denied /\ UNCHANGED failure
    BY <1>1, <1>4, <2>1, <2>2, <2>3, <2>4, <2>6 DEF Collect, Denied
  <2>7. CASE Fails
    BY <1>1, <1>4, <2>1, <2>2, <2>3, <2>4, <2>7 DEF Collect, Fails, NextName
  <2> QED
    BY <1>4, <2>5, <2>6, <2>7 DEF Collect
<1>5. CASE Expire
  BY <1>1, <1>5 DEF Expire, KillTree, Signalled
<1>6. CASE Drained
  BY <1>1, <1>6 DEF Drained, AllGone, Fails, NextName
<1>7. CASE Waited
  BY <1>1, <1>7 DEF Waited, Ends
<1>8. CASE AllTried
  BY <1>1, <1>8 DEF AllTried, Verdict, Ends
<1>9. CASE Interrupt
  BY <1>1, <1>9 DEF Interrupt, KillTree, Signalled
<1>10. CASE InterruptDrain
  BY <1>1, <1>10 DEF InterruptDrain, Ends
<1>11. ASSUME NEW n \in 1..Names, Fork(n) \/ ChildExits(n) \/ KinExits(n)
       PROVE  ChildDone
  BY <1>1, <1>11 DEF Fork, ChildExits, KinExits
<1> QED
  BY <1>2, <1>3, <1>4, <1>5, <1>6, <1>7, <1>8, <1>9, <1>10, <1>11 DEF ChildNext, ChildCaller

-----------------------------------------------------------------------------
(* The chain and the clock.                                                  *)

\* Between two attempts there is nothing in progress to keep in time.
LEMMA IdleKeeps ==
    ASSUME IInv, UNCHANGED <<now, end, wireVars, systemVars, childVars>>,
           wire = "idle", system = "idle", run = "idle", ~asking'
    PROVE  /\ Active' /\ Placed' /\ WireTimers' /\ TimeIsLeft' /\ SilenceIsShared'
           /\ SystemTimers' /\ ChildTimers' /\ NoProcessRunsOn'
BY DEF IInv, Active, Placed, WireTimers, TimeIsLeft, SilenceIsShared, SystemTimers,
       ChildTimers, NoProcessRunsOn, Exchanging, wireVars, systemVars, childVars

\* Whatever leaves the variables of a component alone keeps their types.
LEMMA TypesKept ==
    ASSUME TypeOK
    PROVE  /\ UNCHANGED wireVars => WireTypeOK'
           /\ UNCHANGED systemVars => SystemTypeOK'
           /\ UNCHANGED childVars => ChildTypeOK'
           /\ UNCHANGED attempt => AttemptTypeOK'
BY ZenonT(30) DEF TypeOK, WireTypeOK, SystemTypeOK, ChildTypeOK, AttemptTypeOK, wireVars, systemVars,
       childVars, attempt

ChainTypeOK ==
    /\ chain \in Chains
    /\ step \in 1..Len(chain) + 1
    /\ asking \in BOOLEAN /\ empty \in BOOLEAN
    /\ result \in {None, "records", "empty", "outage", "raised"}

\* The chain asks the next backend when the last has its answer.
LEMMA ChainKeeps == ASSUME IInv, Chain PROVE IInv'
<1> USE DEF IInv
<1>1. TypeOK /\ ChainTypeOK
  BY DEF TypeOK, ChainTypeOK
<1>2. Len(chain) \in Nat
  <2>1. chain \in Seq({"wire", "system", "nslookup"})
    BY <1>1 DEF ChainTypeOK
  <2> QED
    BY <2>1
<1>3. CASE Tries
  <2>1. wire = "idle" /\ system = "idle" /\ run = "idle"
    BY <1>1, <1>3 DEF Tries, Active
  <2>2. /\ AttemptTypeOK' /\ ChainTypeOK' /\ now' = now /\ end' = end
        /\ name' = 1 /\ answer' = None /\ asking' = TRUE
    BY <1>1, <1>3 DEF Tries, Fresh, TypeOK, AttemptTypeOK, ChainTypeOK
  <2>3. /\ Expiry \in Nat /\ now < Expiry
        /\ end # None => Expiry <= end
    BY <1>1, <1>3, ExpiryBounds DEF TypeOK, Tries
  <2>4. now \in Nat /\ end \in Nat \cup {None} /\ (end # None => now < end)
    BY <1>1, <1>3, <2>3 DEF TypeOK, AttemptTypeOK
  <2>5. result' = None /\ step' <= Len(chain')
    BY <1>1, <1>2, <1>3 DEF Tries, Asked
  <2>6. CASE WireStarts /\ UNCHANGED <<systemVars, childVars>>
    <3>1. WireTypeOK'
      <4>1. wire' = "ask" /\ server' \in 1..Servers + 1 /\ last' = "none"
        BY <2>6 DEF WireStarts
      <4>2. limit' \in Nat /\ until' \in Nat /\ timer' \in Nat
        BY <1>1, <2>3, <2>6 DEF WireStarts, TypeOK, WireTypeOK
      <4>3. answered' \in BOOLEAN /\ again' \in BOOLEAN
        BY <2>6 DEF WireStarts
      <4> QED
        BY <4>1, <4>2, <4>3 DEF WireTypeOK
    <3>2. SystemTypeOK' /\ ChildTypeOK'
      BY <1>1, <2>6, TypesKept
    <3>3. /\ Active' /\ Placed' /\ SystemTimers' /\ ChildTimers'
          /\ NoProcessRunsOn'
      BY <2>1, <2>2, <2>5, <2>6 DEF Active, Placed, SystemTimers, ChildTimers,
         NoProcessRunsOn, Exchanging, WireStarts, systemVars, childVars
    <3>4. WireTimers' /\ TimeIsLeft' /\ SilenceIsShared'
      BY <2>2, <2>3, <2>4, <2>6 DEF WireTimers, TimeIsLeft, SilenceIsShared, Exchanging,
         WireStarts
    <3> QED
      BY <1>1, <2>2, <3>1, <3>2, <3>3, <3>4 DEF TypeOK, ChainTypeOK
  <2>7. CASE SystemStarts /\ UNCHANGED <<wireVars, childVars>>
    <3>1. WireTypeOK' /\ SystemTypeOK' /\ ChildTypeOK'
      BY <1>1, <2>7, TypesKept DEF TypeOK, SystemStarts, SystemTypeOK
    <3>2. /\ Active' /\ Placed' /\ WireTimers' /\ TimeIsLeft' /\ SilenceIsShared'
          /\ ChildTimers' /\ NoProcessRunsOn'
      BY <2>1, <2>2, <2>5, <2>7 DEF Active, Placed, WireTimers, TimeIsLeft,
         SilenceIsShared, ChildTimers, NoProcessRunsOn, Exchanging, SystemStarts,
         wireVars, childVars
    <3>3. SystemTimers'
      BY <2>2, <2>4, <2>7 DEF SystemTimers, SystemStarts
    <3> QED
      BY <1>1, <2>2, <3>1, <3>2, <3>3 DEF TypeOK, ChainTypeOK
  <2>8. CASE ChildStarts /\ UNCHANGED <<wireVars, systemVars>>
    <3>1. WireTypeOK' /\ SystemTypeOK' /\ ChildTypeOK'
      BY <1>1, <2>8, TypesKept DEF TypeOK, ChildStarts, ChildTypeOK
    <3>2. /\ Active' /\ Placed' /\ WireTimers' /\ TimeIsLeft' /\ SilenceIsShared'
          /\ SystemTimers' /\ NoProcessRunsOn'
      BY <2>1, <2>2, <2>5, <2>8 DEF Active, Placed, WireTimers, TimeIsLeft,
         SilenceIsShared, SystemTimers, NoProcessRunsOn, Exchanging, ChildStarts,
         wireVars, systemVars
    <3>3. ChildTimers'
      BY <2>2, <2>4, <2>8 DEF ChildTimers, ChildStarts
    <3> QED
      BY <1>1, <2>2, <3>1, <3>2, <3>3 DEF TypeOK, ChainTypeOK
  <2> QED
    BY <1>3, <2>6, <2>7, <2>8 DEF Tries
<1>4. CASE Skips \/ Concludes \/ Returns
  <2>1. Rest
    BY <1>4 DEF Skips, Concludes, Returns
  <2>2. ChainTypeOK'
    <3>1. CASE Skips
      BY <1>1, <1>2, <3>1 DEF Skips, Rest, ChainTypeOK
    <3>2. CASE Concludes
      <4>1. step <= Len(chain)
        BY <3>2 DEF Concludes, Active
      <4>2. chain' = chain /\ asking' \in BOOLEAN
        BY <3>2 DEF Concludes, Rest
      <4>3. CASE answer \in {"records", "raised"}
        BY <1>1, <3>2, <4>2, <4>3 DEF Concludes, ChainTypeOK
      <4>4. CASE answer \notin {"records", "raised"}
        BY <1>1, <1>2, <3>2, <4>1, <4>2, <4>4 DEF Concludes, ChainTypeOK
      <4> QED
        BY <4>3, <4>4
    <3>3. CASE Returns
      BY <1>1, <1>2, <3>3 DEF Returns, Rest, ChainTypeOK
    <3> QED
      BY <1>4, <3>1, <3>2, <3>3
  <2>3. TypeOK'
    BY <1>1, <2>1, <2>2, TypesKept DEF Rest, TypeOK, ChainTypeOK, attempt
  <2>4. wire = "idle" /\ system = "idle" /\ run = "idle" /\ ~asking'
    <3>1. CASE Skips
      BY <3>1 DEF Skips, Active
    <3>2. CASE Concludes
      BY <3>2 DEF Concludes, Active
    <3>3. CASE Returns
      BY <1>1, <1>2, <3>3 DEF Returns, Active, ChainTypeOK
    <3> QED
      BY <1>4, <3>1, <3>2, <3>3
  <2>5. UNCHANGED <<now, end, wireVars, systemVars, childVars>>
    BY <2>1 DEF Rest, attempt
  <2> QED
    BY <2>3, <2>4, <2>5, IdleKeeps
<1> QED
  BY <1>3, <1>4 DEF Chain

\* A step of the wire backend finds the other two idle.
LEMMA WireStepKeeps == ASSUME IInv, Wire PROVE IInv'
<1>1. WireDone /\ UNCHANGED <<systemVars, childVars, chainVars>>
  BY WireKeeps DEF Wire
<1>2. asking /\ answer = None /\ system = "idle" /\ run = "idle"
  BY <1>1 DEF IInv, Active, WireDone
<1>3. TypeOK'
  BY <1>1, TypesKept DEF IInv, TypeOK, WireDone, chainVars
<1>4. Active' /\ Placed'
  BY <1>1, <1>2 DEF IInv, Active, Placed, WireDone, chainVars, systemVars, childVars
<1>5. SystemTimers' /\ ChildTimers' /\ NoProcessRunsOn'
  BY <1>1, <1>2 DEF IInv, SystemTimers, ChildTimers, NoProcessRunsOn, systemVars, childVars
<1> QED
  BY <1>1, <1>3, <1>4, <1>5 DEF IInv, WireDone

\* A thread that was abandoned may go on in any state; else the others are idle.
LEMMA SystemStepKeeps == ASSUME IInv, System PROVE IInv'
<1>1. SystemDone /\ UNCHANGED <<wireVars, childVars, chainVars>>
  BY SystemKeeps DEF System
<1>2. TypeOK'
  BY <1>1, TypesKept DEF IInv, TypeOK, SystemDone, chainVars
<1>3. CASE system # "idle"
  <2>1. asking /\ answer = None /\ wire = "idle" /\ run = "idle"
    BY <1>3 DEF IInv, Active
  <2>2. Active' /\ Placed'
    BY <1>1, <1>3, <2>1 DEF IInv, Active, Placed, Exchanging, SystemDone, chainVars,
       wireVars, childVars
  <2>3. /\ WireTimers' /\ TimeIsLeft' /\ SilenceIsShared'
        /\ ChildTimers' /\ NoProcessRunsOn'
    BY <1>1, <2>1 DEF IInv, WireTimers, TimeIsLeft, SilenceIsShared, Exchanging,
       ChildTimers, NoProcessRunsOn, wireVars, childVars
  <2> QED
    BY <1>1, <1>2, <2>2, <2>3 DEF IInv, SystemDone
<1>4. CASE system = "idle"
  <2>1. system' = "idle" /\ UNCHANGED <<attempt, wireVars, childVars, chainVars>>
    BY <1>1, <1>4 DEF SystemDone
  <2>2. Active' /\ Placed'
    BY <1>4, <2>1 DEF IInv, Active, Placed, Exchanging, attempt, chainVars, wireVars,
       childVars
  <2>3. /\ WireTimers' /\ TimeIsLeft' /\ SilenceIsShared'
        /\ ChildTimers' /\ NoProcessRunsOn'
    BY <2>1 DEF IInv, WireTimers, TimeIsLeft, SilenceIsShared, Exchanging,
       ChildTimers, NoProcessRunsOn, attempt, wireVars, childVars
  <2> QED
    BY <1>1, <1>2, <2>2, <2>3 DEF IInv, SystemDone
<1> QED
  BY <1>3, <1>4

\* A process that was killed may die in any state; else the others are idle.
LEMMA ChildStepKeeps == ASSUME IInv, Child PROVE IInv'
<1>1. ChildDone /\ UNCHANGED <<wireVars, systemVars, chainVars>>
  BY ChildKeeps DEF Child
<1>2. TypeOK'
  BY <1>1, TypesKept DEF IInv, TypeOK, ChildDone, chainVars
<1>3. CASE run # "idle"
  <2>1. asking /\ answer = None /\ wire = "idle" /\ system = "idle"
    BY <1>3 DEF IInv, Active
  <2>2. Active' /\ Placed'
    BY <1>1, <1>3, <2>1 DEF IInv, Active, Placed, Exchanging, ChildDone, chainVars,
       wireVars, systemVars
  <2>3. WireTimers' /\ TimeIsLeft' /\ SilenceIsShared' /\ SystemTimers'
    BY <1>1, <2>1 DEF IInv, WireTimers, TimeIsLeft, SilenceIsShared, Exchanging,
       SystemTimers, wireVars, systemVars
  <2> QED
    BY <1>1, <1>2, <2>2, <2>3 DEF IInv, ChildDone
<1>4. CASE run = "idle"
  <2>1. run' = "idle" /\ UNCHANGED <<attempt, wireVars, systemVars, chainVars>>
    BY <1>1, <1>4 DEF ChildDone
  <2>2. Active' /\ Placed'
    BY <1>4, <2>1 DEF IInv, Active, Placed, Exchanging, attempt, chainVars, wireVars,
       systemVars
  <2>3. WireTimers' /\ TimeIsLeft' /\ SilenceIsShared' /\ SystemTimers'
    BY <2>1 DEF IInv, WireTimers, TimeIsLeft, SilenceIsShared, Exchanging,
       SystemTimers, attempt, wireVars, systemVars
  <2> QED
    BY <1>1, <1>2, <2>2, <2>3 DEF IInv, ChildDone
<1> QED
  BY <1>3, <1>4

\* The clock stops at the timer of what is blocked in.
LEMMA TickKeeps == ASSUME IInv, Tick PROVE IInv'
<1> USE DEF IInv
<1>1. TypeOK /\ now \in Nat /\ MaxTime \in Nat
  BY DEF TypeOK, AttemptTypeOK
<1>2. /\ now' = now + 1 /\ now < MaxTime
      /\ UNCHANGED <<end, name, denied, answer, wireVars, systemVars, childVars, chainVars>>
  BY DEF Tick
<1>3. TypeOK'
  <2>1. AttemptTypeOK' /\ now' <= MaxTime
    BY <1>1, <1>2 DEF TypeOK, AttemptTypeOK
  <2> QED
    BY <1>1, <1>2, <2>1, TypesKept DEF TypeOK, chainVars
<1>4. Active' /\ Placed' /\ NoProcessRunsOn'
  BY <1>2 DEF Active, Placed, Exchanging, NoProcessRunsOn, wireVars, systemVars, childVars,
     chainVars
<1>5. WireTimers' /\ TimeIsLeft' /\ SilenceIsShared'
  <2>1. wire = "idle" \/ (Exchanging /\ now < timer)
    BY DEF Tick, WireWaits
  <2>2. until \in Nat
    BY <1>1 DEF TypeOK, WireTypeOK
  <2> QED
    BY <1>1, <1>2, <2>1, <2>2 DEF WireTimers, TimeIsLeft, SilenceIsShared, Exchanging,
       wireVars
<1>6. SystemTimers'
  <2>1. system = "idle" \/ (system = "get" /\ now < expiry)
    BY DEF Tick, SystemWaits
  <2>2. expiry \in Nat
    BY <1>1 DEF TypeOK, SystemTypeOK
  <2> QED
    BY <1>1, <1>2, <2>1, <2>2 DEF SystemTimers, systemVars
<1>7. ChildTimers'
  <2>1. run \in {"idle", "wait"} \/ (run \in {"communicate", "drain"} /\ now < alarm)
    BY DEF Tick, ChildWaits
  <2>2. alarm \in Nat
    BY <1>1 DEF TypeOK, ChildTypeOK
  <2> QED
    BY <1>1, <1>2, <2>1, <2>2 DEF ChildTimers, childVars
<1> QED
  BY <1>3, <1>4, <1>5, <1>6, <1>7
-----------------------------------------------------------------------------
\* IInv holds in every state of a call, whatever the servers, getaddrinfo and the
\* programs do.
THEOREM Invariance == Spec => []IInv
<1>1. Init => IInv
  BY InitIInv
<1>2. IInv /\ [Next]_vars => IInv'
  <2> SUFFICES ASSUME IInv, [Next]_vars PROVE IInv'
    OBVIOUS
  <2>1. CASE UNCHANGED vars
    BY <2>1 DEF vars, attempt, wireVars, systemVars, childVars, chainVars, IInv, TypeOK,
       AttemptTypeOK, WireTypeOK, SystemTypeOK, ChildTypeOK, Active, Placed, WireTimers,
       TimeIsLeft, SilenceIsShared, SystemTimers, ChildTimers, NoProcessRunsOn, Exchanging
  <2> QED
    BY <2>1, ChainKeeps, WireStepKeeps, SystemStepKeeps, ChildStepKeeps, TickKeeps DEF Next
<1> QED
  BY <1>1, <1>2, PTL DEF Spec

\* Every variable of the chain and of the three backends keeps to its values, and the
\* clock to its bound.
THEOREM TypeCorrectness == Spec => []TypeOK
<1>1. IInv => TypeOK
  BY DEF IInv
<1> QED
  BY <1>1, Invariance, PTL

\* resolve_wire is over when its timeout is, whatever the servers send, but for the time
\* a query over TCP is always given.
THEOREM WireKeepsTime == Spec => []WireInTime
<1>1. IInv => WireInTime
  <2> SUFFICES ASSUME IInv, wire # "idle"
               PROVE  now <= limit + Floor /\ (~again => now <= limit)
    BY DEF WireInTime
  <2>1. /\ wire \in {"idle", "ask", "connect", "send", "read", "listen"}
        /\ now \in Nat /\ limit \in Nat /\ until \in Nat
    BY DEF IInv, TypeOK, AttemptTypeOK, WireTypeOK
  <2> QED
    BY <2>1 DEF IInv, WireTimers, Exchanging
<1> QED
  BY <1>1, Invariance, PTL

\* Silent servers leave time for every other to be asked.
THEOREM EveryServerReached == Spec => []SilenceIsShared
<1>1. IInv => SilenceIsShared
  BY DEF IInv
<1> QED
  BY <1>1, Invariance, PTL

\* No backend works past the deadline of the call, but for the time of a last query over
\* TCP and of collecting a killed nslookup.
THEOREM DeadlineIsKept == Spec => []DeadlineHolds
<1>1. IInv => DeadlineHolds
  <2> SUFFICES ASSUME IInv, end # None
               PROVE  /\ system # "idle" => now <= end
                      /\ wire # "idle" => now <= end + Floor
                      /\ run \notin {"idle", "wait"} => now <= end + Reap
    BY DEF DeadlineHolds
  <2>1. now \in Nat /\ end \in Nat /\ IInv
    BY DEF IInv, TypeOK, AttemptTypeOK
  <2>2. system # "idle" => now <= end
    BY <2>1 DEF IInv, TypeOK, SystemTypeOK, SystemTimers
  <2>3. wire # "idle" => now <= end + Floor
    <3>1. /\ wire \in {"idle", "ask", "connect", "send", "read", "listen"}
          /\ limit \in Nat /\ until \in Nat
      BY DEF IInv, TypeOK, WireTypeOK
    <3> QED
      BY <2>1, <3>1 DEF IInv, WireTimers, Exchanging
  <2>4. run \notin {"idle", "wait"} => now <= end + Reap
    <3>1. run \in {"idle", "start", "communicate", "drain", "wait"} /\ alarm \in Nat
      BY DEF IInv, TypeOK, ChildTypeOK
    <3> QED
      BY <2>1, <3>1 DEF IInv, ChildTimers
  <2> QED
    BY <2>2, <2>3, <2>4
<1> QED
  BY <1>1, Invariance, PTL

\* The wire backend keeps to its timeout and every backend to the deadline of the call.
THEOREM TimeIsKept == Spec => []StaysInTime
BY WireKeepsTime, DeadlineIsKept, PTL DEF StaysInTime

\* However a run of nslookup is left, all that it started has exited or is killed.
THEOREM NoProgramLeft == Spec => []NoProcessRunsOn
<1>1. IInv => NoProcessRunsOn
  BY DEF IInv
<1> QED
  BY <1>1, Invariance, PTL
-----------------------------------------------------------------------------
(* What an answer without records rests on, and what a call leaves behind.     *)

\* The backend in progress is the one whose turn it is.
Turn ==
    /\ wire # "idle" => Asked("wire")
    /\ system # "idle" => Asked("system")
    /\ run # "idle" => Asked("nslookup")

Before == 1..name - 1

\* What a backend takes for evidence: the wire backend that some server denied some name,
\* the others that every name before this one was denied.
Evidence ==
    /\ wire # "idle" /\ answered => denied # {}
    /\ system # "idle" => denied = Before
    /\ run # "idle" /\ ~failure => denied = Before

\* The turns that are over: the one that left the chain, or was answered, counts.
Over == IF asking THEN answer # None ELSE result \in {"records", "raised"}
Ended == IF Over THEN step ELSE step - 1
Turns(k) == {n \in 1..k : chain[n] = "system"}

\* A thread was left in none but these, and in each at most once.
ThreadsLeft == abandoned <= Cardinality(Turns(Ended))

\* What left the chain came from one of its backends.
Stopped == result \in {"records", "raised"} => step <= Len(chain)

Behind == Turn /\ Evidence /\ EmptyIsDenied /\ ThreadsLeft /\ Stopped

\* The turns up to one more are as many, or one more when it is the OS resolver's.
LEMMA TurnsCounted ==
    ASSUME NEW k \in Nat
    PROVE  /\ IsFiniteSet(Turns(k)) /\ Cardinality(Turns(k)) \in Nat
           /\ Cardinality(Turns(k)) <= Cardinality(Turns(k + 1))
           /\ chain[k + 1] = "system" =>
                Cardinality(Turns(k + 1)) = Cardinality(Turns(k)) + 1
<1>1. IsFiniteSet(1..k) /\ IsFiniteSet(1..k + 1)
  BY FS_Interval
<1>2. /\ Turns(k) \in SUBSET (1..k) /\ Turns(k + 1) \in SUBSET (1..k + 1)
      /\ Turns(k) \in SUBSET Turns(k + 1)
  BY DEF Turns
<1>3. IsFiniteSet(Turns(k)) /\ IsFiniteSet(Turns(k + 1))
  BY <1>1, <1>2, FS_Subset
<1>4. Cardinality(Turns(k)) \in Nat /\ Cardinality(Turns(k)) <= Cardinality(Turns(k + 1))
  BY <1>2, <1>3, FS_Subset, FS_CardinalityType
<1>5. ASSUME chain[k + 1] = "system"
      PROVE  Cardinality(Turns(k + 1)) = Cardinality(Turns(k)) + 1
  <2>1. Turns(k + 1) = Turns(k) \cup {k + 1} /\ k + 1 \notin Turns(k)
    BY <1>5 DEF Turns
  <2> QED
    BY <1>3, <2>1, FS_AddElement
<1> QED
  BY <1>3, <1>4, <1>5

\* The turns up to one are among those of the chain.
LEMMA TurnsOfChain ==
    ASSUME NEW k \in Nat, Len(chain) \in Nat, k <= Len(chain)
    PROVE  Cardinality(Turns(k)) <= Cardinality(Turns(Len(chain)))
<1>1. IsFiniteSet(Turns(Len(chain)))
  BY TurnsCounted
<1>2. Turns(k) \in SUBSET Turns(Len(chain))
  BY DEF Turns
<1> QED
  BY <1>1, <1>2, FS_Subset

\* Where the chain is, as a number.
LEMMA StepFacts ==
    ASSUME IInv
    PROVE  /\ Len(chain) \in Nat /\ step \in Nat \ {0} /\ step <= Len(chain) + 1
           /\ abandoned \in Nat /\ name \in Nat \ {0} /\ name <= Names + 1
           /\ answer \in Outcomes \cup {None} /\ None \notin Outcomes
           /\ None \notin {"records", "raised"}
           /\ asking => result = None /\ step <= Len(chain)
<1>1. chain \in Seq({"wire", "system", "nslookup"})
  BY DEF IInv, TypeOK
<1>2. Len(chain) \in Nat
  BY <1>1
<1> QED
  BY <1>2 DEF IInv, TypeOK, Active, AttemptTypeOK, SystemTypeOK, Outcomes

\* No thread is left by a step that ends a turn or none.
LEMMA NoMoreLeft ==
    ASSUME IInv, ThreadsLeft, Ended \in Nat, Ended' \in {Ended, Ended + 1},
           abandoned' = abandoned, chain' = chain
    PROVE  ThreadsLeft'
<1>1. Turns(Ended)' = {n \in 1..Ended' : chain[n] = "system"}
  BY DEF Turns
<1>2. Ended \in Nat /\ Ended + 1 \in Nat
  OBVIOUS
<1>3. /\ Cardinality(Turns(Ended)) \in Nat
      /\ Cardinality(Turns(Ended)) <= Cardinality(Turns(Ended + 1))
  BY <1>2, TurnsCounted
<1>4. Cardinality(Turns(Ended + 1)) \in Nat
  BY <1>2, TurnsCounted
<1>5. abandoned <= Cardinality(Turns(Ended)) /\ abandoned \in Nat
  BY StepFacts DEF ThreadsLeft
<1>6. CASE Ended' = Ended
  <2>1. Turns(Ended)' = Turns(Ended)
    BY <1>1, <1>6 DEF Turns
  <2> QED
    BY <1>5, <2>1 DEF ThreadsLeft
<1>7. CASE Ended' = Ended + 1
  <2>1. Turns(Ended)' = Turns(Ended + 1)
    BY <1>1, <1>7 DEF Turns
  <2>2. abandoned <= Cardinality(Turns(Ended + 1))
    BY <1>3, <1>4, <1>5
  <2> QED
    BY <2>1, <2>2 DEF ThreadsLeft
<1> QED
  BY <1>6, <1>7

\* A call has denied nothing and left nothing when it starts.
LEMMA InitBehind == Init => Behind
<1> SUFFICES ASSUME Init PROVE Behind
  OBVIOUS
<1>1. Turn /\ Evidence /\ EmptyIsDenied /\ Stopped
  BY DEF Init, WireInit, SystemInit, ChildInit, Turn, Evidence, EmptyIsDenied, Stopped,
     Outcomes
<1>2. ThreadsLeft
  <2>1. abandoned = 0 /\ Ended = 0
    BY DEF Init, SystemInit, Over, Ended, Outcomes
  <2> QED
    BY <2>1, TurnsCounted DEF ThreadsLeft
<1> QED
  BY <1>1, <1>2 DEF Behind

\* The chain starts a backend with nothing denied, and takes an answer as it is.
LEMMA ChainBehind == ASSUME IInv, Behind, Chain PROVE Behind'
<1> USE DEF Behind
<1>0. /\ wire # "idle" => asking /\ answer = None
      /\ system # "idle" => asking /\ answer = None
      /\ run # "idle" => asking /\ answer = None
  BY DEF IInv, Active
<1>1. CASE Tries
  <2>1. wire = "idle" /\ system = "idle" /\ run = "idle"
    BY <1>0, <1>1 DEF Tries
  <2>2. name' = 1 /\ denied' = {} /\ answer' = None /\ asking' /\ UNCHANGED <<chain, step, result>>
    BY <1>1 DEF Tries, Fresh
  <2>3. abandoned' = abandoned
    BY <1>1 DEF Tries, SystemStarts, systemVars
  <2>4. Turn' /\ Evidence'
    <3>1. CASE Asked("wire") /\ WireStarts /\ UNCHANGED <<systemVars, childVars>>
      BY <2>1, <2>2, <3>1 DEF Turn, Evidence, Asked, WireStarts, systemVars, childVars
    <3>2. CASE Asked("system") /\ SystemStarts /\ UNCHANGED <<wireVars, childVars>>
      BY <2>1, <2>2, <3>2 DEF Turn, Evidence, Before, Asked, SystemStarts, wireVars, childVars
    <3>3. CASE Asked("nslookup") /\ ChildStarts /\ UNCHANGED <<wireVars, systemVars>>
      BY <2>1, <2>2, <3>3 DEF Turn, Evidence, Before, Asked, ChildStarts, wireVars, systemVars
    <3> QED
      BY <1>1, <3>1, <3>2, <3>3 DEF Tries
  <2>5. EmptyIsDenied'
    BY <2>2, StepFacts DEF EmptyIsDenied, Outcomes
  <2>6. ThreadsLeft'
    <3>1. result = None /\ ~asking
      BY <1>1 DEF Tries, Asked
    <3>2. Ended' = Ended
      BY <2>2, <3>1, StepFacts DEF Ended, Over
    <3> QED
      BY <2>2, <2>3, <3>2 DEF ThreadsLeft, Turns
  <2>7. Stopped'
    BY <2>2 DEF Stopped
  <2> QED
    BY <2>4, <2>5, <2>6, <2>7
<1>2. CASE Skips \/ Concludes \/ Returns
  <2>1. Rest
    BY <1>2 DEF Skips, Concludes, Returns
  <2>2. wire = "idle" /\ system = "idle" /\ run = "idle" /\ ~asking'
    BY <1>0, <1>2, StepFacts DEF Skips, Concludes, Returns
  <2>3. Turn' /\ Evidence' /\ EmptyIsDenied'
    BY <2>1, <2>2 DEF Turn, Evidence, EmptyIsDenied, Rest, wireVars, systemVars, childVars
  <2>4. /\ Ended \in Nat /\ Ended' \in {Ended, Ended + 1}
        /\ abandoned' = abandoned /\ chain' = chain
    <3>1. abandoned' = abandoned /\ chain' = chain
      BY <2>1 DEF Rest, systemVars
    <3>2. CASE Skips
      BY <3>1, <3>2, StepFacts DEF Skips, Ended, Over
    <3>3. CASE Concludes
      BY <3>1, <3>3, StepFacts DEF Concludes, Ended, Over
    <3>4. CASE Returns
      BY <3>1, <3>4, StepFacts DEF Returns, Ended, Over
    <3> QED
      BY <1>2, <3>2, <3>3, <3>4
  <2>5. ThreadsLeft'
    BY <2>4, NoMoreLeft
  <2>6. Stopped'
    <3>1. CASE Skips
      BY <2>4, <3>1, StepFacts DEF Skips, Stopped
    <3>2. CASE Concludes
      BY <2>4, <3>2, StepFacts DEF Concludes, Stopped
    <3>3. CASE Returns
      BY <3>3 DEF Returns, Stopped
    <3> QED
      BY <1>2, <3>1, <3>2, <3>3
  <2> QED
    BY <2>3, <2>5, <2>6
<1> QED
  BY <1>1, <1>2 DEF Chain

\* A step of the backend in progress ends its turn when it answers.
LEMMA TurnEnds ==
    ASSUME IInv, UNCHANGED chainVars,
           UNCHANGED attempt \/ (asking /\ answer = None /\ answer' \in Outcomes \cup {None})
    PROVE  /\ Ended \in Nat /\ Ended' \in {Ended, Ended + 1} /\ chain' = chain
           /\ asking /\ answer = None => Ended = step - 1
           /\ asking /\ answer' # None => Ended' = step
BY StepFacts DEF Ended, Over, attempt, chainVars

\* The wire backend answers without records when it has heard of a name that has none.
LEMMA WireBehind == ASSUME IInv, Behind, Wire PROVE Behind'
<1> USE DEF Behind
<1>0. Stopped'
  BY DEF Wire, Stopped, chainVars
<1>1. WireNext /\ UNCHANGED <<systemVars, childVars, chainVars>>
  BY DEF Wire
<1>2. WireDone
  BY <1>1, WireKeeps
<1>3. /\ asking /\ answer = None /\ system = "idle" /\ run = "idle"
      /\ Asked("wire") /\ wire # "idle"
  BY <1>2 DEF IInv, Active, WireDone, Turn
<1>4. system' = "idle" /\ run' = "idle" /\ abandoned' = abandoned
  BY <1>1, <1>3 DEF systemVars, childVars
<1>5. Turn'
  BY <1>1, <1>3, <1>4 DEF Turn, Asked, chainVars
<1>6. /\ wire' # "idle" /\ answered' => denied' # {}
      /\ answer' = "empty" => denied' # {}
  <2>1. answered => denied # {}
    BY <1>3 DEF Evidence
  <2>2. CASE Ask \/ Unasked \/ Silence \/ MoreToCome \/ Proceed \/ Breaks \/ Truncated
    BY <1>3, <2>1, <2>2, StepFacts DEF Ask, Unasked, Silence, MoreToCome, Proceed, Breaks,
       Truncated, NextServer, attempt, Outcomes
  <2>3. CASE Unanswered
    BY <1>3, <2>1, <2>3, StepFacts DEF Unanswered, NextName, Outcomes
  <2>4. CASE HasNone
    BY <1>3, <2>4, StepFacts DEF HasNone, Denied, Outcomes
  <2>5. CASE OutOfTime \/ HasRecords
    BY <2>5 DEF OutOfTime, HasRecords, WireEnds, Ends
  <2>6. CASE Conclude
    BY <2>1, <2>6 DEF Conclude, Outcome, WireEnds, Ends
  <2> QED
    BY <1>1, <2>2, <2>3, <2>4, <2>5, <2>6 DEF WireNext, WireCaller
<1>7. Evidence' /\ EmptyIsDenied'
  BY <1>4, <1>5, <1>3, <1>1, <1>6 DEF Evidence, EmptyIsDenied, Asked, chainVars
<1>8. ThreadsLeft'
  <2>1. answer' \in Outcomes \cup {None}
    BY <1>2 DEF WireDone, AttemptTypeOK
  <2> QED
    BY <1>1, <1>3, <1>4, <2>1, TurnEnds, NoMoreLeft
<1> QED
  BY <1>0, <1>5, <1>7, <1>8

\* The OS resolver goes to the next name when one is denied, and answers without records
\* after the last; a thread it leaves ends its turn.
LEMMA SystemBehind == ASSUME IInv, Behind, System PROVE Behind'
<1> USE DEF Behind
<1>0. Stopped'
  BY DEF System, Stopped, chainVars
<1>1. SystemNext /\ UNCHANGED <<wireVars, childVars, chainVars>>
  BY DEF System
<1>2. SystemDone
  BY <1>1, SystemKeeps
<1>3. CASE Put
  <2>1. UNCHANGED <<system, abandoned, attempt>>
    BY <1>3 DEF Put
  <2>2. Turn' /\ Evidence' /\ EmptyIsDenied'
    BY <1>1, <2>1 DEF Turn, Evidence, Before, EmptyIsDenied, Asked, attempt, chainVars,
       wireVars, childVars
  <2> QED
    BY <1>0, <1>1, <2>1, <2>2, TurnEnds, NoMoreLeft
<1>4. CASE SystemCaller
  <2>1. /\ asking /\ answer = None /\ wire = "idle" /\ run = "idle"
        /\ Asked("system") /\ system # "idle" /\ denied = Before
    BY <1>4 DEF SystemCaller, Look, TooLate, Get, Abandon, Exhausted, IInv, Active, Turn,
       Evidence
  <2>2. wire' = "idle" /\ run' = "idle"
    BY <1>1, <2>1 DEF wireVars, childVars
  <2>3. Turn'
    BY <1>1, <2>1, <2>2 DEF Turn, Asked, chainVars
  <2>4. name \in Nat \ {0} /\ name <= Names + 1
    BY StepFacts
  <2>5. /\ system' # "idle" => denied' = 1..name' - 1
        /\ answer' = "empty" => denied' = 1..Names
    <3>1. CASE Look
      BY <2>1, <3>1, StepFacts DEF Look, Before, attempt, Outcomes
    <3>2. CASE TooLate \/ Abandon
      BY <3>2 DEF TooLate, Abandon, Expired, SystemEnds, Ends
    <3>3. CASE Exhausted
      BY <2>1, <2>4, <3>3 DEF Exhausted, SystemEnds, Ends, Before
    <3>4. CASE Get
      <4>1. CASE \E outcome \in Outcomes \ {"empty"} : SystemEnds(outcome)
        BY <4>1 DEF SystemEnds, Ends
      <4>2. CASE Denied
        <5>1. denied' = (1..name - 1) \cup {name} /\ name' = name + 1 /\ answer' = None
          BY <2>1, <4>2 DEF Denied, Before
        <5>2. (1..name - 1) \cup {name} = 1..(name + 1) - 1
          BY <2>4
        <5> QED
          BY <5>1, <5>2, StepFacts DEF Outcomes
      <4> QED
        BY <3>4, <4>1, <4>2 DEF Get, Outcomes
    <3> QED
      BY <1>4, <3>1, <3>2, <3>3, <3>4 DEF SystemCaller
  <2>6. Evidence' /\ EmptyIsDenied'
    BY <2>2, <2>5 DEF Evidence, EmptyIsDenied, Before
  <2>7. ThreadsLeft'
    <3>1. answer' \in Outcomes \cup {None}
      BY <1>2 DEF SystemDone, AttemptTypeOK
    <3>2. CASE Abandon
      <4>1. /\ chain' = chain /\ Ended = step - 1 /\ Ended' = step
            /\ abandoned' = abandoned + 1
        <5>1. answer' = "late" /\ abandoned' = abandoned + 1
          BY <3>2 DEF Abandon, Expired, SystemEnds, Ends
        <5> QED
          BY <1>1, <2>1, <3>1, <5>1, TurnEnds, StepFacts DEF Outcomes
      <4>2. step - 1 \in Nat /\ (step - 1) + 1 = step /\ chain[step] = "system"
        BY <2>1, StepFacts DEF Asked
      <4>3. Cardinality(Turns(step)) = Cardinality(Turns(step - 1)) + 1
        BY <4>2, TurnsCounted
      <4>4. Cardinality(Turns(step - 1)) \in Nat
        BY <4>2, TurnsCounted
      <4>5. abandoned <= Cardinality(Turns(step - 1)) /\ abandoned \in Nat
        BY <4>1, StepFacts DEF ThreadsLeft
      <4>6. Turns(Ended)' = Turns(step)
        BY <4>1 DEF Turns
      <4>7. abandoned + 1 <= Cardinality(Turns(step))
        BY <4>3, <4>4, <4>5
      <4> QED
        BY <4>1, <4>6, <4>7 DEF ThreadsLeft
    <3>3. CASE ~Abandon
      <4>1. abandoned' = abandoned
        BY <1>4, <3>3 DEF SystemCaller, Look, TooLate, Get, Exhausted
      <4> QED
        BY <1>1, <2>1, <3>1, <4>1, TurnEnds, NoMoreLeft
    <3> QED
      BY <3>2, <3>3
  <2> QED
    BY <1>0, <2>3, <2>6, <2>7
<1> QED
  BY <1>1, <1>3, <1>4 DEF SystemNext

\* nslookup answers without records when every name was denied and none failed; its
\* processes may go on in any state.
LEMMA ChildBehind == ASSUME IInv, Behind, Child PROVE Behind'
<1> USE DEF Behind
<1>0. Stopped'
  BY DEF Child, Stopped, chainVars
<1>1. /\ ChildNext /\ UNCHANGED <<wireVars, systemVars, chainVars>>
      /\ wire' = wire /\ system' = system /\ abandoned' = abandoned
  BY DEF Child, wireVars, systemVars
<1>2. ChildDone
  BY <1>1, ChildKeeps
<1>3. CASE UNCHANGED <<attempt, failure>> /\ (run' # "idle" => run # "idle")
  <2>1. Turn' /\ Evidence' /\ EmptyIsDenied'
    BY <1>1, <1>3 DEF Turn, Evidence, Before, EmptyIsDenied, Asked, attempt, chainVars,
       wireVars
  <2> QED
    BY <1>0, <1>1, <1>3, <2>1, TurnEnds, NoMoreLeft
<1>4. CASE run # "idle"
  <2>1. /\ asking /\ answer = None /\ wire = "idle" /\ system = "idle"
        /\ Asked("nslookup") /\ (~failure => denied = Before)
    BY <1>4 DEF IInv, Active, Turn, Evidence
  <2>2. Turn'
    BY <1>1, <2>1 DEF Turn, Asked, chainVars
  <2>3. name \in Nat \ {0} /\ name <= Names + 1 /\ failure \in BOOLEAN
    BY StepFacts DEF IInv, TypeOK, ChildTypeOK
  <2>4. /\ run' # "idle" /\ ~failure' => denied' = 1..name' - 1
        /\ answer' = "empty" => denied' = 1..Names
    <3>1. CASE Fails
      BY <2>1, <3>1, StepFacts DEF Fails, NextName, Outcomes
    <3>2. CASE Denied /\ UNCHANGED failure
      <4>1. ~failure => denied' = (1..name - 1) \cup {name}
        BY <2>1, <3>2 DEF Denied, Before
      <4>2. name' = name + 1 /\ answer' = None /\ failure' = failure
        BY <2>1, <3>2 DEF Denied
      <4>3. (1..name - 1) \cup {name} = 1..(name + 1) - 1
        BY <2>3
      <4> QED
        BY <4>1, <4>2, <4>3, StepFacts DEF Outcomes
    <3>3. CASE run' = "idle" /\ \E outcome \in Outcomes \ {"empty"} : Ends(outcome)
      BY <3>3 DEF Ends
    <3>4. CASE UNCHANGED <<attempt, failure>>
      BY <2>1, <3>4, StepFacts DEF attempt, Before, Outcomes
    <3>5. CASE AllTried
      <4>1. name = Names + 1
        BY <2>3, <3>5 DEF AllTried
      <4>2. run' = "idle" /\ denied' = denied /\ (answer' = "empty" => ~failure)
        BY <3>5 DEF AllTried, Verdict, Ends
      <4>3. 1..name - 1 = 1..Names
        BY <4>1
      <4> QED
        BY <2>1, <4>2, <4>3 DEF Before
    <3>6. CASE Spawn \/ Expire \/ Interrupt \/
               \E n \in 1..Names : Fork(n) \/ ChildExits(n) \/ KinExits(n)
      <4>1. UNCHANGED <<attempt, failure>>
        BY <3>6 DEF Spawn, Expire, Interrupt, Fork, ChildExits, KinExits
      <4> QED
        BY <3>4, <4>1
    <3>7. CASE NotSpawned \/ Drained
      BY <3>1, <3>7 DEF NotSpawned, Drained
    <3>8. CASE Collect
      BY <3>1, <3>2, <3>3, <3>8 DEF Collect, Outcomes
    <3>9. CASE Waited \/ InterruptDrain
      BY <3>3, <3>9 DEF Waited, InterruptDrain, Outcomes
    <3> QED
      BY <1>1, <3>5, <3>6, <3>7, <3>8, <3>9 DEF ChildNext, ChildCaller
  <2>5. Evidence' /\ EmptyIsDenied'
    BY <1>1, <2>1, <2>4 DEF Evidence, EmptyIsDenied, Before
  <2>6. answer' \in Outcomes \cup {None}
    BY <1>2 DEF ChildDone, AttemptTypeOK
  <2>7. ThreadsLeft'
    BY <1>1, <2>1, <2>6, TurnEnds, NoMoreLeft
  <2> QED
    BY <1>0, <2>2, <2>5, <2>7
<1>5. CASE run = "idle"
  <2>1. run' = "idle" /\ UNCHANGED <<attempt, failure>>
    BY <1>1, <1>5 DEF ChildNext, ChildCaller, Spawn, NotSpawned, Collect, Expire, Drained,
       Waited, AllTried, Interrupt, InterruptDrain, Fork, ChildExits, KinExits
  <2> QED
    BY <1>3, <2>1
<1> QED
  BY <1>4, <1>5

\* Behind holds in every state of a call.
THEOREM BehindInvariance == Spec => []Behind
<1>1. Init => Behind
  BY InitBehind
<1>2. IInv /\ Behind /\ [Next]_vars => Behind'
  <2> SUFFICES ASSUME IInv, Behind, [Next]_vars PROVE Behind'
    OBVIOUS
  <2>1. CASE Tick \/ UNCHANGED vars
    <3>1. /\ UNCHANGED <<name, denied, answer, wireVars, systemVars, childVars, chainVars>>
      BY <2>1 DEF Tick, vars, attempt
    <3>2. /\ UNCHANGED <<name, denied, answer, wire, answered, system, abandoned, run,
                         failure, chain, step, asking, result>>
      BY <3>1 DEF wireVars, systemVars, childVars, chainVars
    <3> QED
      BY <3>2 DEF Behind, Turn, Evidence, Before, EmptyIsDenied, Asked, ThreadsLeft, Turns,
         Ended, Over, Stopped
  <2> QED
    BY <2>1, ChainBehind, WireBehind, SystemBehind, ChildBehind DEF Next
<1> QED
  BY <1>1, <1>2, Invariance, PTL DEF Spec

\* A backend says that there are no records only when each name it asked for was denied,
\* the wire backend when one was.
THEOREM EmptyRestsOnDenial == Spec => []EmptyIsDenied
<1>1. Behind => EmptyIsDenied
  BY DEF Behind
<1> QED
  BY <1>1, BehindInvariance, PTL

\* A call leaves no program running, and one getaddrinfo for each turn of the OS resolver
\* at most.
THEOREM NothingLeft == Spec => []NothingIsLeft
<1>1. IInv /\ Behind => NothingIsLeft
  <2> SUFFICES ASSUME IInv, Behind PROVE OneThreadEach
    BY DEF IInv, NothingIsLeft
  <2>1. /\ Ended \in Nat /\ Ended <= Len(chain) /\ Len(chain) \in Nat /\ abandoned \in Nat
    <3>1. result \in {"records", "raised"} => step <= Len(chain)
      BY DEF Behind, Stopped
    <3> QED
      BY <3>1, StepFacts DEF Ended, Over
  <2>2. abandoned <= Cardinality(Turns(Ended))
    BY DEF Behind, ThreadsLeft
  <2>3. Cardinality(Turns(Ended)) <= Cardinality(Turns(Len(chain)))
    BY <2>1, TurnsOfChain
  <2>4. Cardinality(Turns(Ended)) \in Nat
    BY <2>1, TurnsCounted
  <2>5. Cardinality(Turns(Len(chain))) \in Nat
    BY <2>1, TurnsCounted
  <2>6. abandoned <= Cardinality(Turns(Len(chain)))
    BY <2>1, <2>2, <2>3, <2>4, <2>5
  <2> QED
    BY <2>6 DEF OneThreadEach, Turns
<1> QED
  BY <1>1, Invariance, BehindInvariance, PTL
=============================================================================
