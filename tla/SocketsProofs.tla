---------------------------- MODULE SocketsProofs ----------------------------
(***************************************************************************)
(* Proofs about Sockets, for any interfaces, ports and calls, any reuse     *)
(* options among their arguments, and any sockets of other programs.        *)
(*                                                                         *)
(* The argument is about who holds a descriptor.  Every open socket of the  *)
(* library is the application's, the listening call's or the attempt's, and *)
(* of one of them only; the attempt's has what its arguments say.  A socket *)
(* nobody asked to share carries, once configured, what makes the kernel    *)
(* refuse either of two sockets on its port, whichever of them is second.   *)
(*                                                                         *)
(* What bind_listen opens is followed from the entries of its setting: the  *)
(* pairs of an address and a port they name, the limits these merge into,   *)
(* the plan for each, and each endpoint of the plans once.  A plan is then  *)
(* carried out one socket after the other, and what is open was planned.    *)
(***************************************************************************)
EXTENDS Sockets, FiniteSetTheorems, SequenceTheorems, WellFoundedInduction, TLAPS

\* The records have their fields; what a field holds matters only where it is named.
IsSocket(s) ==
    s = [fd |-> s.fd, owner |-> s.owner, kind |-> s.kind, host |-> s.host, port |-> s.port,
         options |-> s.options, asked |-> s.asked, device |-> s.device,
         listening |-> s.listening, joined |-> s.joined]
IsArgs(a) ==
    a = [owner |-> a.owner, kind |-> a.kind, host |-> a.host, port |-> a.port,
         options |-> a.options, reuse_address |-> a.reuse_address,
         allow_address_takeover |-> a.allow_address_takeover, reuse_port |-> a.reuse_port,
         listen |-> a.listen, interface |-> a.interface, family |-> a.family,
         device |-> a.device, groups |-> a.groups]
IsAttempt(t) ==
    /\ t = [step |-> t.step, error |-> t.error, fd |-> t.fd, args |-> t.args]
    /\ t.step \in {"create", "configure", "bind", "listen", "join", "ok", "failed"}
    /\ IsArgs(t.args)
    /\ t.args.owner \in {"bind", "multicast"} /\ t.args.kind \in {"udp", "tcp"}
    /\ t.args.owner = "multicast" => t.args.kind = "udp"
IsCall(c) ==
    /\ c = [op |-> c.op, step |-> c.step, todo |-> c.todo, result |-> c.result,
            opened |-> c.opened, failed |-> c.failed, wants |-> c.wants,
            options |-> c.options]
    /\ c.op \in {"bind", "listen", "reply", "closed"}
    /\ c.step \in {"next", "trying", "ended"}

Shapes ==
    /\ platform \in Platforms
    /\ \A s \in table : IsSocket(s) /\ s.kind \in {"udp", "tcp"} /\ s.fd \in 1..MaxSockets
    /\ attempt = None \/ IsAttempt(attempt)
    /\ IsCall(call)

\* The attempt has a socket, and which.
Holding == attempt.step \in {"configure", "bind", "listen", "join", "ok"}
Held == IF Holding THEN {attempt.fd} ELSE {}

\* An operation waits for an attempt exactly while there is one; only bind_listen keeps
\* sockets from one attempt to the next.
Phases ==
    /\ call.step = "trying" <=> attempt # None
    /\ attempt # None /\ ~Holding => attempt.fd = 0
    /\ call.op # "listen" /\ call.step # "ended" => call.opened = {}

\* A descriptor is one socket.
UniqueFds == \A s, t \in table : s.fd = t.fd => s = t

\* How far the socket of the attempt is, after the steps its arguments ask for.
IsAt(s, step, a) ==
    /\ s.port = 0 <=> step \in {"configure", "bind"}
    /\ s.port = 0 \/ a.port \in {0, s.port}
    /\ s.listening <=> step = "ok" /\ a.listen /\ a.kind = "tcp"
    /\ s.joined \subseteq a.groups /\ (step = "ok" /\ a.owner = "multicast" => s.joined = a.groups)
    /\ step = "listen" => a.listen /\ a.kind = "tcp"
    /\ step = "join" => a.owner = "multicast"

\* The socket of the attempt is the one its arguments describe.
CurrentIsAsked ==
    Holding =>
      /\ \E s \in table : s.fd = attempt.fd
      /\ \A s \in table : s.fd = attempt.fd =>
           /\ s.owner = attempt.args.owner /\ s.kind = attempt.args.kind
           /\ s.host = attempt.args.host
           /\ s.asked <=> AsksToShare(attempt.args)
           /\ IsAt(s, attempt.step, attempt.args)

\* Whose the sockets are: the application's, the listening call's or the attempt's.
Owned ==
    /\ \A s \in table : s.owner # "other" <=> s.fd \in handles \cup call.opened \cup Held
    /\ \A fd \in handles \cup call.opened : \E s \in table : s.fd = fd
    /\ Held \cap (handles \cup call.opened) = {}
    /\ IF Ended THEN call.opened \subseteq handles ELSE call.opened \cap handles = {}
    /\ \A s \in table : s.owner # "other" /\ s.port = 0 => s.fd \in Held
    /\ \A e \in endpoints : e.fd \in handles \cup call.opened

\* What a socket carries that nobody may share: Windows' refusal, elsewhere no consent.
Guarded(s) ==
    IF platform.exclusive THEN "exclusive" \in s.options
    ELSE "reuseport" \notin s.options /\ (s.kind = "udp" => "reuseaddr" \notin s.options)

UnaskedIsGuarded ==
    \A s \in table :
        s.owner = "bind" /\ ~s.asked /\ (s.fd \in Held => attempt.step # "configure")
            => Guarded(s)

\* The client's address is known and has not failed: it comes first, and is what is tried.
Keeps == call.op = "reply" /\ call.wants.known /\ call.wants.address \notin call.failed
AddressFirst ==
    Keeps =>
      /\ call.step # "ended" => call.todo # <<>> /\ Head(call.todo) = call.wants.address
      /\ call.step = "trying" => attempt.args.host = call.wants.address
      /\ call.step = "ended" => call.result \in {"ok", "in_use"}
OpenedThere ==
    Keeps /\ Ended => \A s \in table : s.fd \in call.opened => s.host = call.wants.address

IInv ==
    /\ Shapes /\ Phases /\ UniqueFds /\ CurrentIsAsked /\ Owned
    /\ UnaskedIsGuarded /\ SharedOnlyByName /\ AddressFirst /\ OpenedThere
-----------------------------------------------------------------------------
\* SharedOnlyByName of one pair of sockets.
NotShared(s, t) ==
    /\ s.fd # t.fd /\ s.owner = "bind" /\ s.port # 0 /\ Overlap(s, t)
    /\ s.kind = "udp" \/ (s.listening /\ t.listening)
    => s.asked

\* Two sockets that can get the same packet can in either order.
LEMMA OverlapIsSymmetric ==
    ASSUME NEW s, NEW t, Overlap(s, t) PROVE Overlap(t, s)
BY DEF Overlap

\* The kernel refuses a socket where one of the two is guarded, whichever came first; a
\* stream is refused only by one that listens.
LEMMA GuardedExcludes ==
    ASSUME NEW old, NEW new, platform \in Platforms, old.kind \in {"udp", "tcp"},
           Overlap(old, new), ~Blocks(old, new), Guarded(old) \/ Guarded(new)
    PROVE  old.kind = "tcp" /\ ~old.listening
<1>1. old.kind = new.kind
  BY DEF Overlap
<1> QED
  BY <1>1 DEF Blocks, Guarded, Both, Platforms

\* A new socket's descriptor is one that no socket has.
LEMMA NewFdIsFree ==
    ASSUME Room PROVE NewFd \in 1..MaxSockets /\ Free(NewFd)
BY DEF Room, NewFd

\* There is one socket of the attempt, and Current is it.
LEMMA CurrentIsTheOne ==
    ASSUME UniqueFds, CurrentIsAsked, Holding
    PROVE  /\ Current \in table /\ Current.fd = attempt.fd
           /\ \A s \in table : s.fd = attempt.fd <=> s = Current
<1>1. PICK c \in table : c.fd = attempt.fd
  BY DEF CurrentIsAsked
<1>2. Current \in table /\ Current.fd = attempt.fd
  BY <1>1 DEF Current
<1> QED
  BY <1>2 DEF UniqueFds

\* A call of bind begins with its checks passed or failed, and no socket yet.
LEMMA BegunIsAnAttempt ==
    ASSUME NEW a, IsArgs(a), a.owner \in {"bind", "multicast"}, a.kind \in {"udp", "tcp"},
           a.owner = "multicast" => a.kind = "udp", NEW t \in Begun(a)
    PROVE  /\ IsAttempt(t) /\ t.step \in {"create", "failed"} /\ t.fd = 0
           /\ a.interface = 0 => t.args = a
<1> DEFINE attempted(args, step, error) ==
        [step |-> step, error |-> error, fd |-> 0, args |-> args]
<1> DEFINE at(h) == [a EXCEPT !.host = h]
<1>1. ASSUME NEW args, IsArgs(args), args.owner = a.owner, args.kind = a.kind,
             NEW step \in {"create", "failed"}, NEW error
      PROVE  /\ IsAttempt(attempted(args, step, error))
             /\ attempted(args, step, error).step = step
             /\ attempted(args, step, error).fd = 0
             /\ attempted(args, step, error).args = args
  BY <1>1 DEF IsAttempt
<1>2. ASSUME NEW h
      PROVE  IsArgs(at(h)) /\ at(h).owner = a.owner /\ at(h).kind = a.kind
  BY DEF IsArgs
<1> HIDE DEF attempted, at
<1>3. CASE t = attempted(a, "failed", "value") \/ t = attempted(a, "create", "none")
  BY <1>1, <1>3
<1>4. ASSUME a.interface # 0,
             NEW h, t = attempted(at(h), "create", "none")
      PROVE  IsAttempt(t) /\ t.step \in {"create", "failed"} /\ t.fd = 0
  BY <1>1, <1>2, <1>4
<1>5. \/ t = attempted(a, "failed", "value")
      \/ t = attempted(a, "create", "none")
      \/ /\ a.interface # 0
         /\ \E h \in InterfaceAddress(a) : t = attempted(at(h), "create", "none")
  BY DEF Begun, attempted, at
<1> QED
  BY <1>3, <1>4, <1>5
-----------------------------------------------------------------------------
\* A failing step closes the attempt's socket and no other.
LEMMA FailsPreserves ==
    ASSUME IInv, Holding \/ attempt.step = "create", NEW error, Fails(error),
           UNCHANGED platform, UNCHANGED opVars
    PROVE  IInv'
<1> USE DEF opVars
<1>1. attempt # None /\ IsAttempt(attempt) /\ call.step = "trying"
  BY DEF IInv, Shapes, Phases, Holding, None
<1>2. /\ IsAttempt(attempt') /\ attempt'.step = "failed" /\ attempt'.fd = 0
      /\ attempt'.args = attempt.args
  BY <1>1 DEF Fails, IsAttempt
<1>3. attempt' # None /\ ~Holding' /\ Held' = {}
  BY <1>2 DEF Holding, Held, None
<1>4. /\ \A s \in table' : s \in table /\ s.fd # attempt.fd
      /\ \A s \in table : s.fd # attempt.fd => s \in table'
  BY DEF Fails
<1>5. Shapes'
  BY <1>2, <1>4 DEF IInv, Shapes
<1>6. Phases'
  BY <1>1, <1>2, <1>3 DEF IInv, Phases
<1>7. UniqueFds'
  BY <1>4 DEF IInv, UniqueFds
<1>8. CurrentIsAsked'
  BY <1>3 DEF CurrentIsAsked
<1>9. Owned'
  <2>1. \A fd \in handles \cup call.opened : fd # attempt.fd
    <3>1. CASE Holding
      BY <3>1 DEF IInv, Owned, Held
    <3>2. CASE ~Holding
      <4>1. attempt.fd = 0
        BY <3>2, <1>1 DEF IInv, Phases
      <4>2. \A s \in table : s.fd # 0
        BY MaxSocketsAssumption DEF IInv, Shapes
      <4> QED
        BY <4>1, <4>2 DEF IInv, Owned
    <3> QED
      BY <3>1, <3>2
  <2>2. \A s \in table' : s.owner # "other" <=> s.fd \in handles' \cup call'.opened \cup Held'
    BY <1>3, <1>4 DEF IInv, Owned, Held
  <2>3. \A fd \in handles' \cup call'.opened : \E s \in table' : s.fd = fd
    BY <1>4, <2>1 DEF IInv, Owned
  <2>4. \A s \in table' : s.owner # "other" /\ s.port = 0 => s.fd \in Held'
    BY <1>4 DEF IInv, Owned, Held
  <2> QED
    BY <1>3, <2>2, <2>3, <2>4 DEF IInv, Owned, Ended
<1>10. UnaskedIsGuarded'
  BY <1>3, <1>4 DEF IInv, UnaskedIsGuarded, Guarded, Held
<1>11. AddressFirst'
  BY <1>1, <1>2 DEF IInv, AddressFirst, Keeps
<1>12. OpenedThere'
  BY <1>4 DEF IInv, OpenedThere, Keeps, Ended
<1>13. SharedOnlyByName'
  BY <1>4 DEF IInv, SharedOnlyByName
<1> QED
  BY <1>5, <1>6, <1>7, <1>8, <1>9, <1>10, <1>11, <1>12, <1>13 DEF IInv

\* A step that succeeds changes the attempt's socket in place.
LEMMA BecomesPreserves ==
    ASSUME IInv, Holding, NEW s, NEW step \in {"bind", "listen", "join", "ok"},
           Becomes(s, step), UNCHANGED platform, UNCHANGED opVars,
           IsSocket(s), s.fd = Current.fd, s.owner = Current.owner, s.kind = Current.kind,
           s.host = Current.host, s.asked = Current.asked,
           IsAt(s, step, attempt.args),
           s.owner = "bind" /\ ~s.asked => Guarded(s),
           \A t \in table : t.fd # s.fd => NotShared(s, t) /\ NotShared(t, s)
    PROVE  IInv'
<1> USE DEF opVars
<1>1. attempt # None /\ IsAttempt(attempt) /\ call.step = "trying"
  BY DEF IInv, Shapes, Phases, Holding, None
<1>2. /\ IsAttempt(attempt') /\ attempt'.step = step /\ attempt'.fd = attempt.fd
      /\ attempt'.args = attempt.args
  BY <1>1 DEF Becomes, IsAttempt
<1>3. attempt' # None /\ Holding' /\ Held' = {attempt.fd} /\ Held = {attempt.fd}
  BY <1>2 DEF Holding, Held, None
<1>4. /\ Current \in table /\ Current.fd = attempt.fd
      /\ \A t \in table : t.fd = attempt.fd <=> t = Current
  BY CurrentIsTheOne DEF IInv
<1>5. /\ \A t \in table' : t = s \/ (t \in table /\ t.fd # attempt.fd)
      /\ \A t \in table : t.fd # attempt.fd => t \in table'
      /\ s \in table' /\ s.fd = attempt.fd
  BY <1>4 DEF Becomes
<1>6. Shapes'
  BY <1>2, <1>4, <1>5 DEF IInv, Shapes
<1>7. Phases'
  BY <1>1, <1>2, <1>3 DEF IInv, Phases
<1>8. UniqueFds'
  BY <1>5 DEF IInv, UniqueFds
<1>9. CurrentIsAsked'
  <2>1. /\ s.owner = attempt.args.owner /\ s.kind = attempt.args.kind
        /\ s.host = attempt.args.host
    BY <1>4 DEF IInv, CurrentIsAsked
  <2>2. s.asked <=> AsksToShare(attempt.args)'
    BY <1>2, <1>4
       DEF IInv, CurrentIsAsked, AsksToShare, TakeoverRequested, SharesByAddress
  <2>3. \A t \in table' : t.fd = attempt'.fd => t = s
    BY <1>2, <1>5
  <2> QED
    BY <1>2, <1>5, <2>1, <2>2, <2>3 DEF CurrentIsAsked, IsAt
<1>10. Owned'
  <2>1. \A fd \in handles \cup call.opened : fd # attempt.fd
    BY <1>3 DEF IInv, Owned
  <2>2. \A t \in table' : t.owner # "other" <=> t.fd \in handles' \cup call'.opened \cup Held'
    BY <1>3, <1>4, <1>5 DEF IInv, Owned
  <2>3. \A fd \in handles' \cup call'.opened : \E t \in table' : t.fd = fd
    BY <1>5, <2>1 DEF IInv, Owned
  <2>4. \A t \in table' : t.owner # "other" /\ t.port = 0 => t.fd \in Held'
    BY <1>3, <1>5 DEF IInv, Owned
  <2> QED
    BY <1>3, <2>2, <2>3, <2>4 DEF IInv, Owned, Ended
<1>11. UnaskedIsGuarded'
  BY <1>3, <1>5 DEF IInv, UnaskedIsGuarded, Guarded
<1>12. AddressFirst'
  BY <1>1, <1>2 DEF IInv, AddressFirst, Keeps
<1>13. OpenedThere'
  BY <1>1 DEF Ended, OpenedThere
<1>14. SharedOnlyByName'
  BY <1>5 DEF IInv, SharedOnlyByName, NotShared
<1> QED
  BY <1>6, <1>7, <1>8, <1>9, <1>10, <1>11, <1>12, <1>13, <1>14 DEF IInv
-----------------------------------------------------------------------------
\* A socket that begins to listen is otherwise the same.
LEMMA WithListening ==
    ASSUME NEW c, IsSocket(c), NEW listening,
           NEW s, s = [c EXCEPT !.listening = listening]
    PROVE  /\ IsSocket(s) /\ s.fd = c.fd /\ s.owner = c.owner /\ s.kind = c.kind
           /\ s.host = c.host /\ s.asked = c.asked /\ s.port = c.port
           /\ s.options = c.options /\ s.device = c.device
           /\ s.listening = listening /\ s.joined = c.joined
BY DEF IsSocket

\* The socket is created with no port yet, so it overlaps none.
LEMMA CreatePreserves ==
    ASSUME IInv, Create, UNCHANGED opVars PROVE IInv'
<1> USE DEF opVars
<1> DEFINE a == attempt.args
           s == [fd |-> NewFd, owner |-> a.owner, kind |-> a.kind, host |-> a.host, port |-> 0,
                 options |-> {}, asked |-> AsksToShare(a), device |-> 0,
                 listening |-> FALSE, joined |-> {}]
<1>1. CASE a.device # 0 /\ ~platform.device
  BY <1>1, FailsPreserves DEF Create
<1>2. CASE ~(a.device # 0 /\ ~platform.device)
  <2>1. /\ attempt.step = "create" /\ Room /\ table' = table \cup {s}
        /\ attempt' = [attempt EXCEPT !.step = "configure", !.fd = s.fd]
        /\ UNCHANGED <<platform, opVars>>
    BY <1>2 DEF Create
  <2>2. attempt # None /\ IsAttempt(attempt) /\ call.step = "trying" /\ ~Holding /\ Held = {}
    BY <2>1 DEF IInv, Shapes, Phases, Holding, Held, None
  <2>3. /\ s.fd = NewFd /\ IsSocket(s) /\ s.owner = a.owner /\ s.kind = a.kind /\ s.port = 0
        /\ s.host = a.host /\ s.asked = AsksToShare(a) /\ IsAt(s, "configure", a)
    BY DEF IsSocket, IsAt
  <2>4. NewFd \in 1..MaxSockets /\ \A t \in table : t.fd # NewFd
    BY <2>1, NewFdIsFree DEF Free
  <2>5. /\ IsAttempt(attempt') /\ attempt'.step = "configure" /\ attempt'.fd = NewFd
        /\ attempt'.args = a
    BY <2>1, <2>2, <2>3 DEF IsAttempt
  <2>6. attempt' # None /\ Holding' /\ Held' = {NewFd}
    BY <2>5 DEF Holding, Held, None
  <2> HIDE DEF s
  <2>7. Shapes'
    BY <2>1, <2>2, <2>3, <2>4, <2>5 DEF IInv, Shapes, IsAttempt
  <2>8. Phases'
    BY <2>1, <2>2, <2>5, <2>6 DEF IInv, Phases
  <2>9. UniqueFds'
    BY <2>1, <2>3, <2>4 DEF IInv, UniqueFds
  <2>10. CurrentIsAsked'
    <3>1. AsksToShare(attempt.args)' <=> AsksToShare(a)
      BY <2>1, <2>5 DEF AsksToShare, TakeoverRequested, SharesByAddress
    <3>2. \A t \in table' : t.fd = attempt'.fd => t = s
      BY <2>1, <2>4, <2>5
    <3> QED
      BY <2>1, <2>3, <2>5, <3>1, <3>2 DEF CurrentIsAsked
  <2>11. Owned'
    <3>1. s.owner # "other"
      BY <2>2, <2>3 DEF IsAttempt
    <3>2. \A t \in table' : t.owner # "other" <=> t.fd \in handles' \cup call'.opened \cup Held'
      BY <2>1, <2>2, <2>3, <2>4, <2>6, <3>1 DEF IInv, Owned
    <3>3. \A fd \in handles' \cup call'.opened : fd # NewFd /\ \E t \in table' : t.fd = fd
      BY <2>1, <2>4 DEF IInv, Owned
    <3>4. \A t \in table' : t.owner # "other" /\ t.port = 0 => t.fd \in Held'
      BY <2>1, <2>2, <2>3, <2>6 DEF IInv, Owned
    <3> QED
      BY <2>1, <2>6, <3>2, <3>3, <3>4 DEF IInv, Owned, Ended
  <2>12. UnaskedIsGuarded'
    BY <2>1, <2>2, <2>3, <2>5, <2>6 DEF IInv, UnaskedIsGuarded, Guarded
  <2>13. AddressFirst'
    BY <2>1, <2>2, <2>5 DEF IInv, AddressFirst, Keeps
  <2>14. OpenedThere'
    BY <2>1, <2>2 DEF OpenedThere, Ended
  <2>15. SharedOnlyByName'
    BY <2>1, <2>3 DEF IInv, SharedOnlyByName, Overlap
  <2> QED
    BY <2>7, <2>8, <2>9, <2>10, <2>11, <2>12, <2>13, <2>14, <2>15 DEF IInv
<1> QED
  BY <1>1, <1>2

\* The options that bind sets guard a socket that did not ask to share.
LEMMA ConfigurePreserves ==
    ASSUME IInv, Configure, UNCHANGED opVars PROVE IInv'
<1> USE DEF opVars
<1> DEFINE a == attempt.args
           s(options) == [Current EXCEPT !.options = options, !.device = a.device]
           chosen(granted) == IF a.owner = "bind" THEN Configured(a, granted) ELSE a.options
<1>1. Holding /\ attempt.step = "configure" /\ UNCHANGED platform
  BY DEF Configure, Holding
<1>2. /\ Current \in table /\ Current.fd = attempt.fd /\ IsSocket(Current)
      /\ Current.owner = a.owner /\ Current.kind = a.kind /\ Current.port = 0
      /\ Current.asked <=> AsksToShare(a)
      /\ ~Current.listening /\ Current.joined \subseteq a.groups
  BY <1>1, CurrentIsTheOne DEF IInv, CurrentIsAsked, IsAt, Shapes
<1>3. ASSUME NEW granted \in BOOLEAN, Becomes(s(chosen(granted)), "bind")
      PROVE  IInv'
  <2> DEFINE t == s(chosen(granted))
  <2>1. PICK options, device : options = chosen(granted) /\ device = a.device
    OBVIOUS
  <2>2. t = [Current EXCEPT !.options = options, !.device = device]
    BY <2>1
  <2> HIDE DEF chosen, t
  <2>3. /\ IsSocket(t) /\ t.fd = Current.fd /\ t.owner = Current.owner
        /\ t.kind = Current.kind /\ t.host = Current.host /\ t.asked = Current.asked
        /\ t.port = 0 /\ t.options = chosen(granted) /\ IsAt(t, "bind", a)
    <3>1. PICK u : u = t
      OBVIOUS
    <3>2. IsSocket(Current) /\ u = [Current EXCEPT !.options = options, !.device = device]
      BY <3>1, <1>2, <2>2
    <3>3. /\ IsSocket(u) /\ u.fd = Current.fd /\ u.owner = Current.owner
          /\ u.kind = Current.kind /\ u.host = Current.host /\ u.asked = Current.asked
          /\ u.port = Current.port /\ u.options = options
          /\ u.listening = Current.listening /\ u.joined = Current.joined
      BY <3>2 DEF IsSocket
    <3> QED
      BY <3>1, <3>3, <1>2, <2>1 DEF IsAt
  <2>4. ASSUME t.owner = "bind", ~t.asked PROVE Guarded(t)
    <3>1. ~AsksToShare(a) /\ t.options = Configured(a, granted) /\ t.kind = a.kind
      BY <1>2, <2>3, <2>4 DEF chosen
    <3> QED
      BY <3>1 DEF AsksToShare, TakeoverRequested, Configured, Guarded
  <2>5. \A u \in table : NotShared(t, u) /\ NotShared(u, t)
    BY <2>3 DEF NotShared, Overlap
  <2> QED
    BY <1>1, <1>3, <2>3, <2>4, <2>5, BecomesPreserves DEF t
<1> QED
  BY <1>1, <1>3, FailsPreserves DEF Configure

\* The port is free for it by the kernel's rule, and then nobody shares it unasked.
LEMMA BindPreserves ==
    ASSUME IInv, Bind, UNCHANGED opVars PROVE IInv'
<1> USE DEF opVars
<1> DEFINE a == attempt.args
           s(p) == [Current EXCEPT !.port = p]
           next == IF a.listen /\ a.kind = "tcp" THEN "listen"
                   ELSE IF a.owner = "multicast" THEN "join" ELSE "ok"
<1>1. Holding /\ attempt.step = "bind" /\ UNCHANGED platform
  BY DEF Bind, Holding
<1>2. /\ Current \in table /\ Current.fd = attempt.fd /\ IsSocket(Current)
      /\ Current.kind \in {"udp", "tcp"}
      /\ ~Current.listening /\ Current.joined \subseteq a.groups
      /\ a.owner = "multicast" => a.kind = "udp"
      /\ a.owner \in {"bind", "multicast"}
  BY <1>1, CurrentIsTheOne DEF IInv, CurrentIsAsked, IsAt, Shapes, IsAttempt, None
<1>3. ASSUME NEW p \in (IF a.port = 0 THEN Ephemeral ELSE {a.port}), ~InUse(s(p)),
             Becomes(s(p), next)
      PROVE  IInv'
  <2> DEFINE t == s(p)
  <2>1. p # 0
    BY <1>3, PortsAssumption
  <2>2. /\ IsSocket(t) /\ t.fd = Current.fd /\ t.owner = Current.owner
        /\ t.kind = Current.kind /\ t.host = Current.host /\ t.asked = Current.asked
        /\ t.port = p /\ t.options = Current.options
        /\ t.listening = Current.listening /\ t.joined = Current.joined
    BY <1>2 DEF IsSocket
  <2>3. \A u \in table : u.fd # t.fd => ~Blocks(u, t)
    BY <1>3 DEF InUse
  <2> HIDE DEF t
  <2>4. t.owner = "bind" /\ ~t.asked => Guarded(t)
    BY <1>1, <1>2, <2>2 DEF IInv, UnaskedIsGuarded, Guarded
  <2>5. ASSUME NEW u \in table, u.fd # t.fd PROVE NotShared(t, u) /\ NotShared(u, t)
    <3>1. CASE ~Overlap(u, t)
      BY <3>1, OverlapIsSymmetric DEF NotShared
    <3>2. CASE Overlap(u, t)
      <4>1. u.owner = "bind" /\ ~u.asked /\ u.port # 0 => Guarded(u)
        BY <1>1, <1>2, <2>2, <2>5 DEF IInv, UnaskedIsGuarded, Held
      <4>2. Guarded(u) \/ Guarded(t) => u.kind = "tcp" /\ ~u.listening
        BY <2>3, <2>5, <3>2, GuardedExcludes DEF IInv, Shapes
      <4>3. t.kind = u.kind
        BY <3>2 DEF Overlap
      <4> QED
        BY <2>4, <4>1, <4>2, <4>3 DEF NotShared
    <3> QED
      BY <3>1, <3>2
  <2>6. next \in {"bind", "listen", "join", "ok"} /\ next # "bind"
    OBVIOUS
  <2>7. IsAt(t, next, a)
    BY <1>2, <1>3, <2>1, <2>2 DEF IsAt
  <2> QED
    BY <1>1, <1>3, <2>2, <2>4, <2>5, <2>6, <2>7, BecomesPreserves DEF t
<1>4. ASSUME NEW error, Fails(error) PROVE IInv'
  BY <1>1, <1>4, FailsPreserves
<1> QED
  BY <1>1, <1>3, <1>4 DEF Bind

\* Streams that share a port until one listens: the second to listen is refused.
LEMMA ListensPreserves ==
    ASSUME IInv, Listens, UNCHANGED opVars PROVE IInv'
<1> USE DEF opVars
<1> DEFINE s == [Current EXCEPT !.listening = TRUE]
<1>1. Holding /\ attempt.step = "listen" /\ UNCHANGED platform
  BY DEF Listens, Holding
<1>2. /\ Current \in table /\ Current.fd = attempt.fd /\ IsSocket(Current)
      /\ Current.kind \in {"udp", "tcp"} /\ Current.port # 0
      /\ IsAt(Current, "listen", attempt.args)
      /\ attempt.args.owner = "multicast" => attempt.args.kind = "udp"
  BY <1>1, CurrentIsTheOne DEF IInv, Shapes, CurrentIsAsked, IsAt, IsAttempt, None
<1>3. /\ IsSocket(s) /\ s.fd = Current.fd /\ s.owner = Current.owner
      /\ s.kind = Current.kind /\ s.host = Current.host /\ s.asked = Current.asked
      /\ s.port = Current.port /\ s.options = Current.options /\ s.device = Current.device
      /\ s.listening /\ s.joined = Current.joined
  BY <1>2, WithListening
<1>4. CASE \E old \in table : old.fd # s.fd /\ old.listening /\ Blocks(old, s)
  BY <1>1, <1>4, FailsPreserves DEF Listens
<1>5. CASE ~\E old \in table : old.fd # s.fd /\ old.listening /\ Blocks(old, s)
  <2>1. Becomes(s, "ok")
    BY <1>5 DEF Listens
  <2> HIDE DEF s
  <2>2. s.owner = "bind" /\ ~s.asked => Guarded(s)
    BY <1>1, <1>2, <1>3 DEF IInv, UnaskedIsGuarded, Guarded
  <2>3. ASSUME NEW u \in table, u.fd # s.fd PROVE NotShared(s, u) /\ NotShared(u, s)
    <3>1. CASE ~Overlap(u, s)
      BY <3>1, OverlapIsSymmetric DEF NotShared
    <3>2. CASE Overlap(u, s) /\ u.kind = "udp"
      <4>1. Overlap(u, Current) /\ Overlap(Current, u) /\ Current.kind = "udp"
        BY <1>3, <3>2, OverlapIsSymmetric DEF Overlap, Reaches
      <4> QED
        BY <1>2, <1>3, <2>3, <3>2, <4>1 DEF IInv, SharedOnlyByName, NotShared
    <3>3. CASE Overlap(u, s) /\ u.listening
      <4>1. u.owner = "bind" /\ ~u.asked /\ u.port # 0 => Guarded(u)
        BY <1>1, <1>2, <1>3, <2>3 DEF IInv, UnaskedIsGuarded, Held
      <4>2. ~Guarded(u) /\ ~Guarded(s)
        BY <1>5, <2>3, <3>3, GuardedExcludes DEF IInv, Shapes
      <4> QED
        BY <2>2, <4>1, <4>2 DEF NotShared
    <3>4. CASE Overlap(u, s) /\ u.kind # "udp" /\ ~u.listening
      BY <3>4 DEF NotShared, Overlap
    <3> QED
      BY <3>1, <3>2, <3>3, <3>4
  <2>4. IsAt(s, "ok", attempt.args)
    BY <1>2, <1>3 DEF IsAt
  <2> QED
    BY <1>1, <1>2, <1>3, <2>1, <2>2, <2>3, <2>4, BecomesPreserves
<1> QED
  BY <1>4, <1>5

\* Joining groups changes nothing that other sockets see.
LEMMA JoinsPreserves ==
    ASSUME IInv, Joins PROVE IInv'
<1>1. Holding /\ attempt.step = "join" /\ UNCHANGED platform /\ UNCHANGED opVars
  BY DEF Joins, Holding
<1>2. /\ Current \in table /\ Current.fd = attempt.fd /\ IsSocket(Current)
      /\ Current.port # 0 /\ IsAt(Current, "join", attempt.args)
      /\ attempt.args.owner = "multicast" /\ attempt.args.kind = "udp"
  BY <1>1, CurrentIsTheOne DEF IInv, Shapes, CurrentIsAsked, IsAt, IsAttempt, None
<1>3. ASSUME NEW s, IsSocket(s), s.fd = Current.fd, s.owner = Current.owner,
             s.kind = Current.kind, s.host = Current.host, s.asked = Current.asked,
             s.port = Current.port, s.options = Current.options, s.device = Current.device,
             s.listening = Current.listening, s.joined \subseteq attempt.args.groups,
             NEW step \in {"join", "ok"}, Becomes(s, step),
             step = "ok" => s.joined = attempt.args.groups
      PROVE  IInv'
  <2>1. s.owner = "bind" /\ ~s.asked => Guarded(s)
    BY <1>1, <1>2, <1>3 DEF IInv, UnaskedIsGuarded, Guarded
  <2>2. ASSUME NEW u \in table, u.fd # s.fd PROVE NotShared(s, u) /\ NotShared(u, s)
    <3>1. (Overlap(s, u) => Overlap(Current, u)) /\ (Overlap(u, s) => Overlap(u, Current))
      BY <1>3 DEF Overlap, Reaches
    <3> QED
      BY <1>2, <1>3, <2>2, <3>1 DEF IInv, SharedOnlyByName, NotShared
  <2>3. IsAt(s, step, attempt.args)
    BY <1>2, <1>3 DEF IsAt
  <2> QED
    BY <1>1, <1>2, <1>3, <2>1, <2>2, <2>3, BecomesPreserves
<1>4. ASSUME NEW joined \in SUBSET attempt.args.groups, NEW step \in {"join", "ok"},
             step = "ok" => joined = attempt.args.groups,
             Becomes([Current EXCEPT !.joined = joined], step)
      PROVE  IInv'
  <2> DEFINE s == [Current EXCEPT !.joined = joined]
  <2>1. /\ IsSocket(s) /\ s.fd = Current.fd /\ s.owner = Current.owner
        /\ s.kind = Current.kind /\ s.host = Current.host /\ s.asked = Current.asked
        /\ s.port = Current.port /\ s.options = Current.options /\ s.device = Current.device
        /\ s.listening = Current.listening /\ s.joined = joined
    BY <1>2 DEF IsSocket
  <2> HIDE DEF s
  <2> QED
    BY <1>3, <1>4, <2>1 DEF s
<1>5. CASE attempt.args.groups = {} /\ Becomes(Current, "ok")
  BY <1>2, <1>3, <1>5 DEF IsAt
<1>6. CASE Fails("refused")
  BY <1>1, <1>6, FailsPreserves
<1>7. CASE \E g \in attempt.args.groups \ Current.joined :
              Becomes([Current EXCEPT !.joined = @ \cup {g}],
                      IF attempt.args.groups = Current.joined \cup {g} THEN "ok" ELSE "join")
  <2>1. PICK g \in attempt.args.groups :
           Becomes([Current EXCEPT !.joined = Current.joined \cup {g}],
                   IF attempt.args.groups = Current.joined \cup {g} THEN "ok" ELSE "join")
    BY <1>7
  <2>2. Current.joined \cup {g} \in SUBSET attempt.args.groups
    BY <1>2 DEF IsAt
  <2> QED
    BY <1>4, <2>1, <2>2
<1> QED
  BY <1>5, <1>6, <1>7 DEF Joins
-----------------------------------------------------------------------------
\* Another program's socket is refused where a guarded one is.
LEMMA OtherBindsPreserves ==
    ASSUME IInv, OtherBinds(OtherHosts), UNCHANGED opVars PROVE IInv'
<1> USE DEF opVars
<1>1. PICK h \in OtherHosts, p \in Ports, kind \in {"udp", "tcp"}, reuse \in BOOLEAN :
         LET s == [fd |-> NewFd, owner |-> "other", kind |-> kind, host |-> h, port |-> p,
                   options |-> IF reuse THEN {"reuseaddr"} ELSE {}, asked |-> reuse,
                   device |-> 0, listening |-> kind = "tcp", joined |-> {}]
         IN  ~InUse(s) /\ table' = table \cup {s}
  BY DEF OtherBinds
<1> DEFINE s == [fd |-> NewFd, owner |-> "other", kind |-> kind, host |-> h, port |-> p,
                 options |-> IF reuse THEN {"reuseaddr"} ELSE {}, asked |-> reuse,
                 device |-> 0, listening |-> kind = "tcp", joined |-> {}]
<1>2. /\ ~InUse(s) /\ table' = table \cup {s} /\ Room
      /\ UNCHANGED <<platform, attempt, opVars>>
  BY <1>1 DEF OtherBinds
<1>3. IsSocket(s) /\ s.fd = NewFd /\ s.owner = "other" /\ s.kind \in {"udp", "tcp"}
  BY DEF IsSocket
<1> HIDE DEF s
<1>4. NewFd \in 1..MaxSockets /\ \A t \in table : t.fd # NewFd
  BY <1>2, NewFdIsFree DEF Free
<1>5. Holding' = Holding /\ Held' = Held /\ (Holding => attempt.fd # NewFd)
  BY <1>2, <1>4 DEF Holding, Held, IInv, CurrentIsAsked
<1>6. Shapes'
  BY <1>2, <1>3, <1>4 DEF IInv, Shapes
<1>7. Phases'
  BY <1>2, <1>5 DEF IInv, Phases
<1>8. UniqueFds'
  BY <1>2, <1>3, <1>4 DEF IInv, UniqueFds
<1>9. CurrentIsAsked'
  <2>1. AsksToShare(attempt.args)' <=> AsksToShare(attempt.args)
    BY <1>2 DEF AsksToShare, TakeoverRequested, SharesByAddress
  <2> QED
    BY <1>2, <1>3, <1>5, <2>1 DEF IInv, CurrentIsAsked
<1>10. Owned'
  <2>1. NewFd \notin handles \cup call.opened \cup Held
    BY <1>4, <1>5 DEF IInv, Owned, Held
  <2>2. \A t \in table' : t.owner # "other" <=> t.fd \in handles' \cup call'.opened \cup Held'
    BY <1>2, <1>3, <1>5, <2>1 DEF IInv, Owned
  <2>3. \A fd \in handles' \cup call'.opened : \E t \in table' : t.fd = fd
    BY <1>2 DEF IInv, Owned
  <2>4. \A t \in table' : t.owner # "other" /\ t.port = 0 => t.fd \in Held'
    BY <1>2, <1>3, <1>5 DEF IInv, Owned
  <2> QED
    BY <1>2, <1>5, <2>2, <2>3, <2>4 DEF IInv, Owned, Ended
<1>11. UnaskedIsGuarded'
  BY <1>2, <1>3, <1>5 DEF IInv, UnaskedIsGuarded, Guarded
<1>12. AddressFirst'
  BY <1>2 DEF IInv, AddressFirst, Keeps
<1>13. OpenedThere'
  <2>1. NewFd \notin call.opened
    BY <1>4 DEF IInv, Owned
  <2> QED
    BY <1>2, <1>3, <2>1 DEF IInv, OpenedThere, Keeps, Ended
<1>14. SharedOnlyByName'
  <2>1. ASSUME NEW t \in table, t.owner = "bind", t.port # 0, Overlap(t, s),
               t.kind = "udp" \/ t.listening, ~t.asked
        PROVE  FALSE
    <3>1. t.fd \notin Held \/ attempt.step # "configure"
      BY <2>1 DEF IInv, CurrentIsAsked, IsAt, Held
    <3>2. Guarded(t)
      BY <2>1, <3>1 DEF IInv, UnaskedIsGuarded
    <3>3. ~Blocks(t, s)
      BY <1>2, <1>3, <1>4 DEF InUse
    <3>4. t.kind = "tcp" /\ ~t.listening
      BY <2>1, <3>2, <3>3, GuardedExcludes DEF IInv, Shapes
    <3> QED
      BY <2>1, <3>4
  <2> QED
    BY <1>2, <1>3, <2>1 DEF IInv, SharedOnlyByName
<1> QED
  BY <1>6, <1>7, <1>8, <1>9, <1>10, <1>11, <1>12, <1>13, <1>14 DEF IInv

\* Another program's sockets are none of the library's.
LEMMA OtherClosesPreserves ==
    ASSUME IInv, OtherCloses, UNCHANGED opVars PROVE IInv'
<1> USE DEF opVars
<1>1. /\ \A s : s \in table' <=> s \in table /\ s.owner # "other"
      /\ UNCHANGED <<platform, attempt, opVars>>
  BY DEF OtherCloses
<1>2. Holding' = Holding /\ Held' = Held
  BY <1>1 DEF Holding, Held
<1>3. Shapes'
  BY <1>1 DEF IInv, Shapes
<1>4. Phases'
  BY <1>1, <1>2 DEF IInv, Phases
<1>5. UniqueFds'
  BY <1>1 DEF IInv, UniqueFds
<1>6. CurrentIsAsked'
  <2>1. AsksToShare(attempt.args)' <=> AsksToShare(attempt.args)
    BY <1>1 DEF AsksToShare, TakeoverRequested, SharesByAddress
  <2>2. Holding => \A s \in table : s.fd = attempt.fd => s.owner # "other"
    BY DEF IInv, Owned, Held
  <2> QED
    BY <1>1, <1>2, <2>1, <2>2 DEF IInv, CurrentIsAsked
<1>7. Owned'
  <2>1. \A fd \in handles' \cup call'.opened : \E t \in table' : t.fd = fd
    BY <1>1 DEF IInv, Owned
  <2> QED
    BY <1>1, <1>2, <2>1 DEF IInv, Owned, Ended
<1>8. UnaskedIsGuarded'
  BY <1>1, <1>2 DEF IInv, UnaskedIsGuarded, Guarded
<1>9. AddressFirst'
  BY <1>1 DEF IInv, AddressFirst, Keeps
<1>10. OpenedThere'
  BY <1>1 DEF IInv, OpenedThere, Keeps, Ended
<1>11. SharedOnlyByName'
  BY <1>1 DEF IInv, SharedOnlyByName
<1> QED
  BY <1>3, <1>4, <1>5, <1>6, <1>7, <1>8, <1>9, <1>10, <1>11 DEF IInv
-----------------------------------------------------------------------------
\* The steps of the operations above bind: they pass descriptors on or close them, and
\* begin or end an attempt, but change no socket.
LEMMA OperationPreserves ==
    ASSUME IInv, Holding => attempt.step = "ok", UNCHANGED platform, IsCall(call'),
           NEW gone, \A s : s \in table' <=> s \in table /\ s.fd \notin gone,
           \/ attempt' = None /\ call'.step # "trying"
           \/ /\ IsAttempt(attempt') /\ attempt'.step \in {"create", "failed"}
              /\ attempt'.fd = 0 /\ call'.step = "trying",
           \A fd : fd \in handles' \cup call'.opened
                     <=> fd \in handles \cup call.opened \cup Held /\ fd \notin gone,
           IF call'.step = "ended" THEN call'.opened \subseteq handles'
                                   ELSE call'.opened \cap handles' = {},
           call'.op # "listen" /\ call'.step # "ended" => call'.opened = {},
           \A e \in endpoints' : e.fd \in handles' \cup call'.opened,
           AddressFirst', OpenedThere'
    PROVE  IInv'
<1>1. /\ attempt' = None \/ IsAttempt(attempt')
      /\ ~Holding' /\ Held' = {}
  BY DEF None, Holding, Held
<1>2. Shapes'
  BY <1>1 DEF IInv, Shapes
<1>3. Phases'
  BY <1>1 DEF IInv, Phases, IsAttempt, None
<1>4. UniqueFds'
  BY DEF IInv, UniqueFds
<1>5. CurrentIsAsked'
  BY <1>1 DEF CurrentIsAsked
<1>6. Owned'
  <2>1. \A s \in table' : s.owner # "other" <=> s.fd \in handles' \cup call'.opened \cup Held'
    BY <1>1 DEF IInv, Owned
  <2>2. \A fd \in handles' \cup call'.opened : \E s \in table' : s.fd = fd
    BY DEF IInv, Owned, CurrentIsAsked, IsAt, Held
  <2>3. \A s \in table' : s.owner # "other" => s.port # 0
    BY DEF IInv, Owned, CurrentIsAsked, IsAt, Held
  <2> QED
    BY <1>1, <2>1, <2>2, <2>3 DEF Owned, Ended
<1>7. UnaskedIsGuarded'
  BY DEF IInv, UnaskedIsGuarded, Guarded, Held
<1>8. SharedOnlyByName'
  BY DEF IInv, SharedOnlyByName
<1> QED
  BY <1>2, <1>3, <1>4, <1>5, <1>6, <1>7, <1>8 DEF IInv

\* An operation that ends is the same operation with its result.
LEMMA ResultIsACall ==
    ASSUME IsCall(call), NEW result
    PROVE  /\ IsCall(Result(result)) /\ Result(result).op = call.op
           /\ Result(result).step = "ended" /\ Result(result).result = result
           /\ Result(result).opened = call.opened /\ Result(result).wants = call.wants
           /\ Result(result).failed = call.failed
<1>1. PICK r : r = [call EXCEPT !.step = "ended", !.result = result]
  OBVIOUS
<1>2. r = [op |-> call.op, step |-> "ended", todo |-> call.todo, result |-> result,
           opened |-> call.opened, failed |-> call.failed, wants |-> call.wants,
           options |-> call.options]
  BY <1>1 DEF IsCall
<1>3. /\ IsCall(r) /\ r.op = call.op /\ r.step = "ended" /\ r.result = result
      /\ r.opened = call.opened /\ r.wants = call.wants /\ r.failed = call.failed
  BY <1>2 DEF IsCall
<1> QED
  BY <1>1, <1>3 DEF Result

\* The arguments of a call have their fields.
LEMMA ArgsOfCalls == ASSUME NEW a \in BindArgs
    PROVE  /\ IsArgs(a) /\ a.owner \in {"bind", "multicast"} /\ a.kind \in {"udp", "tcp"}
           /\ a.owner = "multicast" => a.kind = "udp"
BY DEF BindArgs, IsArgs

\* So have those reply_socket passes on.
LEMMA ArgsAreArgs ==
    ASSUME NEW host, NEW port, NEW options
    PROVE  LET a == Args("bind", host, port, options)
           IN  /\ IsArgs(a) /\ a.owner = "bind" /\ a.kind = "udp" /\ a.interface = 0
               /\ a.host = host
BY DEF IsArgs, Args

\* So have those bind_listen passes on.
LEMMA ListenArgsAreArgs ==
    ASSUME NEW p, NEW device
    PROVE  LET a == ListenArgs(p, device)
           IN  IsArgs(a) /\ a.owner = "bind" /\ a.kind = "udp"
<1>1. PICK v6only : v6only = IF Family(p.host.ip) = 6 THEN {"v6only"} ELSE {}
  OBVIOUS
<1>2. PICK b : b = Args("bind", p.host, p.port, v6only)
  OBVIOUS
<1>3. PICK a : a = [b EXCEPT !.device = device,
                            !.allow_address_takeover = call.options.takeover]
  OBVIOUS
<1>4. IsArgs(b) /\ b.owner = "bind" /\ b.kind = "udp"
  BY <1>2, ArgsAreArgs
<1>5. IsArgs(a) /\ a.owner = b.owner /\ a.kind = b.kind
  BY <1>3, <1>4 DEF IsArgs
<1>6. a = ListenArgs(p, device)
  BY <1>1, <1>2, <1>3 DEF ListenArgs
<1> QED
  BY <1>4, <1>5, <1>6

\* bind and multicast_socket begin with an attempt.
LEMMA CallBindPreserves ==
    ASSUME IInv, CallBind PROVE IInv'
<1>1. PICK a \in Calls : /\ call' = [Called("bind", <<>>) EXCEPT !.step = "trying"]
                         /\ attempt' \in Begun(a)
  BY DEF CallBind
<1>2. /\ IsAttempt(attempt') /\ attempt'.step \in {"create", "failed"} /\ attempt'.fd = 0
  BY <1>1, CallsAssumption, ArgsOfCalls, BegunIsAnAttempt
<1>3. /\ IsCall(call') /\ call'.op = "bind" /\ call'.step = "trying" /\ call'.opened = {}
  BY <1>1 DEF Called, IsCall
<1>4. /\ Ended /\ ~Holding /\ Held = {} /\ UNCHANGED <<platform, table, endpoints, handles>>
  BY DEF CallBind, Quiet, IInv, Phases, Ended, Holding, Held, None
<1>5. call.opened \subseteq handles /\ \A e \in endpoints : e.fd \in handles
  BY <1>4 DEF IInv, Owned
<1>6. AddressFirst' /\ OpenedThere'
  BY <1>3 DEF AddressFirst, OpenedThere, Keeps
<1> QED
  BY <1>2, <1>3, <1>4, <1>5, <1>6, OperationPreserves

\* The application gets the socket of an attempt that succeeded.
LEMMA BindsPreserves ==
    ASSUME IInv, Binds PROVE IInv'
<1>1. /\ call.op = "bind" /\ call.step = "trying" /\ Idle /\ attempt' = None
      /\ UNCHANGED <<platform, table, endpoints>> /\ IsCall(call)
      /\ call.opened = {} /\ (Holding => attempt.step = "ok")
  BY DEF Binds, IInv, Shapes, Phases, Idle, Holding
<1>2. \E result : call' = Result(result)
  BY DEF Binds
<1>3. IsCall(call') /\ call'.op = "bind" /\ call'.step = "ended" /\ call'.opened = {}
  BY <1>1, <1>2, ResultIsACall
<1>4. handles' = handles \cup Held
  BY <1>1 DEF Binds, Held, Holding, Idle
<1>5. AddressFirst' /\ OpenedThere'
  BY <1>3 DEF AddressFirst, OpenedThere, Keeps
<1>6. \A e \in endpoints : e.fd \in handles
  BY <1>1 DEF IInv, Owned
<1> QED
  BY <1>1, <1>3, <1>4, <1>5, <1>6, OperationPreserves

\* bind_listen begins with a plan and no socket.
LEMMA CallListenPreserves ==
    ASSUME IInv, CallListen PROVE IInv'
<1>1. \E l, plans :
         LET begun == [Called("listen", plans) EXCEPT !.options = l]
         IN  \/ call' = [begun EXCEPT !.step = "ended", !.result = "value"]
             \/ call' = begun
  BY DEF CallListen
<1>2. /\ IsCall(call') /\ call'.op = "listen" /\ call'.step \in {"next", "ended"}
      /\ call'.opened = {}
  BY <1>1 DEF Called, IsCall
<1>3. /\ Ended /\ ~Holding /\ Held = {} /\ attempt' = None
      /\ UNCHANGED <<platform, table, endpoints, handles>>
  BY DEF CallListen, Quiet, bindVars, IInv, Phases, Ended, Holding, Held, None
<1>4. call.opened \subseteq handles /\ \A e \in endpoints : e.fd \in handles
  BY <1>3 DEF IInv, Owned
<1>5. AddressFirst' /\ OpenedThere'
  BY <1>2 DEF AddressFirst, OpenedThere, Keeps
<1> QED
  BY <1>2, <1>3, <1>4, <1>5, OperationPreserves

\* With the plan done, the application gets all that was opened.
LEMMA OpenNextPreserves ==
    ASSUME IInv, OpenNext PROVE IInv'
<1>1. /\ call.op = "listen" /\ call.step = "next" /\ attempt = None /\ IsCall(call)
      /\ ~Holding /\ Held = {} /\ UNCHANGED <<platform, table, endpoints>>
  BY DEF OpenNext, IInv, Shapes, Phases, Holding, Held, None
<1>2. call.opened \cap handles = {} /\ \A e \in endpoints : e.fd \in handles \cup call.opened
  BY <1>1 DEF IInv, Owned, Ended
<1>3. CASE call.todo = <<>>
  <2>1. /\ handles' = handles \cup call.opened /\ call' = Result("ok") /\ attempt' = None
    BY <1>1, <1>3 DEF OpenNext
  <2>2. /\ IsCall(call') /\ call'.op = "listen" /\ call'.step = "ended"
        /\ call'.opened = call.opened
    BY <1>1, <2>1, ResultIsACall
  <2>3. AddressFirst' /\ OpenedThere'
    BY <2>2 DEF AddressFirst, OpenedThere, Keeps
  <2> QED
    BY <1>1, <1>2, <2>1, <2>2, <2>3, OperationPreserves
<1>4. CASE call.todo # <<>>
  <2>1. /\ attempt' \in Begun(ListenArgs(Head(call.todo), Head(call.todo).device))
        /\ call' = [call EXCEPT !.step = "trying"] /\ UNCHANGED handles
    BY <1>4 DEF OpenNext
  <2>2. IsAttempt(attempt') /\ attempt'.step \in {"create", "failed"} /\ attempt'.fd = 0
    BY <2>1, ListenArgsAreArgs, BegunIsAnAttempt
  <2>3. /\ IsCall(call') /\ call'.op = "listen" /\ call'.step = "trying"
        /\ call'.opened = call.opened
    BY <1>1, <2>1 DEF IsCall
  <2>4. AddressFirst' /\ OpenedThere'
    BY <2>3 DEF AddressFirst, OpenedThere, Keeps
  <2> QED
    BY <1>1, <1>2, <2>1, <2>2, <2>3, <2>4, OperationPreserves
<1> QED
  BY <1>3, <1>4

\* The attempt's socket becomes the call's, or is closed with the call's others.
LEMMA ListeningPreserves ==
    ASSUME IInv, Listening PROVE IInv'
<1>1. /\ call.op = "listen" /\ call.step = "trying" /\ attempt.step = "ok" /\ attempt' = None
      /\ Holding /\ Held = {attempt.fd} /\ IsCall(call) /\ UNCHANGED <<platform, handles>>
  BY DEF Listening, IInv, Shapes, Holding, Held
<1>2. /\ call.opened \cap handles = {} /\ attempt.fd \notin handles \cup call.opened
      /\ \A e \in endpoints : e.fd \in handles \cup call.opened
  BY <1>1 DEF IInv, Owned, Ended
<1>3. CASE /\ endpoints' = endpoints \cup {EndpointOf(Head(call.todo), attempt.fd)}
           /\ call' = [call EXCEPT !.step = "next", !.todo = Tail(@),
                                   !.opened = @ \cup {attempt.fd}]
           /\ UNCHANGED table
  <2>1. /\ IsCall(call') /\ call'.op = "listen" /\ call'.step = "next"
        /\ call'.opened = call.opened \cup {attempt.fd}
    BY <1>1, <1>3 DEF IsCall
  <2>2. \A e \in endpoints' : e.fd \in handles' \cup call'.opened
    BY <1>1, <1>2, <1>3, <2>1 DEF EndpointOf
  <2>3. AddressFirst' /\ OpenedThere'
    BY <2>1 DEF AddressFirst, OpenedThere, Keeps
  <2> QED
    BY ZenonT(30), <1>1, <1>2, <1>3, <2>1, <2>2, <2>3, OperationPreserves
<1>4. CASE /\ table' = {s \in table : s.fd \notin call.opened \cup {attempt.fd}}
           /\ endpoints' = {e \in endpoints : e.fd \notin call.opened}
           /\ call' = [Result("refused") EXCEPT !.opened = {}]
  <2>1. IsCall(Result("refused")) /\ Result("refused").op = "listen"
        /\ Result("refused").step = "ended"
    BY <1>1, ResultIsACall
  <2>2. IsCall(call') /\ call'.op = "listen" /\ call'.step = "ended" /\ call'.opened = {}
    BY <1>4, <2>1 DEF IsCall
  <2>3. AddressFirst' /\ OpenedThere'
    BY <2>2 DEF AddressFirst, OpenedThere, Keeps
  <2> DEFINE gone == call.opened \cup {attempt.fd}
  <2>4. \A s : s \in table' <=> s \in table /\ s.fd \notin gone
    BY <1>4
  <2>5. \A fd : fd \in handles' \cup call'.opened
                  <=> fd \in handles \cup call.opened \cup Held /\ fd \notin gone
    BY <1>1, <1>2, <2>2
  <2>6. \A e \in endpoints' : e.fd \in handles' \cup call'.opened
    BY <1>1, <1>2, <1>4, <2>2
  <2> QED
    BY <1>1, <2>2, <2>3, <2>4, <2>5, <2>6, OperationPreserves
<1> QED
  BY <1>3, <1>4 DEF Listening

\* A failure is tried again without the device, or closes what the call has opened.
LEMMA ListenFailsPreserves ==
    ASSUME IInv, ListenFails PROVE IInv'
<1>1. /\ call.op = "listen" /\ call.step = "trying" /\ attempt.step = "failed"
      /\ ~Holding /\ Held = {} /\ IsCall(call) /\ UNCHANGED <<platform, handles>>
  BY DEF ListenFails, IInv, Shapes, Holding, Held
<1>2. /\ call.opened \cap handles = {}
      /\ \A e \in endpoints : e.fd \in handles \cup call.opened
  BY <1>1 DEF IInv, Owned, Ended
<1>3. CASE /\ attempt' \in Begun(ListenArgs(Head(call.todo), 0))
           /\ UNCHANGED <<table, endpoints, call>>
  <2>1. IsAttempt(attempt') /\ attempt'.step \in {"create", "failed"} /\ attempt'.fd = 0
    BY <1>3, ListenArgsAreArgs, BegunIsAnAttempt
  <2>2. AddressFirst' /\ OpenedThere'
    BY <1>1, <1>3 DEF AddressFirst, OpenedThere, Keeps
  <2> QED
    BY <1>1, <1>2, <1>3, <2>1, <2>2, OperationPreserves
<1>4. CASE CloseAll(attempt.error) /\ attempt' = None
  <2>1. PICK error : error = attempt.error
    OBVIOUS
  <2>2. IsCall(Result(error)) /\ Result(error).op = "listen" /\ Result(error).step = "ended"
    BY <1>1, ResultIsACall
  <2>3. call' = [Result(error) EXCEPT !.opened = {}]
    BY <1>4, <2>1 DEF CloseAll
  <2>4. IsCall(call') /\ call'.op = "listen" /\ call'.step = "ended" /\ call'.opened = {}
    BY <2>2, <2>3 DEF IsCall
  <2>5. AddressFirst' /\ OpenedThere'
    BY <2>4 DEF AddressFirst, OpenedThere, Keeps
  <2>6. /\ \A s : s \in table' <=> s \in table /\ s.fd \notin call.opened
        /\ \A e \in endpoints' : e.fd \in handles' \cup call'.opened
    BY <1>1, <1>2, <1>4 DEF CloseAll
  <2>7. \A fd : fd \in handles' \cup call'.opened
                  <=> fd \in handles \cup call.opened \cup Held /\ fd \notin call.opened
    BY <1>1, <1>2, <2>4
  <2> QED
    BY <1>1, <1>4, <2>4, <2>5, <2>6, <2>7, OperationPreserves
<1> QED
  BY <1>3, <1>4 DEF ListenFails
-----------------------------------------------------------------------------
\* The client's address is the first candidate where packet info reports it.
LEMMA ClientsAddressFirst ==
    ASSUME NEW s, NEW e, NEW d, e.pktinfo, d.unicast
    PROVE  /\ Candidates(s, e, d) # <<>>
           /\ Head(Candidates(s, e, d)) = Scoped(d.ip, d.adapter)
<1>1. PICK own, any, first : /\ own = Host(s.host.ip, 0) /\ any = Host(Wildcard(Sender(d)), 0)
                             /\ first = Scoped(d.ip, d.adapter)
  OBVIOUS
<1>2. \/ Candidates(s, e, d) = <<first>> \o (<<own>> \o <<any>>)
      \/ Candidates(s, e, d) = <<first>> \o (<<>> \o <<any>>)
  BY <1>1 DEF Candidates
<1>3. \A t \in Seq({first, own, any}) :
         <<first>> \o t # <<>> /\ Head(<<first>> \o t) = first
  OBVIOUS
<1>4. /\ <<own>> \o <<any>> \in Seq({first, own, any})
      /\ <<>> \o <<any>> \in Seq({first, own, any})
  OBVIOUS
<1> QED
  BY <1>1, <1>2, <1>3, <1>4

\* reply_socket begins with the candidates.
LEMMA CallReplyPreserves ==
    ASSUME IInv, CallReply PROVE IInv'
<1>1. PICK e \in endpoints, ports \in ReplyPorts :
         \E d \in Datagrams(CHOOSE s \in table : s.fd = e.fd) :
           call' = [Called("reply", Candidates(CHOOSE s \in table : s.fd = e.fd, e, d)) EXCEPT
                       !.wants = [known |-> e.pktinfo /\ d.unicast,
                                  address |-> Scoped(d.ip, d.adapter)],
                       !.options = [ports |-> ports, rest |-> ports]]
  BY DEF CallReply
<1>2. /\ Ended /\ ~Holding /\ Held = {} /\ attempt' = None
      /\ UNCHANGED <<platform, table, endpoints, handles>>
  BY DEF CallReply, Quiet, bindVars, IInv, Phases, Ended, Holding, Held, None
<1>3. call.opened \subseteq handles /\ \A f \in endpoints : f.fd \in handles
  BY <1>2 DEF IInv, Owned
<1>4. PICK s, d, todo, wants, options :
         /\ call' = [Called("reply", todo) EXCEPT !.wants = wants, !.options = options]
         /\ todo = Candidates(s, e, d)
         /\ wants = [known |-> e.pktinfo /\ d.unicast, address |-> Scoped(d.ip, d.adapter)]
  <2>1. PICK s, d : call' = [Called("reply", Candidates(s, e, d)) EXCEPT
                                !.wants = [known |-> e.pktinfo /\ d.unicast,
                                           address |-> Scoped(d.ip, d.adapter)],
                                !.options = [ports |-> ports, rest |-> ports]]
    BY <1>1
  <2>2. PICK todo, wants, options :
           /\ todo = Candidates(s, e, d) /\ options = [ports |-> ports, rest |-> ports]
           /\ wants = [known |-> e.pktinfo /\ d.unicast,
                       address |-> Scoped(d.ip, d.adapter)]
    OBVIOUS
  <2>3. call' = [Called("reply", todo) EXCEPT !.wants = wants, !.options = options]
    BY <2>1, <2>2
  <2> QED
    BY <2>2, <2>3
<1>5. call' = [op |-> "reply", step |-> "next", todo |-> todo, result |-> "none",
               opened |-> {}, failed |-> {}, wants |-> wants, options |-> options]
  BY <1>4 DEF Called
<1>6. /\ IsCall(call') /\ call'.op = "reply" /\ call'.step = "next" /\ call'.opened = {}
      /\ call'.todo = todo /\ call'.wants = wants
  BY <1>5 DEF IsCall
<1>7. wants.known => todo # <<>> /\ Head(todo) = wants.address
  BY <1>4, ClientsAddressFirst
<1>8. AddressFirst' /\ OpenedThere'
  BY <1>6, <1>7 DEF AddressFirst, OpenedThere, Keeps, Ended
<1> QED
  BY <1>2, <1>3, <1>6, <1>8, OperationPreserves

\* The first candidate is tried, and none is left only after the client's has failed.
LEMMA ReplyNextPreserves ==
    ASSUME IInv, ReplyNext PROVE IInv'
<1>1. /\ call.op = "reply" /\ call.step = "next" /\ attempt = None /\ IsCall(call)
      /\ ~Holding /\ Held = {} /\ UNCHANGED <<platform, table, endpoints, handles>>
      /\ call.opened = {}
  BY DEF ReplyNext, IInv, Shapes, Phases, Holding, Held, None
<1>2. \A e \in endpoints : e.fd \in handles
  BY <1>1 DEF IInv, Owned
<1>3. Keeps => call.todo # <<>> /\ Head(call.todo) = call.wants.address
  BY <1>1 DEF IInv, AddressFirst
<1>4. CASE call.todo = <<>>
  <2>1. call' = Result("refused") /\ attempt' = None
    BY <1>1, <1>4 DEF ReplyNext
  <2>2. /\ IsCall(call') /\ call'.op = "reply" /\ call'.step = "ended" /\ call'.opened = {}
        /\ call'.wants = call.wants /\ call'.failed = call.failed
    BY <1>1, <2>1, ResultIsACall
  <2>3. ~Keeps'
    BY <1>1, <1>3, <1>4, <2>2 DEF Keeps
  <2>4. AddressFirst' /\ OpenedThere'
    BY <2>3 DEF AddressFirst, OpenedThere
  <2> QED
    BY <1>1, <1>2, <2>1, <2>2, <2>4, OperationPreserves
<1>5. CASE call.todo # <<>>
  <2>1. PICK host, port : host = Head(call.todo) /\ port = Head(call.options.rest)
    OBVIOUS
  <2>2. /\ attempt' \in Begun(Args("bind", host, port, {}))
        /\ call' = [call EXCEPT !.step = "trying"]
    BY <1>5, <2>1 DEF ReplyNext
  <2>3. /\ IsAttempt(attempt') /\ attempt'.step \in {"create", "failed"} /\ attempt'.fd = 0
        /\ attempt'.args.host = host
    BY <2>2, ArgsAreArgs, BegunIsAnAttempt
  <2>4. /\ IsCall(call') /\ call'.op = "reply" /\ call'.step = "trying" /\ call'.opened = {}
        /\ call'.todo = call.todo /\ call'.wants = call.wants /\ call'.failed = call.failed
    BY <1>1, <2>2 DEF IsCall
  <2>5. AddressFirst' /\ OpenedThere'
    BY <1>1, <1>3, <2>1, <2>3, <2>4 DEF AddressFirst, OpenedThere, Keeps, Ended
  <2> QED
    BY <1>1, <1>2, <2>3, <2>4, <2>5, OperationPreserves
<1> QED
  BY <1>4, <1>5

\* A port that is taken keeps the candidate; only an address that failed is given up.
LEMMA ReplyEndsPreserves ==
    ASSUME IInv, ReplyEnds PROVE IInv'
<1>1. /\ call.op = "reply" /\ call.step = "trying" /\ attempt' = None /\ IsCall(call)
      /\ UNCHANGED <<platform, table, endpoints>> /\ call.opened = {}
  BY DEF ReplyEnds, IInv, Shapes, Phases
<1>2. \A e \in endpoints : e.fd \in handles
  BY <1>1 DEF IInv, Owned
<1>3. Keeps => /\ call.todo # <<>> /\ Head(call.todo) = call.wants.address
               /\ attempt.args.host = call.wants.address
  BY <1>1 DEF IInv, AddressFirst
<1>4. CASE attempt.step = "ok"
  <2>1. /\ handles' = handles \cup {attempt.fd}
        /\ call' = [Result("ok") EXCEPT !.opened = {attempt.fd}]
    BY <1>4 DEF ReplyEnds
  <2>2. Holding /\ Held = {attempt.fd}
    BY <1>4 DEF Holding, Held
  <2>3. /\ IsCall(Result("ok")) /\ Result("ok").op = "reply" /\ Result("ok").step = "ended"
        /\ Result("ok").result = "ok" /\ Result("ok").wants = call.wants
        /\ Result("ok").failed = call.failed
    BY <1>1, ResultIsACall
  <2>4. /\ IsCall(call') /\ call'.op = "reply" /\ call'.step = "ended" /\ call'.result = "ok"
        /\ call'.opened = {attempt.fd} /\ call'.wants = call.wants
        /\ call'.failed = call.failed
    BY <2>1, <2>3 DEF IsCall
  <2>5. AddressFirst'
    BY <2>4 DEF AddressFirst
  <2>6. OpenedThere'
    BY <1>1, <1>3, <2>2, <2>4 DEF OpenedThere, Keeps, IInv, CurrentIsAsked
  <2> QED
    BY <1>1, <1>2, <1>4, <2>1, <2>2, <2>4, <2>5, <2>6, OperationPreserves
<1>5. CASE attempt.step = "failed"
  <2>1. /\ call' = (IF attempt.error = "in_use" THEN NextPort ELSE NextAddress)
        /\ UNCHANGED handles
    BY <1>5 DEF ReplyEnds
  <2>2. ~Holding /\ Held = {}
    BY <1>5 DEF Holding, Held
  <2>3. CASE call' = Result("in_use")
    <3>1. /\ IsCall(call') /\ call'.op = "reply" /\ call'.step = "ended"
          /\ call'.opened = {} /\ call'.result = "in_use"
      BY <1>1, <2>3, ResultIsACall
    <3>2. AddressFirst' /\ OpenedThere'
      BY <3>1 DEF AddressFirst, OpenedThere
    <3> QED
      BY <1>1, <1>2, <2>1, <2>2, <3>1, <3>2, OperationPreserves
  <2>4. CASE call' = [call EXCEPT !.step = "next", !.options.rest = Tail(@)]
    <3>1. PICK options : call' = [call EXCEPT !.step = "next", !.options = options]
      BY <2>4
    <3>2. /\ IsCall(call') /\ call'.op = "reply" /\ call'.step = "next"
          /\ call'.opened = {} /\ call'.todo = call.todo /\ call'.wants = call.wants
          /\ call'.failed = call.failed
      BY <1>1, <3>1 DEF IsCall
    <3>3. AddressFirst' /\ OpenedThere'
      BY <1>1, <1>3, <3>2 DEF AddressFirst, OpenedThere, Keeps, Ended
    <3> QED
      BY <1>1, <1>2, <2>1, <2>2, <3>2, <3>3, OperationPreserves
  <2>5. CASE call' = NextAddress
    <3>1. PICK options, todo, host :
             /\ host = attempt.args.host
             /\ call' = [call EXCEPT !.step = "next", !.todo = todo, !.options = options,
                                     !.failed = @ \cup {host}]
      BY <2>5 DEF NextAddress
    <3>2. /\ IsCall(call') /\ call'.op = "reply" /\ call'.step = "next"
          /\ call'.opened = {} /\ call'.wants = call.wants
          /\ call'.failed = call.failed \cup {host}
      BY <1>1, <3>1 DEF IsCall
    <3>3. ~Keeps'
      BY <1>1, <1>3, <3>1, <3>2 DEF Keeps
    <3>4. AddressFirst' /\ OpenedThere'
      BY <3>3 DEF AddressFirst, OpenedThere
    <3> QED
      BY <1>1, <1>2, <2>1, <2>2, <3>2, <3>4, OperationPreserves
  <2> QED
    BY <2>1, <2>3, <2>4, <2>5 DEF NextPort
<1> QED
  BY <1>4, <1>5 DEF ReplyEnds

\* The application closes a socket, and its endpoint with it.
LEMMA ClosePreserves ==
    ASSUME IInv, Close PROVE IInv'
<1>1. PICK fd \in handles : /\ table' = {s \in table : s.fd # fd}
                            /\ endpoints' = {e \in endpoints : e.fd # fd}
                            /\ handles' = handles \ {fd}
  BY DEF Close
<1>2. /\ Ended /\ IsCall(call) /\ attempt = None /\ attempt' = None /\ UNCHANGED platform
      /\ ~Holding /\ Held = {} /\ call' = [call EXCEPT !.op = "closed", !.opened = {}]
  BY DEF Close, IInv, Shapes, Phases, Ended, Holding, Held, None
<1>3. call.opened \subseteq handles /\ \A e \in endpoints : e.fd \in handles
  BY <1>2 DEF IInv, Owned
<1>4. IsCall(call') /\ call'.op = "closed" /\ call'.step = "ended" /\ call'.opened = {}
  BY <1>2 DEF IsCall, Ended
<1>5. AddressFirst' /\ OpenedThere'
  BY <1>4 DEF AddressFirst, OpenedThere, Keeps
<1>6. \A s : s \in table' <=> s \in table /\ s.fd \notin {fd}
  BY <1>1
<1>7. \A f : f \in handles' \cup call'.opened
               <=> f \in handles \cup call.opened \cup Held /\ f \notin {fd}
  BY <1>1, <1>2, <1>3, <1>4
<1>8. \A e \in endpoints' : e.fd \in handles'
  BY <1>1, <1>3
<1> QED
  BY <1>2, <1>4, <1>5, <1>6, <1>7, <1>8, OperationPreserves
-----------------------------------------------------------------------------
\* The descriptors' invariant, for any constants.
THEOREM Invariance == Spec => []IInv
<1>1. Init => IInv
  <2> SUFFICES ASSUME Init PROVE IInv
    OBVIOUS
  <2>1. /\ IsCall(call) /\ call.op = "bind" /\ call.step = "ended" /\ call.opened = {}
    BY DEF Init, Called, IsCall
  <2>2. attempt = None /\ ~Holding /\ Held = {} /\ table = {}
    BY DEF Init, Holding, Held, None
  <2>3. Shapes /\ Phases /\ UniqueFds
    BY <2>1, <2>2 DEF Init, Shapes, Phases, UniqueFds
  <2>4. CurrentIsAsked /\ Owned /\ UnaskedIsGuarded
    BY <2>1, <2>2 DEF Init, CurrentIsAsked, Owned, UnaskedIsGuarded
  <2>5. AddressFirst /\ OpenedThere /\ SharedOnlyByName
    BY <2>1, <2>2 DEF AddressFirst, OpenedThere, SharedOnlyByName, Keeps
  <2> QED
    BY <2>3, <2>4, <2>5 DEF IInv
<1>2. IInv /\ [Next]_vars => IInv'
  <2> SUFFICES ASSUME IInv, [Next]_vars PROVE IInv'
    OBVIOUS
  <2>1. CASE CallBind
    BY <2>1, CallBindPreserves
  <2>2. CASE CallListen
    BY <2>2, CallListenPreserves
  <2>3. CASE CallReply
    BY <2>3, CallReplyPreserves
  <2>4. CASE BindStep /\ UNCHANGED opVars
    BY <2>4, CreatePreserves, ConfigurePreserves, BindPreserves, ListensPreserves DEF BindStep
  <2>5. CASE Joins
    BY <2>5, JoinsPreserves
  <2>6. CASE Binds
    BY <2>6, BindsPreserves
  <2>7. CASE OpenNext
    BY <2>7, OpenNextPreserves
  <2>8. CASE Listening
    BY <2>8, ListeningPreserves
  <2>9. CASE ListenFails
    BY <2>9, ListenFailsPreserves
  <2>10. CASE ReplyNext
    BY <2>10, ReplyNextPreserves
  <2>11. CASE ReplyEnds
    BY <2>11, ReplyEndsPreserves
  <2>12. CASE Close
    BY <2>12, ClosePreserves
  <2>13. CASE Others
    BY <2>13, OtherBindsPreserves, OtherClosesPreserves DEF Others
  <2>14. CASE UNCHANGED vars
    BY <2>14 DEF vars, bindVars, IInv, Shapes, Phases, UniqueFds, CurrentIsAsked, Owned,
          UnaskedIsGuarded, AddressFirst, OpenedThere, SharedOnlyByName, Holding, Held, Keeps,
          Ended, Guarded, AsksToShare, TakeoverRequested, SharesByAddress
  <2> QED
    BY <2>1, <2>2, <2>3, <2>4, <2>5, <2>6, <2>7, <2>8, <2>9, <2>10, <2>11, <2>12, <2>13,
       <2>14 DEF Next
<1> QED
  BY <1>1, <1>2, PTL DEF Spec

\* No datagram and no connection of a bound socket is also another socket's, of this or of
\* another program and on either kind of kernel, unless the call asked to share by name.
THEOREM NoSilentTheft == Spec => []SharedOnlyByName
<1>1. IInv => SharedOnlyByName
  BY DEF IInv
<1> QED
  BY <1>1, Invariance, PTL

\* Whatever the calls, and wherever one fails: the sockets open when no call is under way
\* are those the application holds, each of them bound, and no endpoint outlives its own.
THEOREM FailedCallsLeaveNothing == Spec => []NothingLeaks
<1>1. IInv /\ attempt.step = "ok" => IsComplete(Current, attempt.args)
  BY CurrentIsTheOne DEF IInv, CurrentIsAsked, Holding, IsAt, IsComplete
<1>2. IInv => NothingLeaks
  <2> SUFFICES ASSUME IInv, Ended PROVE NothingLeaks
    BY <1>1 DEF NothingLeaks
  <2>1. Held = {} /\ call.opened \subseteq handles
    BY DEF IInv, Phases, Owned, Ended, Held, Holding, None
  <2>2. {s.fd : s \in {s \in table : s.owner # "other"}} = handles
    BY <2>1 DEF IInv, Owned
  <2>3. \A s \in table : s.owner # "other" => s.port # 0
    BY <2>1 DEF IInv, Owned
  <2>4. \A e \in endpoints : e.fd \in handles
    BY <2>1 DEF IInv, Owned
  <2> QED
    BY <1>1, <2>2, <2>3, <2>4 DEF NothingLeaks
<1> QED
  BY <1>2, Invariance, PTL

\* An answer leaves from the address the client used unless that address was refused, and
\* a port that is taken is an error rather than another address.
THEOREM AnswersKeepTheAddress == Spec => []ReplyKeepsTheAddress
<1>1. IInv => ReplyKeepsTheAddress
  BY DEF IInv, AddressFirst, OpenedThere, Keeps, Ended, ReplyKeepsTheAddress
<1> QED
  BY <1>1, Invariance, PTL
-----------------------------------------------------------------------------
(* Sequences, and functions that go on by a rule.                              *)

\* A set that holds 0 and the successor of each natural it holds has them all.
LEMMA Induction ==
    ASSUME NEW S, 0 \in S, \A n \in Nat : n \in S => n + 1 \in S
    PROVE  Nat \subseteq S
<1> DEFINE T == Nat \ S
<1> SUFFICES ASSUME T # {}
             PROVE  FALSE
  OBVIOUS
<1>1. IsWellFoundedOn(OpToRel(<, Nat), Nat)
  BY NatLessThanWellFounded
<1>2. PICK n \in T : \A m \in T : ~ (<<m, n>> \in OpToRel(<, Nat))
  <2>1. T \subseteq Nat
    OBVIOUS
  <2> HIDE DEF T
  <2> QED
    BY <1>1, <2>1, WFMin
<1>3. \A m \in T : ~(m < n)
  <2> SUFFICES ASSUME NEW m \in T, m < n
               PROVE  FALSE
    OBVIOUS
  <2>1. <<m, n>> \in Nat \X Nat
    OBVIOUS
  <2> QED
    BY <1>2, <2>1 DEF OpToRel
<1>4. n - 1 \in Nat /\ n - 1 < n /\ (n - 1) + 1 = n
  OBVIOUS
<1>5. n - 1 \in S
  BY <1>3, <1>4
<1> QED
  BY <1>4, <1>5

\* Two functions that begin alike and go on alike are alike.
LEMMA Agree ==
    ASSUME NEW N \in Nat, NEW f, NEW g, f[0] = g[0],
           \A n \in 1..N : f[n - 1] = g[n - 1] => f[n] = g[n]
    PROVE  \A n \in 0..N : f[n] = g[n]
<1> DEFINE T == {n \in Nat : n <= N => f[n] = g[n]}
<1>1. 0 \in T
  OBVIOUS
<1>2. ASSUME NEW n \in Nat, n \in T
      PROVE  n + 1 \in T
  <2> SUFFICES ASSUME n + 1 <= N
               PROVE  f[n + 1] = g[n + 1]
    OBVIOUS
  <2>1. PICK m \in 1..N : m = n + 1 /\ m - 1 = n
    OBVIOUS
  <2>2. f[n] = g[n]
    BY <1>2, <2>1
  <2> QED
    BY <2>1, <2>2
<1>3. Nat \subseteq T
  <2> HIDE DEF T
  <2> QED
    BY <1>1, <1>2, Induction
<1> QED
  BY <1>3

\* f begins with base and goes on by a rule, and its values are where the rule keeps them.
Folds(f, N, R, base, rule) ==
    /\ DOMAIN f = 0..N /\ f[0] = base
    /\ \A n \in 1..N : f[n] = rule[<<n, f[n - 1]>>]
    /\ \A n \in 0..N : f[n] \in R[n]
KeptBy(rule, N, R) == \A n \in 1..N : \A x \in R[n - 1] : rule[<<n, x>>] \in R[n]

\* There is such a function.
LEMMA Fold ==
    ASSUME NEW N \in Nat, NEW R, NEW base \in R[0], NEW rule, KeptBy(rule, N, R)
    PROVE  \E f : Folds(f, N, R, base, rule)
<1> DEFINE Upto(f, k) == /\ DOMAIN f = 0..k /\ f[0] = base
                         /\ \A n \in 1..k : f[n] = rule[<<n, f[n - 1]>>]
                         /\ \A n \in 0..k : f[n] \in R[n]
           T == {k \in Nat : k <= N => \E f : Upto(f, k)}
<1>1. 0 \in T
  <2>1. Upto([n \in 0..0 |-> base], 0)
    OBVIOUS
  <2> HIDE DEF Upto
  <2> QED
    BY <2>1
<1>2. ASSUME NEW k \in Nat, k \in T
      PROVE  k + 1 \in T
  <2> SUFFICES ASSUME k + 1 <= N
               PROVE  \E g : Upto(g, k + 1)
    OBVIOUS
  <2>1. PICK m \in 1..N : m = k + 1 /\ m - 1 = k
    OBVIOUS
  <2>2. PICK f : Upto(f, k)
    <3> HIDE DEF Upto
    <3> QED
      BY <1>2, <2>1
  <2>3. PICK new : new = rule[<<m, f[k]>>]
    OBVIOUS
  <2>4. new \in R[m]
    BY <2>1, <2>2, <2>3 DEF KeptBy
  <2> DEFINE g == [n \in 0..m |-> IF n = m THEN new ELSE f[n]]
  <2>5. \A n \in 0..k : n \in 0..m /\ n # m /\ g[n] = f[n]
    BY <2>1
  <2>6. DOMAIN g = 0..m /\ g[m] = new /\ 0 \in 0..k /\ k \in 0..k
    BY <2>1
  <2> HIDE DEF g
  <2>7. g[0] = base
    BY <2>2, <2>5, <2>6
  <2>8. ASSUME NEW n \in 1..m
        PROVE  g[n] = rule[<<n, g[n - 1]>>]
    <3>1. CASE n = m
      BY <2>1, <2>3, <2>5, <2>6, <3>1
    <3>2. CASE n # m
      <4>1. n \in 1..k /\ n \in 0..k /\ n - 1 \in 0..k
        BY <2>1, <3>2
      <4> QED
        BY <2>2, <2>5, <4>1
    <3> QED
      BY <3>1, <3>2
  <2>9. ASSUME NEW n \in 0..m
        PROVE  g[n] \in R[n]
    <3>1. n = m \/ n \in 0..k
      BY <2>1
    <3> QED
      BY <2>2, <2>4, <2>5, <2>6, <3>1
  <2>10. Upto(g, m)
    BY <2>6, <2>7, <2>8, <2>9
  <2> HIDE DEF Upto
  <2> QED
    BY <2>1, <2>10
<1>3. N \in T
  <2> HIDE DEF T
  <2> QED
    BY <1>1, <1>2, Induction
<1> QED
  BY <1>3 DEF Folds

\* The empty sequence holds nothing.
LEMMA HeldByNone == ToSet(<<>>) = {}
<1>1. DOMAIN <<>> = {}
  OBVIOUS
<1> QED
  BY <1>1 DEF ToSet

\* What two sequences hold, the one after the other.
LEMMA Joining ==
    ASSUME NEW S, NEW s \in Seq(S), NEW t \in Seq(S)
    PROVE  s \o t \in Seq(S) /\ ToSet(s \o t) = ToSet(s) \cup ToSet(t)
<1>1. /\ s \o t \in Seq(S) /\ Len(s \o t) = Len(s) + Len(t)
      /\ \A i \in 1..(Len(s) + Len(t)) :
           (s \o t)[i] = IF i <= Len(s) THEN s[i] ELSE t[i - Len(s)]
  BY ConcatProperties
<1>2. /\ DOMAIN (s \o t) = 1..(Len(s) + Len(t)) /\ DOMAIN s = 1..Len(s)
      /\ DOMAIN t = 1..Len(t) /\ Len(s) \in Nat /\ Len(t) \in Nat
  BY <1>1
<1>3. ASSUME NEW i \in 1..(Len(s) + Len(t))
      PROVE  (s \o t)[i] \in ToSet(s) \cup ToSet(t)
  <2>1. i \in 1..Len(s) \/ i - Len(s) \in 1..Len(t)
    BY ONLY <1>2, i \in 1..(Len(s) + Len(t))
  <2>2. i \in 1..Len(s) <=> i <= Len(s)
    BY ONLY <1>2, i \in 1..(Len(s) + Len(t))
  <2> QED
    BY <1>1, <1>2, <2>1, <2>2 DEF ToSet
<1>4. ASSUME NEW i \in 1..Len(s)
      PROVE  i \in 1..(Len(s) + Len(t)) /\ (s \o t)[i] = s[i]
  <2>1. i \in 1..(Len(s) + Len(t)) /\ i <= Len(s)
    BY ONLY <1>2, i \in 1..Len(s)
  <2> QED
    BY <1>1, <2>1
<1>5. ASSUME NEW i \in 1..Len(t)
      PROVE  \E j \in 1..(Len(s) + Len(t)) : (s \o t)[j] = t[i]
  <2>1. PICK j \in 1..(Len(s) + Len(t)) : ~(j <= Len(s)) /\ j - Len(s) = i
    <3>1. Len(s) + i \in 1..(Len(s) + Len(t)) /\ ~(Len(s) + i <= Len(s))
          /\ (Len(s) + i) - Len(s) = i
      BY ONLY <1>2, i \in 1..Len(t)
    <3> QED
      BY <3>1
  <2> QED
    BY <1>1, <2>1
<1>6. ASSUME NEW x \in ToSet(s \o t)
      PROVE  x \in ToSet(s) \cup ToSet(t)
  BY <1>2, <1>3, <1>6 DEF ToSet
<1>7. ASSUME NEW x \in ToSet(s)
      PROVE  x \in ToSet(s \o t)
  BY <1>2, <1>4, <1>7 DEF ToSet
<1>8. ASSUME NEW x \in ToSet(t)
      PROVE  x \in ToSet(s \o t)
  BY <1>2, <1>5, <1>8 DEF ToSet
<1> QED
  BY <1>1, <1>6, <1>7, <1>8

\* Flattening joins sequences: what one of them holds, and nothing else.
LEMMA Flattened ==
    ASSUME NEW S, NEW seqs \in Seq(Seq(S))
    PROVE  /\ FlattenSeq(seqs) \in Seq(S)
           /\ \A x : x \in ToSet(FlattenSeq(seqs)) <=> \E i \in DOMAIN seqs : x \in ToSet(seqs[i])
<1>1. PICK N \in Nat : N = Len(seqs) /\ DOMAIN seqs = 1..N
  OBVIOUS
<1>2. \A i \in 1..N : seqs[i] \in Seq(S)
  BY <1>1
<1>3. CASE N = 0
  <2>1. seqs = <<>> /\ FlattenSeq(seqs) = seqs
    BY <1>1, <1>3 DEF FlattenSeq
  <2>2. DOMAIN seqs = {} /\ seqs \in Seq(S)
    BY <1>1, <1>3, <2>1
  <2> QED
    BY <2>1, <2>2, HeldByNone
<1>4. CASE N # 0
  <2> DEFINE Upto(n) == UNION {ToSet(seqs[i]) : i \in 1..n}
             R == [n \in 0..N |-> {s \in Seq(S) : ToSet(s) = Upto(n)}]
             rule == [y \in (1..N) \X Seq(S) |-> y[2] \o seqs[y[1]]]
             Flat(f) == f = [i \in 1..N |-> IF i = 1 THEN seqs[i] ELSE f[i - 1] \o seqs[i]]
  <2>1. \A n \in 0..N : \A s : s \in R[n] <=> s \in Seq(S) /\ ToSet(s) = Upto(n)
    OBVIOUS
  <2>2. \A n \in 1..N : \A s \in Seq(S) : rule[<<n, s>>] = s \o seqs[n]
    OBVIOUS
  <2>3. Upto(0) = {}
    OBVIOUS
  <2>4. ASSUME NEW n \in 1..N
        PROVE  /\ n - 1 \in 0..N /\ n \in 0..N
               /\ Upto(n) = Upto(n - 1) \cup ToSet(seqs[n])
    <3>1. n - 1 \in 0..N /\ n \in 0..N /\ 1..n = 1..(n - 1) \cup {n}
      OBVIOUS
    <3> QED
      BY <3>1
  <2>5. \A x : x \in Upto(N) <=> \E i \in 1..N : x \in ToSet(seqs[i])
    OBVIOUS
  <2> HIDE DEF Upto, R, rule
  <2>6. <<>> \in R[0]
    <3>1. <<>> \in Seq(S) /\ 0 \in 0..N
      OBVIOUS
    <3> QED
      BY <2>1, <2>3, <3>1, HeldByNone
  <2>7. ASSUME NEW n \in 1..N, NEW s \in R[n - 1]
        PROVE  rule[<<n, s>>] \in R[n]
    <3>1. s \in Seq(S) /\ ToSet(s) = Upto(n - 1)
      BY <2>1, <2>4
    <3>2. PICK t \in Seq(S) : t = seqs[n]
      BY <1>2
    <3>3. s \o t \in Seq(S) /\ ToSet(s \o t) = ToSet(s) \cup ToSet(t)
      BY <3>1, Joining
    <3> QED
      BY <2>1, <2>2, <2>4, <3>1, <3>2, <3>3
  <2>8. PICK f : /\ DOMAIN f = 0..N /\ f[0] = <<>>
                 /\ \A n \in 1..N : f[n] = rule[<<n, f[n - 1]>>]
                 /\ \A n \in 0..N : f[n] \in R[n]
    <3>1. KeptBy(rule, N, R)
      BY <2>7 DEF KeptBy
    <3>2. \E f : Folds(f, N, R, <<>>, rule)
      BY ONLY N \in Nat, <2>6, <3>1, Fold
    <3> QED
      BY ONLY <3>2 DEF Folds
  <2>9. ASSUME NEW n \in 1..N
        PROVE  /\ f[n] = f[n - 1] \o seqs[n]
               /\ n = 1 => f[n] = seqs[n]
    <3>1. f[n - 1] \in Seq(S)
      BY <2>1, <2>4, <2>8
    <3>2. f[n] = f[n - 1] \o seqs[n]
      BY <2>2, <2>8, <3>1
    <3>3. n = 1 => f[n - 1] = <<>>
      BY <2>8
    <3>4. <<>> \o seqs[n] = seqs[n]
      BY <1>2
    <3> QED
      BY <3>2, <3>3, <3>4
  <2>10. \E h : Flat(h)
    <3> DEFINE g == [n \in 1..N |-> f[n]]
    <3>1. ASSUME NEW i \in 1..N
          PROVE  g[i] = IF i = 1 THEN seqs[i] ELSE g[i - 1] \o seqs[i]
      <4>1. i # 1 => i - 1 \in 1..N
        OBVIOUS
      <4> QED
        BY <2>9, <4>1
    <3>2. g = [i \in 1..N |-> g[i]]
      OBVIOUS
    <3> HIDE DEF g
    <3>3. Flat(g)
      BY <3>1, <3>2
    <3> QED
      BY <3>3
  <2>11. PICK F : F = CHOOSE h : Flat(h)
    OBVIOUS
  <2>12. Flat(F)
    BY <2>10, <2>11
  <2>13. FlattenSeq(seqs) = F[N]
    BY <1>1, <1>4, <2>11 DEF FlattenSeq
  <2>14. \A n \in 1..N : F[n] = IF n = 1 THEN seqs[n] ELSE F[n - 1] \o seqs[n]
    BY <2>12
  <2> HIDE DEF Flat
  <2> DEFINE G == [n \in 0..N |-> IF n = 0 THEN <<>> ELSE F[n]]
  <2>15. ASSUME NEW n \in 1..N, G[n - 1] = f[n - 1]
         PROVE  G[n] = f[n]
    <3>1. G[n] = F[n]
      OBVIOUS
    <3>2. n # 1 => G[n - 1] = F[n - 1]
      OBVIOUS
    <3> HIDE DEF G
    <3> QED
      BY <2>9, <2>14, <2>15, <3>1, <3>2
  <2>16. G[0] = f[0] /\ G[N] = F[N]
    BY <1>4, <2>8
  <2>17. F[N] = f[N]
    <3> HIDE DEF G
    <3>1. \A n \in 1..N : G[n - 1] = f[n - 1] => G[n] = f[n]
      BY <2>15
    <3>2. \A n \in 0..N : G[n] = f[n]
      BY ONLY ZenonT(30), N \in Nat, <2>16, <3>1, Agree
    <3> QED
      BY ONLY <2>16, <3>2, N \in Nat
  <2>18. f[N] \in Seq(S) /\ ToSet(f[N]) = Upto(N)
    <3>1. N \in 0..N
      OBVIOUS
    <3> QED
      BY ONLY <2>1, <2>8, <3>1
  <2> QED
    BY ONLY <1>1, <2>5, <2>13, <2>17, <2>18
<1> QED
  BY <1>3, <1>4

-----------------------------------------------------------------------------
(* What a setting asks for, and the plan made for it.                          *)
Targets == Wildcards \cup Addresses
Pair == [parsed : [address : Targets, selectors : SUBSET Names], port : Ports \cup {0}]
Limit == [address : Targets, port : Ports \cup {0}, plain : BOOLEAN, interfaces : SUBSET Names]

\* A limit stands for all pairs of its address and port.
SameKey(l, q) == l.address = q.parsed.address /\ l.port = q.port
StandsFor(l, Q) ==
    /\ \E q \in Q : SameKey(l, q)
    /\ l.plain <=> \E q \in Q : SameKey(l, q) /\ q.parsed.selectors = {}
    /\ \A name : name \in l.interfaces
                   <=> \E q \in Q : SameKey(l, q) /\ name \in q.parsed.selectors
Distinct(s) ==
    \A m, n \in DOMAIN s : s[m].address = s[n].address /\ s[m].port = s[n].port => m = n
Represents(limits, Q) ==
    /\ limits \in Seq(Limit) /\ Distinct(limits)
    /\ \A q \in Q : \E n \in DOMAIN limits : SameKey(limits[n], q)
    /\ \A n \in DOMAIN limits : StandsFor(limits[n], Q)

\* A pair of another address or port changes nothing for a limit.
LEMMA StandsStill ==
    ASSUME NEW l, NEW Q, NEW q, StandsFor(l, Q), ~SameKey(l, q)
    PROVE  StandsFor(l, Q \cup {q})
BY DEF StandsFor

\* With one pair more the limits stand for it as well.
LEMMA MergedRepresents ==
    ASSUME NEW limits, NEW Q, Represents(limits, Q), NEW q \in Pair
    PROVE  Represents(Merged(limits, q.parsed, q.port), Q \cup {q})
<1> PICK address \in Targets, selectors \in SUBSET Names, port \in Ports \cup {0} :
       address = q.parsed.address /\ selectors = q.parsed.selectors /\ port = q.port
  BY DEF Pair
<1>1. limits \in Seq(Limit) /\ Distinct(limits)
  BY DEF Represents
<1> PICK N \in Nat : N = Len(limits) /\ DOMAIN limits = 1..N
  BY <1>1
<1>2. \A n \in 1..N : limits[n] \in Limit /\ StandsFor(limits[n], Q)
  BY <1>1 DEF Represents
<1>3. CASE \E n \in 1..N : SameKey(limits[n], q)
  <2> DEFINE joins(l) == [l EXCEPT !.plain = l.plain \/ selectors = {},
                                   !.interfaces = @ \cup selectors]
             new == [n \in 1..N |-> IF limits[n].address = address /\ limits[n].port = port
                                    THEN joins(limits[n]) ELSE limits[n]]
  <2>1. Merged(limits, q.parsed, q.port) = new
    BY <1>3 DEF Merged, SameKey
  <2>2. ASSUME NEW l \in Limit
        PROVE  /\ joins(l) \in Limit /\ joins(l).address = l.address /\ joins(l).port = l.port
               /\ joins(l).plain = (l.plain \/ selectors = {})
               /\ joins(l).interfaces = l.interfaces \cup selectors
    BY DEF Limit
  <2>3. \A n \in 1..N : new[n] = IF SameKey(limits[n], q) THEN joins(limits[n]) ELSE limits[n]
    BY DEF SameKey
  <2>4. DOMAIN new = 1..N
    OBVIOUS
  <2> HIDE DEF joins, new
  <2>5. \A n \in 1..N : /\ new[n] \in Limit /\ new[n].address = limits[n].address
                        /\ new[n].port = limits[n].port
    BY <1>2, <2>2, <2>3
  <2>6. new \in Seq(Limit)
    <3>1. new = [n \in 1..N |-> new[n]]
      BY <2>1, <1>3 DEF new
    <3> QED
      BY <2>5, <3>1
  <2>7. Distinct(new)
    BY <1>1, <2>4, <2>5 DEF Distinct
  <2>8. \A p \in Q \cup {q} : \E n \in 1..N : SameKey(new[n], p)
    BY <1>3, <2>5 DEF Represents, SameKey
  <2>9. ASSUME NEW n \in 1..N
        PROVE  StandsFor(new[n], Q \cup {q})
    <3>1. CASE ~SameKey(limits[n], q)
      BY <1>2, <2>3, <3>1, StandsStill
    <3>2. CASE SameKey(limits[n], q)
      <4>1. PICK l : l = limits[n] /\ l \in Limit /\ StandsFor(l, Q) /\ SameKey(l, q)
        BY <1>2, <3>2
      <4>2. PICK m : /\ m = new[n] /\ m.address = l.address /\ m.port = l.port
                     /\ m.plain = (l.plain \/ selectors = {})
                     /\ m.interfaces = l.interfaces \cup selectors
        BY <2>2, <2>3, <4>1
      <4>3. \A p : SameKey(m, p) <=> SameKey(l, p)
        BY <4>2 DEF SameKey
      <4>4. StandsFor(m, Q \cup {q})
        <5>1. \E p \in Q \cup {q} : SameKey(m, p)
          BY <4>1, <4>3
        <5>2. m.plain <=> \E p \in Q \cup {q} : SameKey(m, p) /\ p.parsed.selectors = {}
          BY <4>1, <4>2, <4>3 DEF StandsFor
        <5>3. ASSUME NEW name
              PROVE  name \in m.interfaces
                       <=> \E p \in Q \cup {q} : SameKey(m, p) /\ name \in p.parsed.selectors
          BY <4>1, <4>2, <4>3 DEF StandsFor
        <5> QED
          BY <5>1, <5>2, <5>3 DEF StandsFor
      <4> QED
        BY <4>2, <4>4
    <3> QED
      BY <3>1, <3>2
  <2> QED
    BY <2>1, <2>4, <2>6, <2>7, <2>8, <2>9 DEF Represents
<1>4. CASE ~ \E n \in 1..N : SameKey(limits[n], q)
  <2>1. PICK l : l = [address |-> address, port |-> port, plain |-> selectors = {},
                      interfaces |-> selectors]
    OBVIOUS
  <2>2. /\ l \in Limit /\ l.address = address /\ l.port = port
        /\ l.plain = (selectors = {}) /\ l.interfaces = selectors
    BY <2>1 DEF Limit
  <2>3. PICK new : new = Append(limits, l)
    OBVIOUS
  <2>4. Merged(limits, q.parsed, q.port) = new
    BY <1>4, <2>1, <2>3 DEF Merged, SameKey
  <2>5. PICK M \in Nat : M = N + 1 /\ 1..M = 1..N \cup {M} /\ M \notin 1..N
    OBVIOUS
  <2>6. /\ new \in Seq(Limit) /\ DOMAIN new = 1..M /\ new[M] = l
        /\ \A n \in 1..N : new[n] = limits[n]
    BY <1>1, <2>2, <2>3, <2>5
  <2>7. SameKey(l, q)
    BY <2>2 DEF SameKey
  <2>8. ASSUME NEW n \in 1..N
        PROVE  ~(limits[n].address = l.address /\ limits[n].port = l.port)
    BY <1>4, <2>2 DEF SameKey
  <2>9. Distinct(new)
    <3> SUFFICES ASSUME NEW m \in 1..M, NEW n \in 1..M,
                        new[m].address = new[n].address, new[m].port = new[n].port
                 PROVE  m = n
      BY <2>6 DEF Distinct
    <3> QED
      BY <1>1, <2>5, <2>6, <2>8 DEF Distinct
  <2>10. \A p \in Q \cup {q} : \E n \in 1..M : SameKey(new[n], p)
    BY <2>5, <2>6, <2>7 DEF Represents
  <2>11. ASSUME NEW n \in 1..N
         PROVE  StandsFor(new[n], Q \cup {q})
    BY <1>2, <1>4, <2>6, StandsStill
  <2>12. StandsFor(l, Q \cup {q})
    <3>1. ASSUME NEW p \in Q
          PROVE  ~SameKey(l, p)
      <4>1. PICK n \in 1..N : SameKey(limits[n], p)
        BY DEF Represents
      <4> QED
        BY <2>8, <4>1 DEF SameKey
    <3> QED
      BY <2>2, <2>7, <3>1 DEF StandsFor
  <2> QED
    BY <2>4, <2>5, <2>6, <2>9, <2>10, <2>11, <2>12 DEF Represents
<1> QED
  BY <1>3, <1>4

\* The limits of a setting stand for its pairs.
LEMMA LimitsRepresent ==
    ASSUME NEW pairs \in Seq(Pair)
    PROVE  Represents(Limits(pairs), ToSet(pairs))
<1>1. PICK N \in Nat : N = Len(pairs) /\ DOMAIN pairs = 1..N
  OBVIOUS
<1> DEFINE Upto(n) == {pairs[i] : i \in 1..n}
           R == [n \in 0..N |-> {l \in Seq(Limit) : Represents(l, Upto(n))}]
           rule == [y \in (1..N) \X Seq(Limit) |->
                       Merged(y[2], pairs[y[1]].parsed, pairs[y[1]].port)]
           Runs(f) == f = [n \in 0..N |-> IF n = 0 THEN <<>>
                                          ELSE Merged(f[n - 1], pairs[n].parsed, pairs[n].port)]
<1>2. \A n \in 0..N : \A l : l \in R[n] <=> l \in Seq(Limit) /\ Represents(l, Upto(n))
  OBVIOUS
<1>3. \A n \in 1..N : \A l \in Seq(Limit) :
          rule[<<n, l>>] = Merged(l, pairs[n].parsed, pairs[n].port)
  OBVIOUS
<1>4. Upto(0) = {} /\ Upto(N) = ToSet(pairs)
  BY <1>1 DEF ToSet
<1>5. ASSUME NEW n \in 1..N
      PROVE  n - 1 \in 0..N /\ n \in 0..N /\ Upto(n) = Upto(n - 1) \cup {pairs[n]}
  <2>1. n - 1 \in 0..N /\ n \in 0..N /\ 1..n = 1..(n - 1) \cup {n}
    OBVIOUS
  <2> QED
    BY <2>1
<1> HIDE DEF Upto, R, rule
<1>6. <<>> \in R[0]
  <2>1. /\ <<>> \in Seq(Limit) /\ DOMAIN <<>> = {} /\ 0 \in 0..N
    OBVIOUS
  <2> QED
    BY <1>2, <1>4, <2>1 DEF Represents, Distinct
<1>7. KeptBy(rule, N, R)
  <2> SUFFICES ASSUME NEW n \in 1..N, NEW l \in R[n - 1]
               PROVE  rule[<<n, l>>] \in R[n]
    BY DEF KeptBy
  <2>1. PICK q \in Pair : q = pairs[n]
    BY <1>1
  <2>2. l \in Seq(Limit) /\ Represents(l, Upto(n - 1))
    BY <1>2, <1>5
  <2>3. Represents(Merged(l, q.parsed, q.port), Upto(n - 1) \cup {q})
    BY <2>2, MergedRepresents
  <2>4. Merged(l, q.parsed, q.port) \in Seq(Limit)
    BY <2>3 DEF Represents
  <2> QED
    BY <1>2, <1>3, <1>5, <2>1, <2>2, <2>3, <2>4
<1>8. PICK f : Folds(f, N, R, <<>>, rule)
  BY ONLY N \in Nat, <1>6, <1>7, Fold
<1>9. f[0] = <<>> /\ \A n \in 0..N : f[n] \in Seq(Limit) /\ Represents(f[n], Upto(n))
  BY <1>2, <1>8 DEF Folds
<1>10. \A n \in 1..N : f[n] = Merged(f[n - 1], pairs[n].parsed, pairs[n].port)
  BY <1>3, <1>5, <1>8, <1>9 DEF Folds
<1>11. \E g : Runs(g)
  <2> DEFINE g == [n \in 0..N |-> f[n]]
  <2>1. ASSUME NEW n \in 0..N
        PROVE  g[n] = IF n = 0 THEN <<>> ELSE Merged(g[n - 1], pairs[n].parsed, pairs[n].port)
    <3>1. n # 0 => n \in 1..N /\ n - 1 \in 0..N
      OBVIOUS
    <3> QED
      BY <1>9, <1>10, <3>1
  <2>2. g = [n \in 0..N |-> g[n]]
    OBVIOUS
  <2> HIDE DEF g
  <2>3. Runs(g)
    BY <2>1, <2>2
  <2> QED
    BY <2>3
<1>12. PICK F : F = CHOOSE g : Runs(g)
  OBVIOUS
<1>13. Runs(F)
  BY <1>11, <1>12
<1>14. Limits(pairs) = F[N]
  BY <1>1, <1>12 DEF Limits
<1>15. F[0] = <<>> /\ \A n \in 1..N : F[n] = Merged(F[n - 1], pairs[n].parsed, pairs[n].port)
  BY <1>13
<1> HIDE DEF Runs
<1>16. \A n \in 1..N : F[n - 1] = f[n - 1] => F[n] = f[n]
  BY <1>10, <1>15
<1>17. F[N] = f[N]
  <2>1. F[0] = f[0]
    BY ONLY <1>9, <1>15
  <2>2. \A n \in 0..N : F[n] = f[n]
    BY ONLY SMTT(30), N \in Nat, <2>1, <1>16, Agree
  <2> QED
    BY ONLY N \in Nat, <2>2
<1> QED
  <2>1. N \in 0..N
    OBVIOUS
  <2> QED
    BY ONLY <1>4, <1>9, <1>14, <1>17, <2>1

\* What an entry's host comes down to is an address to listen on, and the names it
\* limits a wildcard to.
LEMMA ParsedIs ==
    ASSUME NEW entry, entry.host \in {"*"} \cup Names \cup Wildcards \cup Addresses, NEW family
    PROVE  /\ Parsed(entry, family) \in [address : Targets, selectors : SUBSET Names]
           /\ Parsed(entry, family).address \in Wildcards \/ Parsed(entry, family).selectors = {}
           /\ Parsed(entry, family).selectors \in {{}, {entry.host}}
<1>1. Wildcard(family) \in Wildcards
  BY DEF Wildcard, Wildcards
<1>2. CASE entry.host = "*"
  BY <1>1, <1>2 DEF Parsed, Targets
<1>3. CASE entry.host # "*" /\ entry.host \in Names
  BY <1>1, <1>3 DEF Parsed, Targets
<1>4. CASE entry.host # "*" /\ entry.host \notin Names
  BY <1>4 DEF Parsed, Targets
<1> QED
  BY <1>2, <1>3, <1>4

\* The arguments of one call, and the pairs of its entries and ports.
Entry == [host : {"*"} \cup Names \cup Wildcards \cup Addresses, ports : Seq(Ports \cup {0})]
IsListenCall(l) ==
    /\ l.listen \in Seq(Entry) /\ l.default_ports \in Seq(Ports \cup {0})
    /\ l.device_binding \in BOOLEAN
PairsOf(l) == Pairs(l.listen, l.default_ports, l.family)
IsPairOf(q, l) ==
    \E n \in DOMAIN l.listen : /\ q.parsed = Parsed(l.listen[n], l.family)
                               /\ q.port \in ToSet(PortsOf(l.listen[n], l.default_ports))

LEMMA PairsAre ==
    ASSUME NEW l, IsListenCall(l)
    PROVE  /\ PairsOf(l) \in Seq(Pair)
           /\ \A q \in ToSet(PairsOf(l)) : q \in Pair /\ IsPairOf(q, l)
           /\ \A n \in DOMAIN l.listen :
                 \A port \in ToSet(PortsOf(l.listen[n], l.default_ports)) :
                    [parsed |-> Parsed(l.listen[n], l.family), port |-> port] \in ToSet(PairsOf(l))
<1> DEFINE Of(n) == LET ports == PortsOf(l.listen[n], l.default_ports)
                    IN  [k \in DOMAIN ports |->
                            [parsed |-> Parsed(l.listen[n], l.family), port |-> ports[k]]]
           seqs == [n \in DOMAIN l.listen |-> Of(n)]
<1>1. PICK N \in Nat : N = Len(l.listen) /\ DOMAIN l.listen = 1..N
  BY DEF IsListenCall
<1>2. \A n \in 1..N : /\ l.listen[n].host \in {"*"} \cup Names \cup Wildcards \cup Addresses
                      /\ l.listen[n].ports \in Seq(Ports \cup {0})
  <2>1. \A n \in 1..N : l.listen[n] \in Entry
    BY <1>1 DEF IsListenCall
  <2> QED
    BY <2>1 DEF Entry
<1>3. ASSUME NEW n \in 1..N
      PROVE  /\ Of(n) \in Seq(Pair)
             /\ \A q \in ToSet(Of(n)) : /\ q \in Pair /\ q.parsed = Parsed(l.listen[n], l.family)
                                        /\ q.port \in ToSet(PortsOf(l.listen[n], l.default_ports))
             /\ \A port \in ToSet(PortsOf(l.listen[n], l.default_ports)) :
                   [parsed |-> Parsed(l.listen[n], l.family), port |-> port] \in ToSet(Of(n))
  <2>1. PICK ports : ports = PortsOf(l.listen[n], l.default_ports)
    OBVIOUS
  <2>2. ports \in Seq(Ports \cup {0})
    BY <1>2, <2>1 DEF PortsOf, IsListenCall
  <2>3. PICK M \in Nat : M = Len(ports) /\ DOMAIN ports = 1..M
    BY <2>2
  <2>4. PICK parsed : parsed = Parsed(l.listen[n], l.family)
    OBVIOUS
  <2>5. parsed \in [address : Targets, selectors : SUBSET Names]
    BY <1>2, <2>4, ParsedIs
  <2>6. PICK s : s = [k \in 1..M |-> [parsed |-> parsed, port |-> ports[k]]]
    OBVIOUS
  <2>7. Of(n) = s
    BY <2>1, <2>3, <2>4, <2>6
  <2>8. DOMAIN s = 1..M /\ \A k \in 1..M : s[k] = [parsed |-> parsed, port |-> ports[k]]
    BY <2>6
  <2>9. \A k \in 1..M : ports[k] \in Ports \cup {0}
    BY <2>2, <2>3
  <2>10. \A k \in 1..M : /\ s[k] \in Pair /\ s[k].parsed = parsed /\ s[k].port = ports[k]
    BY <2>5, <2>8, <2>9 DEF Pair
  <2>11. s \in Seq(Pair)
    BY <2>6, <2>8, <2>10
  <2>12. \A q \in ToSet(s) : q \in Pair /\ q.parsed = parsed /\ q.port \in ToSet(ports)
    BY <2>3, <2>8, <2>10 DEF ToSet
  <2>13. \A port \in ToSet(ports) : [parsed |-> parsed, port |-> port] \in ToSet(s)
    BY <2>3, <2>8 DEF ToSet
  <2> HIDE DEF Of
  <2> QED
    BY <2>1, <2>4, <2>7, <2>11, <2>12, <2>13
<1>4. PairsOf(l) = FlattenSeq(seqs)
  BY DEF PairsOf, Pairs
<1>5. seqs \in Seq(Seq(Pair)) /\ DOMAIN seqs = 1..N /\ \A n \in 1..N : seqs[n] = Of(n)
  <2> HIDE DEF Of
  <2> QED
    BY <1>1, <1>3
<1> HIDE DEF Of, seqs
<1>6. /\ FlattenSeq(seqs) \in Seq(Pair)
      /\ \A x : x \in ToSet(FlattenSeq(seqs)) <=> \E i \in 1..N : x \in ToSet(Of(i))
  <2>1. /\ FlattenSeq(seqs) \in Seq(Pair)
        /\ \A x : x \in ToSet(FlattenSeq(seqs)) <=> \E i \in DOMAIN seqs : x \in ToSet(seqs[i])
    BY ONLY <1>5, Flattened
  <2> QED
    BY <1>5, <2>1
<1>7. ASSUME NEW q \in ToSet(PairsOf(l))
      PROVE  q \in Pair /\ IsPairOf(q, l)
  <2>1. PICK n \in 1..N : q \in ToSet(Of(n))
    BY <1>4, <1>6
  <2> QED
    BY <1>1, <1>3, <2>1 DEF IsPairOf
<1>8. ASSUME NEW n \in 1..N, NEW port \in ToSet(PortsOf(l.listen[n], l.default_ports))
      PROVE  [parsed |-> Parsed(l.listen[n], l.family), port |-> port] \in ToSet(PairsOf(l))
  BY <1>3, <1>4, <1>6
<1> QED
  BY <1>1, <1>4, <1>6, <1>7, <1>8

\* The sockets an accepted setting comes down to: one for each address and port, limited
\* to the interfaces its entries name together unless one of them names none.
SpecRecord == [address : Targets, port : Ports \cup {0}, interfaces : SUBSET Names]
Answers(s, Q) ==
    /\ \E q \in Q : SameKey(s, q)
    /\ s.interfaces = {} <=> \E q \in Q : SameKey(s, q) /\ q.parsed.selectors = {}
    /\ s.interfaces # {} =>
          \A name : name \in s.interfaces
                      <=> \E q \in Q : SameKey(s, q) /\ name \in q.parsed.selectors

LEMMA SpecsAre ==
    ASSUME NEW l, IsListenCall(l), NEW specs,
           specs = ParseListen(l.listen, l.default_ports, l.family), specs # Bad
    PROVE  /\ specs \in Seq(SpecRecord) /\ Distinct(specs)
           /\ \A q \in ToSet(PairsOf(l)) : \E n \in DOMAIN specs : SameKey(specs[n], q)
           /\ \A n \in DOMAIN specs : Answers(specs[n], ToSet(PairsOf(l)))
<1>1. PICK limits, Q : limits = Limits(PairsOf(l)) /\ Q = ToSet(PairsOf(l))
  OBVIOUS
<1>2. Represents(limits, Q)
  BY <1>1, PairsAre, LimitsRepresent
<1>3. PICK N \in Nat : N = Len(limits) /\ DOMAIN limits = 1..N
  BY <1>2 DEF Represents
<1>4. specs = [n \in 1..N |-> [address |-> limits[n].address, port |-> limits[n].port,
                  interfaces |-> IF limits[n].plain THEN {} ELSE limits[n].interfaces]]
  BY <1>1, <1>3 DEF ParseListen, PairsOf
<1>5. /\ DOMAIN specs = 1..N
      /\ \A n \in 1..N : specs[n] = [address |-> limits[n].address, port |-> limits[n].port,
                  interfaces |-> IF limits[n].plain THEN {} ELSE limits[n].interfaces]
  BY <1>4
<1>6. \A n \in 1..N : limits[n] \in Limit
  BY <1>2, <1>3 DEF Represents
<1>7. \A n \in 1..N : /\ specs[n] \in SpecRecord
                      /\ specs[n].address = limits[n].address /\ specs[n].port = limits[n].port
                      /\ specs[n].interfaces = IF limits[n].plain THEN {} ELSE limits[n].interfaces
  <2> SUFFICES ASSUME NEW n \in 1..N
               PROVE  /\ specs[n] \in SpecRecord
                      /\ specs[n].address = limits[n].address /\ specs[n].port = limits[n].port
                      /\ specs[n].interfaces = IF limits[n].plain THEN {} ELSE limits[n].interfaces
    OBVIOUS
  <2>1. PICK m : m = limits[n] /\ m \in Limit
    BY <1>6
  <2>2. PICK names \in SUBSET Names : names = IF m.plain THEN {} ELSE m.interfaces
    BY <2>1 DEF Limit
  <2>3. PICK s : s = [address |-> m.address, port |-> m.port, interfaces |-> names]
    OBVIOUS
  <2>4. specs[n] = s
    BY <1>5, <2>1, <2>2, <2>3
  <2>5. s \in SpecRecord /\ s.address = m.address /\ s.port = m.port /\ s.interfaces = names
    BY ONLY <2>1, <2>3, names \in SUBSET Names DEF Limit, SpecRecord
  <2> QED
    BY ONLY <2>1, <2>2, <2>4, <2>5
<1>8. specs \in Seq(SpecRecord)
  BY <1>4, <1>7
<1>9. Distinct(specs)
  BY <1>2, <1>3, <1>5, <1>7 DEF Distinct, Represents
<1>10. \A q \in Q : \E n \in 1..N : SameKey(specs[n], q)
  BY <1>2, <1>3, <1>7 DEF Represents, SameKey
<1>11. ASSUME NEW n \in 1..N
       PROVE  Answers(specs[n], Q)
  <2>1. PICK m, s : m = limits[n] /\ s = specs[n]
    OBVIOUS
  <2> SUFFICES Answers(s, Q)
    BY <2>1
  <2>2. StandsFor(m, Q) /\ m \in Limit
    BY <1>2, <1>3, <1>6, <2>1 DEF Represents
  <2>3. s.interfaces = IF m.plain THEN {} ELSE m.interfaces
    BY <1>7, <2>1
  <2>4. \A q : SameKey(s, q) <=> SameKey(m, q)
    BY <1>7, <2>1 DEF SameKey
  <2>5. CASE m.plain
    <3>1. PICK q \in Q : SameKey(m, q) /\ q.parsed.selectors = {}
      BY <2>2, <2>5 DEF StandsFor
    <3>2. s.interfaces = {} /\ SameKey(s, q)
      BY <2>3, <2>4, <2>5, <3>1
    <3> QED
      BY <3>1, <3>2 DEF Answers
  <2>6. CASE ~m.plain
    <3>1. PICK q \in Q : SameKey(m, q) /\ q.parsed.selectors # {}
      BY <2>2, <2>6 DEF StandsFor
    <3>2. PICK name : name \in q.parsed.selectors
      BY <3>1
    <3>3. name \in m.interfaces
      BY <2>2, <3>1, <3>2 DEF StandsFor
    <3>4. \A x : x \in m.interfaces <=> \E p \in Q : SameKey(m, p) /\ x \in p.parsed.selectors
      BY <2>2 DEF StandsFor
    <3>5. ~ \E p \in Q : SameKey(m, p) /\ p.parsed.selectors = {}
      BY <2>2, <2>6 DEF StandsFor
    <3>6. s.interfaces = m.interfaces /\ s.interfaces # {}
      BY <2>3, <2>6, <3>3
    <3>7. \E p \in Q : SameKey(s, p)
      BY <2>4, <3>1
    <3>8. \A x : x \in s.interfaces <=> \E p \in Q : SameKey(s, p) /\ x \in p.parsed.selectors
      BY ONLY <2>4, <3>4, <3>6
    <3>9. ~ \E p \in Q : SameKey(s, p) /\ p.parsed.selectors = {}
      BY ONLY <2>4, <3>5
    <3> QED
      BY ONLY <3>6, <3>7, <3>8, <3>9 DEF Answers
  <2> QED
    BY <2>5, <2>6
<1> QED
  BY <1>1, <1>5, <1>8, <1>9, <1>10, <1>11

\* A socket a setting comes down to wants an arrival for its address, on the interfaces it
\* is limited to.
Matches(address, a) ==
    \/ address = a[1] /\ Written(a[1]).zone \in {0, a[2]}
    \/ address \in Wildcards /\ Family(address) = Family(a[1])
Within(names, a) == names # {} => a[2] \in AdaptersFor(names)
Wants(s, a) == Matches(s.address, a) /\ Within(s.interfaces, a)

LEMMA AskedIs ==
    ASSUME NEW entry, entry.host \in {"*"} \cup Names \cup Wildcards \cup Addresses,
           NEW a, NEW port, NEW parsed, parsed = Parsed(entry, call.options.family)
    PROVE  Asks(entry, a, port)
             <=> /\ port \in ToSet(PortsOf(entry, call.options.default_ports))
                 /\ Matches(parsed.address, a) /\ Within(parsed.selectors, a)
<1>1. parsed.selectors = {} \/ parsed.selectors = {entry.host}
  BY ParsedIs
<1>2. AdaptersFor({entry.host}) = Selects[entry.host]
  BY DEF AdaptersFor
<1>3. Within(parsed.selectors, a) <=> (parsed.selectors # {} => a[2] \in Selects[entry.host])
  BY <1>1, <1>2 DEF Within
<1> QED
  BY <1>3 DEF Asks, Matches

AskedFor(a, port) ==
    \E n \in DOMAIN call.options.listen : Asks(call.options.listen[n], a, port)
WantedBy(specs, a, port) ==
    \E k \in DOMAIN specs : specs[k].port = port /\ Wants(specs[k], a)

\* Some entry asks for an arrival exactly when one of the sockets it comes down to wants it.
LEMMA AsksIsWants ==
    ASSUME IsListenCall(call.options), NEW specs,
           specs = ParseListen(call.options.listen, call.options.default_ports,
                               call.options.family),
           specs # Bad, NEW a, NEW port
    PROVE  AskedFor(a, port) <=> WantedBy(specs, a, port)
<1> PICK l, Q : l = call.options /\ Q = ToSet(PairsOf(l))
  OBVIOUS
<1>1. IsListenCall(l) /\ specs = ParseListen(l.listen, l.default_ports, l.family)
  OBVIOUS
<1>2. /\ \A q \in Q : IsPairOf(q, l)
      /\ \A n \in DOMAIN l.listen :
            \A p \in ToSet(PortsOf(l.listen[n], l.default_ports)) :
               [parsed |-> Parsed(l.listen[n], l.family), port |-> p] \in Q
  BY <1>1, PairsAre
<1>3. /\ \A q \in Q : \E k \in DOMAIN specs : SameKey(specs[k], q)
      /\ \A k \in DOMAIN specs : Answers(specs[k], Q)
  BY <1>1, SpecsAre
<1>4. \A n \in DOMAIN l.listen :
          l.listen[n].host \in {"*"} \cup Names \cup Wildcards \cup Addresses
  <2>1. \A n \in DOMAIN l.listen : l.listen[n] \in Entry
    BY <1>1 DEF IsListenCall
  <2> QED
    BY <2>1 DEF Entry
<1>5. ASSUME NEW n \in DOMAIN l.listen, Asks(l.listen[n], a, port)
      PROVE  \E k \in DOMAIN specs : specs[k].port = port /\ Wants(specs[k], a)
  <2>1. PICK parsed : parsed = Parsed(l.listen[n], l.family)
    OBVIOUS
  <2>2. /\ port \in ToSet(PortsOf(l.listen[n], l.default_ports))
        /\ Matches(parsed.address, a) /\ Within(parsed.selectors, a)
    <3>1. PICK entry : entry = l.listen[n]
      OBVIOUS
    <3>2. /\ entry.host \in {"*"} \cup Names \cup Wildcards \cup Addresses
          /\ parsed = Parsed(entry, call.options.family) /\ Asks(entry, a, port)
      BY <1>4, <1>5, <2>1, <3>1
    <3> QED
      BY <3>1, <3>2, AskedIs
  <2>3. PICK q : q = [parsed |-> parsed, port |-> port]
    OBVIOUS
  <2>4. q \in Q /\ q.parsed = parsed /\ q.port = port
    BY <1>2, <2>1, <2>2, <2>3
  <2>5. PICK k \in DOMAIN specs : SameKey(specs[k], q)
    BY <1>3, <2>4
  <2>6. PICK s : s = specs[k]
    OBVIOUS
  <2>7. s.address = parsed.address /\ s.port = port /\ SameKey(s, q) /\ Answers(s, Q)
    BY <1>3, <2>4, <2>5, <2>6 DEF SameKey
  <2>8. ASSUME s.interfaces # {}
        PROVE  a[2] \in AdaptersFor(s.interfaces)
    <3>1. parsed.selectors # {}
      BY <2>4, <2>7, <2>8 DEF Answers
    <3>2. \A name \in parsed.selectors : name \in s.interfaces
      BY <2>4, <2>7, <2>8 DEF Answers
    <3>3. a[2] \in AdaptersFor(parsed.selectors)
      BY <2>2, <3>1 DEF Within
    <3> QED
      BY <3>2, <3>3 DEF AdaptersFor
  <2> QED
    BY <2>2, <2>6, <2>7, <2>8 DEF Wants, Within
<1>6. ASSUME NEW k \in DOMAIN specs, specs[k].port = port, Wants(specs[k], a)
      PROVE  \E n \in DOMAIN l.listen : Asks(l.listen[n], a, port)
  <2>1. PICK s : s = specs[k]
    OBVIOUS
  <2>2. s.port = port /\ Matches(s.address, a) /\ Within(s.interfaces, a) /\ Answers(s, Q)
    BY <1>3, <1>6, <2>1 DEF Wants
  <2>3. PICK q \in Q : SameKey(s, q) /\ Within(q.parsed.selectors, a)
    <3>1. CASE s.interfaces = {}
      BY <2>2, <3>1 DEF Answers, Within
    <3>2. CASE s.interfaces # {}
      <4>1. PICK name \in s.interfaces : a[2] \in Selects[name]
        BY <2>2, <3>2 DEF Within, AdaptersFor
      <4>2. PICK q \in Q : SameKey(s, q) /\ name \in q.parsed.selectors
        BY <2>2, <3>2, <4>1 DEF Answers
      <4>3. a[2] \in AdaptersFor(q.parsed.selectors)
        BY <4>1, <4>2 DEF AdaptersFor
      <4> QED
        BY <4>2, <4>3 DEF Within
    <3> QED
      BY <3>1, <3>2
  <2>4. PICK n \in DOMAIN l.listen :
           /\ q.parsed = Parsed(l.listen[n], l.family)
           /\ q.port \in ToSet(PortsOf(l.listen[n], l.default_ports))
    BY <1>2 DEF IsPairOf
  <2>5. PICK entry, parsed : entry = l.listen[n] /\ parsed = q.parsed
    OBVIOUS
  <2>6. /\ entry.host \in {"*"} \cup Names \cup Wildcards \cup Addresses
        /\ parsed = Parsed(entry, call.options.family)
    BY <1>4, <2>4, <2>5
  <2>7. /\ port \in ToSet(PortsOf(entry, call.options.default_ports))
        /\ Matches(parsed.address, a) /\ Within(parsed.selectors, a)
    BY <2>2, <2>3, <2>4, <2>5 DEF SameKey
  <2>8. Asks(entry, a, port)
    BY <2>6, <2>7, AskedIs
  <2> QED
    BY <2>5, <2>8
<1> QED
  BY <1>5, <1>6 DEF AskedFor, WantedBy

\* A sequence of one.
LEMMA OneHeld ==
    ASSUME NEW S, NEW x \in S
    PROVE  <<x>> \in Seq(S) /\ ToSet(<<x>>) = {x}
<1>1. <<x>> \in Seq(S) /\ DOMAIN <<x>> = {1} /\ <<x>>[1] = x
  OBVIOUS
<1> QED
  BY <1>1 DEF ToSet

\* SetToSeq leaves out nothing of a finite set.
LEMMA SetToSeqHolds ==
    ASSUME NEW S, IsFiniteSet(S)
    PROVE  SetToSeq(S) \in Seq(S) /\ ToSet(SetToSeq(S)) = S
<1>1. PICK N : N = Cardinality(S)
  OBVIOUS
<1>2. N \in Nat /\ ExistsBijection(1..N, S)
  BY <1>1, FS_CardinalityType
<1>3. PICK b \in Bijection(1..N, S) : TRUE
  BY <1>2 DEF ExistsBijection
<1>4. \E f \in [1..N -> S] : IsInjective(f)
  BY <1>3 DEF Bijection, Injection
<1>5. PICK f : f = SetToSeq(S)
  OBVIOUS
<1>6. f \in [1..N -> S] /\ IsInjective(f)
  BY <1>1, <1>4, <1>5 DEF SetToSeq
<1>7. f \in Injection(1..N, S)
  BY <1>6 DEF Injection
<1>8. IsFiniteSet(1..N) /\ Cardinality(1..N) = N
  BY <1>2, FS_Interval
<1>9. f \in Surjection(1..N, S)
  BY <1>1, <1>7, <1>8, FS_Injection
<1>10. \A x \in S : \E n \in 1..N : f[n] = x
  BY <1>9 DEF Surjection
<1>11. f \in Seq(S) /\ DOMAIN f = 1..N
  BY <1>2, <1>6
<1>12. ToSet(f) = S
  BY <1>6, <1>10, <1>11 DEF ToSet
<1> QED
  BY <1>5, <1>11, <1>12

\* A finite set has a finite image.
LEMMA FiniteImage ==
    ASSUME NEW S, IsFiniteSet(S), NEW f, DOMAIN f = S
    PROVE  IsFiniteSet({f[x] : x \in S})
<1>1. PICK T : T = {f[x] : x \in S}
  OBVIOUS
<1>2. PICK g : g = [x \in S |-> f[x]]
  OBVIOUS
<1>3. g \in Surjection(S, T)
  BY <1>1, <1>2 DEF Surjection
<1> QED
  BY <1>1, <1>3, FS_Surjection

\* A host has finitely many addresses.
LEMMA HostAddressesAreFinite == ASSUME NEW family PROVE IsFiniteSet(HostAddresses(family))
<1> DEFINE assigned == [i \in Adapters |-> Assigned[i]]
           P == {a \in Addresses \X Adapters : a[1] \in Assigned[a[2]] /\ Family(a[1]) = family}
           scoped == [a \in P |-> Scoped(a[1], a[2])]
<1>1. IsFiniteSet({assigned[i] : i \in Adapters})
  <2>1. DOMAIN assigned = Adapters
    OBVIOUS
  <2> HIDE DEF assigned
  <2> QED
    BY <2>1, FiniteImage, AddressesAssumption
<1>2. {assigned[i] : i \in Adapters} = {Assigned[i] : i \in Adapters}
  OBVIOUS
<1>3. \A T \in {Assigned[i] : i \in Adapters} : IsFiniteSet(T)
  BY AddressesAssumption
<1>4. IsFiniteSet(Addresses)
  BY <1>1, <1>2, <1>3, FS_UNION DEF Addresses
<1>5. IsFiniteSet(Addresses \X Adapters)
  BY <1>4, AddressesAssumption, FS_Product
<1>6. IsFiniteSet(P)
  <2>1. P \in SUBSET (Addresses \X Adapters)
    OBVIOUS
  <2> HIDE DEF P
  <2> QED
    BY <1>5, <2>1, FS_Subset
<1>7. IsFiniteSet({scoped[a] : a \in P})
  <2>1. DOMAIN scoped = P
    OBVIOUS
  <2> HIDE DEF P, scoped
  <2> QED
    BY <1>6, <2>1, FiniteImage
<1>8. {scoped[a] : a \in P} = HostAddresses(family)
  BY DEF HostAddresses
<1> QED
  BY <1>7, <1>8

-----------------------------------------------------------------------------
\* What one socket of a plan gets, and what the plan of a spec is.
PlannedRecord ==
    [host : Hosts, port : Ports \cup {0}, adapters : SUBSET Adapters,
     device : Adapters \cup {0}, pktinfo : BOOLEAN]
Gets(p, a) ==
    /\ \/ p.host.ip = a[1] /\ p.host.zone \in {0, a[2]}
       \/ p.host.ip \in Wildcards /\ Family(p.host.ip) = Family(a[1])
    /\ p.adapters = {} \/ a[2] \in p.adapters
IsPlannedFor(p, s) ==
    /\ p.port = s.port /\ (p.device # 0 => p.adapters = {p.device})
    /\ p.host.ip \notin Wildcards => p = Planned(p.host, p.port, {}, 0, FALSE)
Implements(plan, s) ==
    /\ plan \in Seq(PlannedRecord)
    /\ \A p \in ToSet(plan) : IsPlannedFor(p, s)
    /\ \A p \in ToSet(plan) :
          p.host.ip \in Wildcards => p.host.ip = s.address /\ ToSet(plan) = {p}
    /\ \A a \in Arrivals : (\E p \in ToSet(plan) : Gets(p, a)) <=> Wants(s, a)

\* An arrival is at an address, on an interface, and neither wildcard is an address.
LEMMA ArrivalIs ==
    ASSUME NEW a \in Arrivals
    PROVE  /\ a[1] \in Addresses /\ a[2] \in Adapters /\ a[1] \notin Wildcards
           /\ a[1] \in LinkLocal => a[1] \in Assigned[a[2]]
<1>1. a[1] \in Addresses /\ a[2] \in Adapters /\ (a[1] \in LinkLocal => a[1] \in Assigned[a[2]])
  BY DEF Arrivals
<1>2. Addresses \cap Wildcards = {}
  BY AddressesAssumption DEF Addresses, Wildcards
<1> QED
  BY <1>1, <1>2

LEMMA WrittenIs ==
    ASSUME NEW ip \in Addresses
    PROVE  Written(ip) \in Hosts /\ Written(ip).ip = ip
<1>1. \E i \in Adapters : ip \in Assigned[i]
  BY DEF Addresses
<1>2. PICK j \in Adapters : j = CHOOSE i \in Adapters : ip \in Assigned[i]
  BY <1>1
<1> QED
  BY <1>2 DEF Written, Scoped, Host, Hosts

\* A plan of one socket.
LEMMA OneImplements ==
    ASSUME NEW s, NEW p \in PlannedRecord, IsPlannedFor(p, s),
           p.host.ip \in Wildcards => p.host.ip = s.address,
           \A a \in Arrivals : Gets(p, a) <=> Wants(s, a)
    PROVE  Implements(<<p>>, s)
<1>1. PICK plan : plan = <<p>>
  OBVIOUS
<1>2. plan \in Seq(PlannedRecord) /\ ToSet(plan) = {p}
  BY <1>1, OneHeld
<1>3. Implements(plan, s)
  BY ONLY <1>2, IsPlannedFor(p, s), p.host.ip \in Wildcards => p.host.ip = s.address,
          \A a \in Arrivals : Gets(p, a) <=> Wants(s, a)
     DEF Implements
<1> QED
  BY <1>1, <1>3

\* The plan of a spec gets what the spec wants: by its address, by a wildcard and the
\* interfaces that match, by a wildcard for all, or by a socket for each address.
LEMMA PlanImplements ==
    ASSUME NEW s \in SpecRecord, s.address \in Wildcards \/ s.interfaces = {},
           NEW options, options.device_binding \in BOOLEAN,
           NEW plan, plan = Plan(s, options), plan # Bad
    PROVE  Implements(plan, s)
<1>1. /\ s.address \in Wildcards \cup Addresses /\ s.port \in Ports \cup {0}
      /\ s.interfaces \in SUBSET Names
  BY DEF SpecRecord, Targets
<1>2. CASE s.address \notin Wildcards
  <2>1. PICK host \in Hosts : host = Written(s.address) /\ host.ip = s.address
    BY <1>1, <1>2, WrittenIs
  <2>2. PICK p : p = Planned(host, s.port, {}, 0, FALSE)
    OBVIOUS
  <2>3. /\ p \in PlannedRecord /\ p.host = host /\ p.port = s.port /\ p.adapters = {}
        /\ p.device = 0
    BY ONLY host \in Hosts, <1>1, <2>2 DEF Planned, PlannedRecord
  <2>4. plan = <<p>>
    BY <1>2, <2>1, <2>2 DEF Plan
  <2>5. IsPlannedFor(p, s)
    BY <2>2, <2>3 DEF IsPlannedFor
  <2>6. \A a \in Arrivals : Gets(p, a) <=> Wants(s, a)
    BY <1>2, <2>1, <2>3 DEF Gets, Wants, Matches, Within
  <2> QED
    BY <1>2, <2>1, <2>3, <2>4, <2>5, <2>6, OneImplements
<1>3. CASE s.address \in Wildcards
  <2>1. PICK any \in Hosts : any = Host(s.address, 0) /\ any.ip = s.address /\ any.zone = 0
    <3>1. PICK any : any = Host(s.address, 0)
      OBVIOUS
    <3>2. any \in Hosts /\ any.ip = s.address /\ any.zone = 0
      BY <1>1, <3>1 DEF Host, Hosts
    <3> QED
      BY <3>1, <3>2
  <2>2. CASE s.interfaces # {}
    <3>1. PICK found : found = AdaptersFor(s.interfaces)
      OBVIOUS
    <3>2. found \in SUBSET Adapters
      BY <1>1, <3>1, SelectsAssumption DEF AdaptersFor
    <3>3. ~ \E name \in s.interfaces : Selects[name] = {}
      BY <1>3, <2>2 DEF Plan
    <3>4. found # {}
      BY <2>2, <3>1, <3>3 DEF AdaptersFor
    <3>5. PICK device : device = IF options.device_binding /\ platform.device
                                 THEN Alone(found) ELSE 0
      OBVIOUS
    <3>6. device = 0 \/ (device \in found /\ found = {device})
      <4>1. CASE \E i \in found : found = {i}
        <5>1. PICK i \in found : found = {i}
          BY <4>1
        <5>2. (CHOOSE j \in found : TRUE) \in found
          BY <5>1
        <5> QED
          BY <3>5, <4>1, <5>1, <5>2 DEF Alone
      <4>2. CASE ~ \E i \in found : found = {i}
        BY <3>5, <4>2 DEF Alone
      <4> QED
        BY <4>1, <4>2
    <3>7. PICK p : p = Planned(any, s.port, found, device, TRUE)
      OBVIOUS
    <3>8. /\ p \in PlannedRecord /\ p.host = any /\ p.port = s.port /\ p.adapters = found
          /\ p.device = device
      <4>1. device \in Adapters \cup {0}
        BY <3>2, <3>6
      <4> QED
        BY ONLY any \in Hosts, <1>1, <3>2, <3>7, <4>1 DEF Planned, PlannedRecord
    <3>9. plan = <<p>>
      BY <1>3, <2>1, <2>2, <3>1, <3>5, <3>7 DEF Plan
    <3>10. IsPlannedFor(p, s)
      BY <1>3, <2>1, <3>6, <3>8 DEF IsPlannedFor
    <3>11. ASSUME NEW a \in Arrivals
           PROVE  Gets(p, a) <=> Wants(s, a)
      <4>1. a[1] \notin Wildcards
        BY ArrivalIs
      <4> QED
        BY <1>3, <2>1, <2>2, <3>1, <3>4, <3>8, <4>1 DEF Gets, Wants, Matches, Within
    <3> QED
      BY <2>1, <3>8, <3>9, <3>10, <3>11, OneImplements
  <2>3. CASE s.interfaces = {} /\ (\/ options.per_address = "yes"
                                   \/ options.per_address = "auto" /\ ~platform.pktinfo)
    <3>1. PICK family, H : family = Family(s.address) /\ H = HostAddresses(family)
      OBVIOUS
    <3>2. PICK hosts : hosts = SetToSeq(H)
      OBVIOUS
    <3>3. hosts \in Seq(H) /\ ToSet(hosts) = H
      BY <3>1, <3>2, SetToSeqHolds, HostAddressesAreFinite
    <3>4. PICK N \in Nat : N = Len(hosts) /\ DOMAIN hosts = 1..N
      BY <3>3
    <3>5. plan = [n \in 1..N |-> Planned(hosts[n], s.port, {}, 0, FALSE)]
      BY <1>3, <2>3, <3>1, <3>2, <3>4 DEF Plan
    <3>6. \A n \in 1..N : hosts[n] \in H
      BY <3>3, <3>4
    <3>7. ASSUME NEW h \in H
          PROVE  h \in Hosts /\ h.ip \in Addresses /\ h.ip \notin Wildcards /\ Family(h.ip) = family
      <4>1. PICK b \in Addresses \X Adapters :
               b[1] \in Assigned[b[2]] /\ Family(b[1]) = family /\ h = Scoped(b[1], b[2])
        BY <3>1 DEF HostAddresses
      <4>2. h \in Hosts /\ h.ip = b[1] /\ b[1] \in Addresses
        BY <4>1 DEF Scoped, Host, Hosts
      <4>3. Addresses \cap Wildcards = {}
        BY AddressesAssumption DEF Addresses, Wildcards
      <4> QED
        BY <4>1, <4>2, <4>3
    <3>8. \A n \in 1..N : /\ plan[n] = Planned(hosts[n], s.port, {}, 0, FALSE)
                          /\ plan[n] \in PlannedRecord /\ plan[n].host = hosts[n]
                          /\ plan[n].port = s.port /\ plan[n].adapters = {}
                          /\ plan[n].device = 0
      <4> SUFFICES ASSUME NEW n \in 1..N
                   PROVE  /\ plan[n] = Planned(hosts[n], s.port, {}, 0, FALSE)
                          /\ plan[n] \in PlannedRecord /\ plan[n].host = hosts[n]
                          /\ plan[n].port = s.port /\ plan[n].adapters = {}
                          /\ plan[n].device = 0
        OBVIOUS
      <4>1. PICK host \in Hosts : host = hosts[n]
        BY <3>6, <3>7
      <4>2. PICK p : p = Planned(host, s.port, {}, 0, FALSE)
        OBVIOUS
      <4>3. plan[n] = p
        BY <3>5, <4>1, <4>2
      <4>4. /\ p \in PlannedRecord /\ p.host = host /\ p.port = s.port /\ p.adapters = {}
            /\ p.device = 0
        BY ONLY host \in Hosts, <1>1, <4>2 DEF Planned, PlannedRecord
      <4> QED
        BY <4>1, <4>2, <4>3, <4>4
    <3>9. plan \in Seq(PlannedRecord) /\ DOMAIN plan = 1..N
      <4>1. DOMAIN plan = 1..N /\ plan = [n \in 1..N |-> plan[n]]
        BY ONLY <3>5
      <4>2. plan \in [1..N -> PlannedRecord]
        BY ONLY <3>8, <4>1
      <4> QED
        BY ONLY N \in Nat, <4>1, <4>2
    <3>10. \A p \in ToSet(plan) :
              IsPlannedFor(p, s) /\ p.host \in H /\ p.host.ip \notin Wildcards
      <4> SUFFICES ASSUME NEW n \in 1..N
                   PROVE  /\ IsPlannedFor(plan[n], s)
                          /\ plan[n].host \in H /\ plan[n].host.ip \notin Wildcards
        BY <3>9 DEF ToSet
      <4> QED
        BY <3>6, <3>7, <3>8 DEF IsPlannedFor
    <3>11. \A h \in H : \E p \in ToSet(plan) : p.host = h /\ p.adapters = {}
      <4> SUFFICES ASSUME NEW h \in H
                   PROVE  \E p \in ToSet(plan) : p.host = h /\ p.adapters = {}
        OBVIOUS
      <4>1. PICK n \in 1..N : hosts[n] = h
        BY <3>3, <3>4 DEF ToSet
      <4> QED
        BY <3>8, <3>9, <4>1 DEF ToSet
    <3>12. ASSUME NEW a \in Arrivals, NEW p \in ToSet(plan), Gets(p, a)
           PROVE  Wants(s, a)
      <4>1. p.host.ip = a[1] /\ Family(a[1]) = family
        BY <3>7, <3>10, <3>12 DEF Gets
      <4> QED
        BY <1>3, <2>3, <3>1, <4>1 DEF Wants, Matches, Within
    <3>13. ASSUME NEW a \in Arrivals, Wants(s, a)
           PROVE  \E p \in ToSet(plan) : Gets(p, a)
      <4>1. /\ a[1] \in Addresses /\ a[2] \in Adapters /\ a[1] \notin Wildcards
            /\ a[1] \in LinkLocal => a[1] \in Assigned[a[2]]
        BY ArrivalIs
      <4>2. Family(a[1]) = family
        BY <1>3, <3>1, <3>13, <4>1 DEF Wants, Matches
      <4>3. PICK i \in Adapters : /\ a[1] \in Assigned[i]
                                  /\ a[1] \in LinkLocal => i = a[2]
        BY <4>1 DEF Addresses
      <4>4. PICK h : h = Scoped(a[1], i)
        OBVIOUS
      <4>5. h \in H
        <5>1. PICK b : b = <<a[1], i>>
          OBVIOUS
        <5>2. b \in Addresses \X Adapters /\ b[1] = a[1] /\ b[2] = i
          BY <4>1, <5>1
        <5> QED
          BY <3>1, <4>2, <4>3, <4>4, <5>2 DEF HostAddresses
      <4>6. h.ip = a[1] /\ h.zone \in {0, a[2]}
        BY <4>3, <4>4 DEF Scoped, Host
      <4>7. PICK p \in ToSet(plan) : p.host = h /\ p.adapters = {}
        BY <3>11, <4>5
      <4> QED
        BY <4>6, <4>7 DEF Gets
    <3> QED
      BY <3>9, <3>10, <3>12, <3>13 DEF Implements
  <2>4. CASE s.interfaces = {} /\ ~(\/ options.per_address = "yes"
                                    \/ options.per_address = "auto" /\ ~platform.pktinfo)
    <3>1. PICK p : p = Planned(any, s.port, {}, 0, TRUE)
      OBVIOUS
    <3>2. /\ p \in PlannedRecord /\ p.host = any /\ p.port = s.port /\ p.adapters = {}
          /\ p.device = 0
      BY ONLY any \in Hosts, <1>1, <3>1 DEF Planned, PlannedRecord
    <3>3. plan = <<p>>
      BY <1>3, <2>1, <2>4, <3>1 DEF Plan
    <3>4. IsPlannedFor(p, s)
      BY <1>3, <2>1, <3>2 DEF IsPlannedFor
    <3>5. ASSUME NEW a \in Arrivals
          PROVE  Gets(p, a) <=> Wants(s, a)
      <4>1. a[1] \notin Wildcards
        BY ArrivalIs
      <4> QED
        BY <1>3, <2>1, <2>4, <3>2, <4>1 DEF Gets, Wants, Matches, Within
    <3> QED
      BY <2>1, <3>2, <3>3, <3>4, <3>5, OneImplements
  <2> QED
    BY <2>2, <2>3, <2>4
<1> QED
  BY <1>2, <1>3

\* Where the same endpoint is the same socket, opening each once leaves none out.
LEMMA OnceHolds ==
    ASSUME NEW S, NEW plan \in Seq(S),
           \A m, n \in DOMAIN plan : SameEndpoint(plan[m], plan[n]) => plan[m] = plan[n]
    PROVE  Once(plan) \in Seq(S) /\ ToSet(Once(plan)) = ToSet(plan)
<1>1. PICK N \in Nat : N = Len(plan) /\ DOMAIN plan = 1..N
  OBVIOUS
<1> DEFINE Upto(n) == {plan[i] : i \in 1..n}
           Seen(n) == \E m \in 1..(n - 1) : SameEndpoint(plan[m], plan[n])
           R == [n \in 0..N |-> {s \in Seq(S) : ToSet(s) = Upto(n)}]
           rule == [y \in (1..N) \X Seq(S) |->
                       IF Seen(y[1]) THEN y[2] ELSE Append(y[2], plan[y[1]])]
           Runs(f) == f = [n \in 0..N |-> IF n = 0 THEN <<>>
                                          ELSE IF \E m \in 1..(n - 1) : SameEndpoint(plan[m], plan[n])
                                          THEN f[n - 1] ELSE Append(f[n - 1], plan[n])]
<1>2. \A n \in 0..N : \A s : s \in R[n] <=> s \in Seq(S) /\ ToSet(s) = Upto(n)
  OBVIOUS
<1>3. \A n \in 1..N : \A s \in Seq(S) :
          rule[<<n, s>>] = IF Seen(n) THEN s ELSE Append(s, plan[n])
  <2> HIDE DEF Seen
  <2> QED
    OBVIOUS
<1>4. Upto(0) = {} /\ Upto(N) = ToSet(plan)
  BY <1>1 DEF ToSet
<1>5. ASSUME NEW n \in 1..N
      PROVE  /\ n - 1 \in 0..N /\ n \in 0..N /\ Upto(n) = Upto(n - 1) \cup {plan[n]}
             /\ plan[n] \in S
  <2>1. n - 1 \in 0..N /\ n \in 0..N /\ 1..n = 1..(n - 1) \cup {n}
    OBVIOUS
  <2> QED
    BY <1>1, <2>1
<1>6. ASSUME NEW n \in 1..N, Seen(n)
      PROVE  plan[n] \in Upto(n - 1)
  <2>1. PICK m \in 1..(n - 1) : SameEndpoint(plan[m], plan[n])
    BY <1>6
  <2>2. m \in 1..N
    OBVIOUS
  <2>3. plan[m] = plan[n]
    BY <1>1, <2>1, <2>2
  <2> QED
    BY <2>3
<1>7. \A n : Seen(n) <=> \E m \in 1..(n - 1) : SameEndpoint(plan[m], plan[n])
  OBVIOUS
<1> HIDE DEF Upto, R, rule, Seen
<1>8. <<>> \in R[0]
  <2>1. <<>> \in Seq(S) /\ 0 \in 0..N
    OBVIOUS
  <2> QED
    BY <1>2, <1>4, <2>1, HeldByNone
<1>9. KeptBy(rule, N, R)
  <2> SUFFICES ASSUME NEW n \in 1..N, NEW s \in R[n - 1]
               PROVE  rule[<<n, s>>] \in R[n]
    BY DEF KeptBy
  <2>1. s \in Seq(S) /\ ToSet(s) = Upto(n - 1)
    BY <1>2, <1>5
  <2>2. CASE Seen(n)
    <3>1. Upto(n) = Upto(n - 1)
      <4>1. plan[n] \in Upto(n - 1)
        BY <1>6, <2>2
      <4>2. Upto(n) = Upto(n - 1) \cup {plan[n]}
        BY <1>5
      <4> QED
        BY ONLY <4>1, <4>2
    <3>2. rule[<<n, s>>] = s
      BY <1>3, <2>1, <2>2
    <3> QED
      BY <1>2, <1>5, <2>1, <3>1, <3>2
  <2>3. CASE ~Seen(n)
    <3>1. PICK x, t : x \in S /\ x = plan[n] /\ t = Append(s, x)
      BY <1>5
    <3>2. PICK M \in Nat : M = Len(s) /\ DOMAIN s = 1..M
      BY <2>1
    <3>3. /\ t \in Seq(S) /\ DOMAIN t = 1..(M + 1) /\ t[M + 1] = x
          /\ \A i \in 1..M : t[i] = s[i]
      BY <2>1, <3>1, <3>2
    <3>4. 1..(M + 1) = 1..M \cup {M + 1}
      OBVIOUS
    <3>5. ToSet(t) = ToSet(s) \cup {x}
      BY <3>2, <3>3, <3>4 DEF ToSet
    <3> QED
      BY <1>2, <1>3, <1>5, <2>1, <2>3, <3>1, <3>3, <3>5
  <2> QED
    BY <2>2, <2>3
<1>10. PICK f : Folds(f, N, R, <<>>, rule)
  BY ONLY N \in Nat, <1>8, <1>9, Fold
<1>11. f[0] = <<>> /\ \A n \in 0..N : f[n] \in Seq(S) /\ ToSet(f[n]) = Upto(n)
  BY <1>2, <1>10 DEF Folds
<1>12. \A n \in 1..N : f[n] = IF \E m \in 1..(n - 1) : SameEndpoint(plan[m], plan[n])
                              THEN f[n - 1] ELSE Append(f[n - 1], plan[n])
  <2>1. \A n \in 1..N : f[n] = IF Seen(n) THEN f[n - 1] ELSE Append(f[n - 1], plan[n])
    BY <1>3, <1>5, <1>10, <1>11 DEF Folds
  <2> QED
    BY ONLY <1>7, <2>1
<1>13. \E g : Runs(g)
  <2> DEFINE g == [n \in 0..N |-> f[n]]
  <2>1. ASSUME NEW n \in 0..N
        PROVE  g[n] = IF n = 0 THEN <<>>
                      ELSE IF \E m \in 1..(n - 1) : SameEndpoint(plan[m], plan[n])
                      THEN g[n - 1] ELSE Append(g[n - 1], plan[n])
    <3>1. n # 0 => n \in 1..N /\ n - 1 \in 0..N
      OBVIOUS
    <3> QED
      BY <1>11, <1>12, <3>1
  <2>2. g = [n \in 0..N |-> g[n]]
    OBVIOUS
  <2> HIDE DEF g
  <2>3. Runs(g)
    BY <2>1, <2>2
  <2> QED
    BY <2>3
<1>14. PICK F : F = CHOOSE g : Runs(g)
  OBVIOUS
<1>15. Runs(F)
  BY <1>13, <1>14
<1>16. Once(plan) = F[N]
  BY <1>1, <1>14 DEF Once
<1>17. /\ F[0] = <<>>
       /\ \A n \in 1..N : F[n] = IF \E m \in 1..(n - 1) : SameEndpoint(plan[m], plan[n])
                                 THEN F[n - 1] ELSE Append(F[n - 1], plan[n])
  <2>1. 0 \in 0..N /\ \A n \in 1..N : n \in 0..N /\ n # 0
    OBVIOUS
  <2>2. F[0] = <<>>
    BY ONLY <1>15, <2>1
  <2>3. ASSUME NEW n \in 1..N
        PROVE  F[n] = IF \E m \in 1..(n - 1) : SameEndpoint(plan[m], plan[n])
                      THEN F[n - 1] ELSE Append(F[n - 1], plan[n])
    BY ONLY <1>15, <2>1, n \in 1..N
  <2> QED
    BY ONLY <2>2, <2>3
<1> HIDE DEF Runs
<1>18. \A n \in 1..N : F[n - 1] = f[n - 1] => F[n] = f[n]
  BY ONLY <1>12, <1>17
<1>19. F[N] = f[N]
  <2>1. F[0] = f[0]
    BY ONLY <1>11, <1>17
  <2>2. \A n \in 0..N : F[n] = f[n]
    BY ONLY SMTT(30), N \in Nat, <2>1, <1>18, Agree
  <2> QED
    BY ONLY N \in Nat, <2>2
<1> QED
  <2>1. N \in 0..N
    OBVIOUS
  <2> QED
    BY ONLY <1>4, <1>11, <1>16, <1>19, <2>1

\* The sockets of accepted plans, each opened once: together they get exactly what the
\* setting asks for.
Fulfils(plans, specs) ==
    /\ plans \in Seq(PlannedRecord)
    /\ \A p \in ToSet(plans) : p.device # 0 => p.adapters = {p.device}
    /\ \A a \in Arrivals : \A port :
          (\E p \in ToSet(plans) : p.port = port /\ Gets(p, a))
            <=> \E k \in DOMAIN specs : specs[k].port = port /\ Wants(specs[k], a)

LEMMA PlansFulfil ==
    ASSUME NEW l, IsListenCall(l), NEW specs,
           specs = ParseListen(l.listen, l.default_ports, l.family),
           NEW plans, plans = Plans(specs, l), plans # Bad
    PROVE  specs # Bad /\ Fulfils(plans, specs)
<1>1. specs # Bad
  BY DEF Plans
<1>2. PICK Q : Q = ToSet(PairsOf(l))
  OBVIOUS
<1>3. specs \in Seq(SpecRecord) /\ Distinct(specs) /\ \A n \in DOMAIN specs : Answers(specs[n], Q)
  BY <1>1, <1>2, SpecsAre
<1>4. PICK N \in Nat : N = Len(specs) /\ DOMAIN specs = 1..N
  BY <1>3
<1>5. ASSUME NEW n \in 1..N
      PROVE  specs[n].address \in Wildcards \/ specs[n].interfaces = {}
  <2>1. PICK s : s = specs[n]
    OBVIOUS
  <2>2. PICK q \in Q : SameKey(s, q)
    BY <1>3, <1>4, <2>1 DEF Answers
  <2>3. PICK m \in DOMAIN l.listen : q.parsed = Parsed(l.listen[m], l.family)
    BY <1>2, PairsAre DEF IsPairOf
  <2>4. PICK entry : entry = l.listen[m]
    OBVIOUS
  <2>5. entry.host \in {"*"} \cup Names \cup Wildcards \cup Addresses
    <3>1. entry \in Entry
      BY <2>4 DEF IsListenCall
    <3> QED
      BY <3>1 DEF Entry
  <2>6. q.parsed.address \in Wildcards \/ q.parsed.selectors = {}
    BY <2>3, <2>4, <2>5, ParsedIs
  <2>7. CASE q.parsed.address \in Wildcards
    BY <2>1, <2>2, <2>7 DEF SameKey
  <2>8. CASE q.parsed.selectors = {}
    BY <1>3, <1>4, <2>1, <2>2, <2>8 DEF Answers
  <2> QED
    BY <2>6, <2>7, <2>8
<1>6. PICK seqs : seqs = [n \in 1..N |-> Plan(specs[n], l)]
  OBVIOUS
<1>7. DOMAIN seqs = 1..N /\ \A n \in 1..N : seqs[n] = Plan(specs[n], l) /\ seqs[n] # Bad
  <2>1. DOMAIN seqs = 1..N /\ \A n \in 1..N : seqs[n] = Plan(specs[n], l)
    BY <1>6
  <2>2. ~ \E n \in DOMAIN seqs : seqs[n] = Bad
    BY <1>4, <1>6 DEF Plans
  <2> QED
    BY <2>1, <2>2
<1>8. plans = Once(FlattenSeq(seqs))
  BY <1>1, <1>4, <1>6, <1>7 DEF Plans
<1>9. ASSUME NEW n \in 1..N
      PROVE  Implements(seqs[n], specs[n])
  <2>1. PICK s \in SpecRecord : s = specs[n]
    BY <1>3, <1>4
  <2>2. PICK plan : plan = seqs[n]
    OBVIOUS
  <2>3. /\ s.address \in Wildcards \/ s.interfaces = {}
        /\ l.device_binding \in BOOLEAN
        /\ plan = Plan(s, l) /\ plan # Bad
    BY <1>5, <1>7, <2>1, <2>2 DEF IsListenCall
  <2>4. Implements(plan, s)
    BY ONLY s \in SpecRecord, <2>3, PlanImplements
  <2> QED
    BY <2>1, <2>2, <2>4
<1>10. seqs \in Seq(Seq(PlannedRecord))
  <2>1. \A n \in 1..N : seqs[n] \in Seq(PlannedRecord)
    BY <1>9 DEF Implements
  <2> QED
    BY <1>6, <1>7, <2>1
<1>11. PICK flat : flat = FlattenSeq(seqs)
  OBVIOUS
<1>12. /\ flat \in Seq(PlannedRecord)
       /\ \A x : x \in ToSet(flat) <=> \E n \in 1..N : x \in ToSet(seqs[n])
  BY ONLY <1>7, <1>10, <1>11, Flattened
<1>13. ASSUME NEW p \in ToSet(flat), NEW q \in ToSet(flat), SameEndpoint(p, q)
       PROVE  p = q
  <2>1. PICK m \in 1..N, n \in 1..N : p \in ToSet(seqs[m]) /\ q \in ToSet(seqs[n])
    BY <1>12
  <2>2. p.host = q.host /\ p.port = q.port
    BY <1>13 DEF SameEndpoint
  <2>3. IsPlannedFor(p, specs[m]) /\ IsPlannedFor(q, specs[n])
    BY <1>9, <2>1 DEF Implements
  <2>4. CASE p.host.ip \notin Wildcards
    BY <2>2, <2>3, <2>4 DEF IsPlannedFor
  <2>5. CASE p.host.ip \in Wildcards
    <3>1. /\ p.host.ip = specs[m].address /\ ToSet(seqs[m]) = {p}
          /\ q.host.ip = specs[n].address
      BY <1>9, <2>1, <2>2, <2>5 DEF Implements
    <3>2. specs[m].address = specs[n].address /\ specs[m].port = specs[n].port
      BY <2>2, <2>3, <3>1 DEF IsPlannedFor
    <3>3. m = n
      BY <1>3, <1>4, <3>2 DEF Distinct
    <3> QED
      BY <2>1, <3>1, <3>3
  <2> QED
    BY <2>4, <2>5
<1>14. plans \in Seq(PlannedRecord) /\ ToSet(plans) = ToSet(flat)
  <2>1. \A m, n \in DOMAIN flat : SameEndpoint(flat[m], flat[n]) => flat[m] = flat[n]
    BY <1>13 DEF ToSet
  <2>2. Once(flat) \in Seq(PlannedRecord) /\ ToSet(Once(flat)) = ToSet(flat)
    BY ONLY <1>12, <2>1, OnceHolds
  <2> QED
    BY <1>8, <1>11, <2>2
<1>15. ASSUME NEW p \in ToSet(plans)
       PROVE  p.device # 0 => p.adapters = {p.device}
  <2>1. PICK n \in 1..N : p \in ToSet(seqs[n])
    BY <1>12, <1>14
  <2>2. IsPlannedFor(p, specs[n])
    BY <1>9, <2>1 DEF Implements
  <2> QED
    BY <2>2 DEF IsPlannedFor
<1>16. ASSUME NEW a \in Arrivals, NEW port
       PROVE  (\E p \in ToSet(plans) : p.port = port /\ Gets(p, a))
                <=> \E k \in 1..N : specs[k].port = port /\ Wants(specs[k], a)
  <2>1. ASSUME NEW p \in ToSet(plans), p.port = port, Gets(p, a)
        PROVE  \E k \in 1..N : specs[k].port = port /\ Wants(specs[k], a)
    <3>1. PICK k \in 1..N : p \in ToSet(seqs[k])
      BY <1>12, <1>14
    <3>2. IsPlannedFor(p, specs[k]) /\ Wants(specs[k], a)
      BY <1>9, <2>1, <3>1 DEF Implements
    <3>3. specs[k].port = port
      BY <2>1, <3>2 DEF IsPlannedFor
    <3> QED
      BY <3>2, <3>3
  <2>2. ASSUME NEW k \in 1..N, specs[k].port = port, Wants(specs[k], a)
        PROVE  \E p \in ToSet(plans) : p.port = port /\ Gets(p, a)
    <3>1. PICK p \in ToSet(seqs[k]) : Gets(p, a)
      BY <1>9, <2>2 DEF Implements
    <3>2. p \in ToSet(plans) /\ p.port = port
      BY <1>9, <1>12, <1>14, <2>2, <3>1 DEF Implements, IsPlannedFor
    <3> QED
      BY <3>1, <3>2
  <2> QED
    BY <2>1, <2>2
<1> QED
  BY ZenonT(30), <1>1, <1>4, <1>14, <1>15, <1>16 DEF Fulfils

-----------------------------------------------------------------------------
(* bind_listen over its plan.                                                  *)

\* What the call under way, or the one that ended well, was asked to open.
Asked == LET l == call.options
         IN  Plans(ParseListen(l.listen, l.default_ports, l.family), l)
Underway == call.op = "listen" /\ (Ended => call.result = "ok")

\* A socket is the planned one, and an endpoint reports it as planned.
IsAsPlanned(s, p) ==
    /\ s.host = p.host /\ p.port \in {0, s.port} /\ s.device \in {0, p.device}
    /\ Family(p.host.ip) = 6 => "v6only" \in s.options
Opens(e, p) ==
    /\ e.fd \in call.opened /\ e = EndpointOf(p, e.fd)
    /\ \A s \in table : s.fd = e.fd => IsAsPlanned(s, p)

\* What is planned is open or still to be opened, and what is open was planned.
Progress ==
    Underway =>
      /\ call.options \in ListenCalls /\ Asked # Bad
      /\ call.todo \in Seq(ToSet(Asked)) /\ (Ended => call.todo = <<>>)
      /\ \A e \in endpoints : e.fd \in call.opened => \E p \in ToSet(Asked) : Opens(e, p)
      /\ \A p \in ToSet(Asked) : p \in ToSet(call.todo) \/ \E e \in endpoints : Opens(e, p)

\* The attempt is for the next of them, with its device or without.
Trying ==
    call.op = "listen" /\ call.step = "trying" =>
      /\ call.todo # <<>>
      /\ \E device \in {0, Head(call.todo).device} :
            attempt.args = ListenArgs(Head(call.todo), device)

\* From its configuration on, a socket has the device and the options it was asked for.
Chosen ==
    Holding /\ attempt.step # "configure" =>
      \A s \in table : s.fd = attempt.fd =>
         s.device = attempt.args.device /\ attempt.args.options \subseteq s.options

\* No failure passes for success.
ErrorsAreNamed == attempt.step = "failed" => attempt.error # "ok"

ListenInv == Progress /\ Trying /\ Chosen /\ ErrorsAreNamed

\* The arguments for a planned socket.
LEMMA ListenArgsAre ==
    ASSUME NEW p, NEW device
    PROVE  LET a == ListenArgs(p, device)
           IN  /\ a.interface = 0 /\ a.host = p.host /\ a.port = p.port /\ a.device = device
               /\ Family(p.host.ip) = 6 => "v6only" \in a.options
<1>1. PICK v6only : v6only = IF Family(p.host.ip) = 6 THEN {"v6only"} ELSE {}
  OBVIOUS
<1>2. PICK b : b = Args("bind", p.host, p.port, v6only)
  OBVIOUS
<1>3. PICK a : a = [b EXCEPT !.device = device,
                            !.allow_address_takeover = call.options.takeover]
  OBVIOUS
<1>4. /\ a.interface = 0 /\ a.host = p.host /\ a.port = p.port /\ a.device = device
      /\ a.options = v6only
  BY <1>2, <1>3 DEF Args
<1>5. a = ListenArgs(p, device)
  BY <1>1, <1>2, <1>3 DEF ListenArgs
<1> QED
  BY <1>1, <1>4, <1>5

\* What a call of bind begins with.
LEMMA BegunListens ==
    ASSUME NEW p, NEW device, NEW t \in Begun(ListenArgs(p, device))
    PROVE  /\ t.args = ListenArgs(p, device) /\ t.step \in {"create", "failed"}
           /\ t.step = "failed" => t.error # "ok"
<1>1. PICK a : a = ListenArgs(p, device)
  OBVIOUS
<1>2. a.interface = 0
  BY <1>1, ListenArgsAre
<1>3. \/ t = [step |-> "failed", error |-> "value", fd |-> 0, args |-> a]
      \/ t = [step |-> "create", error |-> "none", fd |-> 0, args |-> a]
  BY <1>1, <1>2 DEF Begun
<1> QED
  BY <1>1, <1>3

\* The plan is the same as long as the arguments and the platform are.
LEMMA PlansStay ==
    ASSUME UNCHANGED platform, NEW specs, NEW l
    PROVE  Plans(specs, l)' = Plans(specs, l)
<1>1. ASSUME NEW s PROVE Plan(s, l)' = Plan(s, l)
  BY DEF Plan
<1>2. [n \in DOMAIN specs |-> Plan(specs[n], l)]' = [n \in DOMAIN specs |-> Plan(specs[n], l)]
  BY <1>1
<1> QED
  BY <1>2 DEF Plans

LEMMA AskedStays ==
    ASSUME UNCHANGED platform, call'.options = call.options
    PROVE  Asked' = Asked
<1>1. PICK l : l = call.options
  OBVIOUS
<1>2. PICK specs : specs = ParseListen(l.listen, l.default_ports, l.family)
  OBVIOUS
<1>3. Asked = Plans(specs, l)
  BY <1>1, <1>2 DEF Asked
<1>4. Asked' = Plans(specs, l)'
  BY <1>1, <1>2 DEF Asked
<1> QED
  BY <1>3, <1>4, PlansStay

\* An operation that is no listening call promises nothing; nor does one that failed.
LEMMA NothingPromised ==
    ASSUME ~Underway', call'.op = "listen" => call'.step # "trying", ~Holding',
           attempt'.step = "failed" => attempt'.error # "ok"
    PROVE  ListenInv'
BY DEF ListenInv, Progress, Trying, Chosen, ErrorsAreNamed

\* A step that leaves the call alone, and the sockets it has opened, leaves the promise.
LEMMA PromiseStays ==
    ASSUME Progress, UNCHANGED <<platform, opVars>>,
           \A s \in table' : s.fd \in call.opened => s \in table
    PROVE  Progress'
<1> USE DEF opVars
<1>1. Asked' = Asked
  BY AskedStays
<1>2. ASSUME NEW e, NEW p, Opens(e, p)
      PROVE  Opens(e, p)'
  BY <1>2 DEF Opens, IsAsPlanned, EndpointOf
<1>3. Underway' <=> Underway
  BY DEF Underway, Ended
<1> SUFFICES ASSUME Underway PROVE Progress'
  BY <1>3 DEF Progress
<1>4. PICK asked : asked = Asked /\ asked = Asked'
  BY <1>1
<1>5. /\ call.options \in ListenCalls /\ asked # Bad
      /\ call.todo \in Seq(ToSet(asked)) /\ (Ended => call.todo = <<>>)
      /\ \A e \in endpoints : e.fd \in call.opened => \E p \in ToSet(asked) : Opens(e, p)
      /\ \A p \in ToSet(asked) : p \in ToSet(call.todo) \/ \E e \in endpoints : Opens(e, p)
  BY <1>4 DEF Progress
<1>6. /\ \A e \in endpoints' : e.fd \in call'.opened => \E p \in ToSet(asked) : Opens(e, p)'
      /\ \A p \in ToSet(asked) : p \in ToSet(call'.todo) \/ \E e \in endpoints' : Opens(e, p)'
  BY <1>2, <1>5
<1>7. /\ call'.options \in ListenCalls /\ Asked' # Bad
      /\ call'.todo \in Seq(ToSet(asked)) /\ (Ended' => call'.todo = <<>>)
  BY <1>4, <1>5 DEF Ended
<1> QED
  BY <1>4, <1>6, <1>7 DEF Progress

\* The attempt stays the one for the next socket of the plan.
LEMMA AttemptStays ==
    ASSUME Trying, UNCHANGED call, attempt'.args = attempt.args
    PROVE  Trying'
<1>1. \A p, device : ListenArgs(p, device)' = ListenArgs(p, device)
  BY DEF ListenArgs
<1> QED
  BY <1>1 DEF Trying

\* A failing step closes no socket the call has opened.
LEMMA FailsListens ==
    ASSUME IInv, ListenInv, Holding \/ attempt.step = "create", NEW error, error # "ok",
           Fails(error), UNCHANGED platform, UNCHANGED opVars
    PROVE  ListenInv'
<1>1. IsAttempt(attempt)
  BY DEF IInv, Shapes, Holding, None
<1>2. attempt'.step = "failed" /\ attempt'.error = error /\ attempt'.args = attempt.args
  BY <1>1 DEF Fails, IsAttempt
<1>3. Progress'
  BY PromiseStays DEF ListenInv, Fails
<1>4. Trying'
  BY <1>2, AttemptStays DEF ListenInv, opVars
<1>5. Chosen' /\ ErrorsAreNamed'
  BY <1>2 DEF Chosen, ErrorsAreNamed, Holding
<1> QED
  BY <1>3, <1>4, <1>5 DEF ListenInv

\* A step that succeeds changes only the attempt's socket.
LEMMA BecomesListens ==
    ASSUME IInv, ListenInv, Holding, NEW s, NEW step \in {"bind", "listen", "join", "ok"},
           Becomes(s, step), UNCHANGED platform, UNCHANGED opVars, s.fd = Current.fd,
           s.device = attempt.args.device, attempt.args.options \subseteq s.options
    PROVE  ListenInv'
<1>1. IsAttempt(attempt)
  BY DEF IInv, Shapes, Holding, None
<1>2. attempt'.step = step /\ attempt'.fd = attempt.fd /\ attempt'.args = attempt.args
  BY <1>1 DEF Becomes, IsAttempt
<1>3. /\ Current.fd = attempt.fd /\ attempt.fd \notin call.opened
      /\ \A t \in table : t.fd = attempt.fd <=> t = Current
  BY CurrentIsTheOne DEF IInv, Owned, Held
<1>4. \A t \in table' : t = s \/ (t \in table /\ t.fd # attempt.fd)
  BY <1>3 DEF Becomes
<1>5. Progress'
  <2>1. \A t \in table' : t.fd \in call.opened => t \in table
    BY <1>3, <1>4
  <2> QED
    BY <2>1, PromiseStays DEF ListenInv
<1>6. Trying'
  BY <1>2, AttemptStays DEF ListenInv, opVars
<1>7. Chosen'
  BY <1>2, <1>4 DEF Chosen
<1>8. ErrorsAreNamed'
  BY <1>2 DEF ErrorsAreNamed
<1> QED
  BY <1>5, <1>6, <1>7, <1>8 DEF ListenInv

\* A new socket is none of those the call has opened.
LEMMA CreateListens ==
    ASSUME IInv, ListenInv, Create, UNCHANGED opVars PROVE ListenInv'
<1> DEFINE a == attempt.args
           s == [fd |-> NewFd, owner |-> a.owner, kind |-> a.kind, host |-> a.host, port |-> 0,
                 options |-> {}, asked |-> AsksToShare(a), device |-> 0,
                 listening |-> FALSE, joined |-> {}]
<1>1. CASE a.device # 0 /\ ~platform.device
  BY <1>1, FailsListens DEF Create
<1>2. CASE ~(a.device # 0 /\ ~platform.device)
  <2>1. /\ attempt.step = "create" /\ Room /\ table' = table \cup {s}
        /\ attempt' = [attempt EXCEPT !.step = "configure", !.fd = s.fd]
        /\ UNCHANGED <<platform, opVars>>
    BY <1>2 DEF Create
  <2>2. IsAttempt(attempt)
    BY <2>1 DEF IInv, Shapes, None
  <2>3. attempt'.step = "configure" /\ attempt'.args = attempt.args
    BY <2>1, <2>2 DEF IsAttempt
  <2>4. s.fd = NewFd /\ \A t \in table : t.fd # NewFd
    BY <2>1, NewFdIsFree DEF Free
  <2> HIDE DEF s
  <2>5. \A t \in table' : t.fd \in call.opened => t \in table
    BY <2>1, <2>4 DEF IInv, Owned
  <2>6. Progress'
    BY <2>1, <2>5, PromiseStays DEF ListenInv
  <2>7. Trying'
    BY <2>1, <2>3, AttemptStays DEF ListenInv, opVars
  <2>8. Chosen' /\ ErrorsAreNamed'
    BY <2>3 DEF Chosen, ErrorsAreNamed
  <2> QED
    BY <2>6, <2>7, <2>8 DEF ListenInv
<1> QED
  BY <1>1, <1>2

\* The options and the device are set before the socket is bound.
LEMMA ConfigureListens ==
    ASSUME IInv, ListenInv, Configure, UNCHANGED opVars PROVE ListenInv'
<1> DEFINE a == attempt.args
<1>1. Holding /\ attempt.step = "configure" /\ UNCHANGED platform
  BY DEF Configure, Holding
<1>2. Current \in table /\ IsSocket(Current)
  BY <1>1, CurrentIsTheOne DEF IInv, Shapes
<1>3. ASSUME NEW granted \in BOOLEAN,
             Becomes([Current EXCEPT !.options = IF a.owner = "bind"
                          THEN Configured(a, granted) ELSE a.options,
                          !.device = a.device], "bind")
      PROVE  ListenInv'
  <2>1. PICK options : /\ options = IF a.owner = "bind" THEN Configured(a, granted) ELSE a.options
                       /\ a.options \subseteq options
    BY DEF Configured
  <2>2. PICK device : device = a.device
    OBVIOUS
  <2>3. PICK s : s = [Current EXCEPT !.options = options, !.device = device]
    OBVIOUS
  <2>4. s.fd = Current.fd /\ s.device = device /\ s.options = options
    BY <1>2, <2>3 DEF IsSocket
  <2>5. Becomes(s, "bind")
    BY <1>3, <2>1, <2>2, <2>3
  <2> QED
    BY <1>1, <2>1, <2>2, <2>4, <2>5, BecomesListens
<1> QED
  BY <1>1, <1>3, FailsListens DEF Configure

\* Its port, its state and its groups are all that changes then.
LEMMA LaterListens ==
    ASSUME IInv, ListenInv, Bind \/ Listens \/ (Joins /\ UNCHANGED platform), UNCHANGED opVars
    PROVE  ListenInv'
<1>1. Holding /\ attempt.step # "configure" /\ UNCHANGED platform
  BY DEF Bind, Listens, Joins, Holding
<1>2. /\ Current \in table /\ IsSocket(Current)
      /\ Current.device = attempt.args.device /\ attempt.args.options \subseteq Current.options
  BY <1>1, CurrentIsTheOne DEF IInv, ListenInv, Chosen, Shapes
<1>3. ASSUME NEW s, s.fd = Current.fd, s.device = Current.device, s.options = Current.options,
             NEW step \in {"bind", "listen", "join", "ok"}, Becomes(s, step)
      PROVE  ListenInv'
  BY <1>1, <1>2, <1>3, BecomesListens
<1>4. ASSUME NEW error, error # "ok", Fails(error)
      PROVE  ListenInv'
  BY <1>1, <1>4, FailsListens
<1>5. ASSUME NEW port, NEW s, s = [Current EXCEPT !.port = port]
      PROVE  s.fd = Current.fd /\ s.device = Current.device /\ s.options = Current.options
  BY <1>2, <1>5 DEF IsSocket
<1>6. ASSUME NEW joined, NEW s, s = [Current EXCEPT !.joined = joined]
      PROVE  s.fd = Current.fd /\ s.device = Current.device /\ s.options = Current.options
  BY <1>2, <1>6 DEF IsSocket
<1>7. CASE Bind
  <2> DEFINE next == IF attempt.args.listen /\ attempt.args.kind = "tcp" THEN "listen"
                     ELSE IF attempt.args.owner = "multicast" THEN "join" ELSE "ok"
  <2>1. \/ \E p : Becomes([Current EXCEPT !.port = p], next)
        \/ \E error : error # "ok" /\ Fails(error)
    BY <1>7 DEF Bind, Refusal
  <2>2. next \in {"bind", "listen", "join", "ok"}
    OBVIOUS
  <2> HIDE DEF next
  <2>3. ASSUME NEW p, Becomes([Current EXCEPT !.port = p], next)
        PROVE  ListenInv'
    <3>1. PICK s : s = [Current EXCEPT !.port = p]
      OBVIOUS
    <3> QED
      BY <1>3, <1>5, <2>2, <2>3, <3>1
  <2> QED
    BY <1>4, <2>1, <2>3
<1>8. CASE Listens
  <2>1. PICK s : s = [Current EXCEPT !.listening = TRUE]
    OBVIOUS
  <2>2. s.fd = Current.fd /\ s.device = Current.device /\ s.options = Current.options
    BY <1>2, <2>1, WithListening
  <2>3. Becomes(s, "ok") \/ Fails("refused")
    BY <1>8, <2>1 DEF Listens
  <2> QED
    BY <1>3, <1>4, <2>2, <2>3
<1>9. CASE Joins
  <2>1. \/ \E joined, step : /\ step \in {"join", "ok"}
                             /\ Becomes([Current EXCEPT !.joined = joined], step)
        \/ Becomes(Current, "ok")
        \/ Fails("refused")
    BY <1>9 DEF Joins
  <2>2. ASSUME NEW joined, NEW step \in {"join", "ok"},
               Becomes([Current EXCEPT !.joined = joined], step)
        PROVE  ListenInv'
    <3>1. PICK s : s = [Current EXCEPT !.joined = joined]
      OBVIOUS
    <3> QED
      BY <1>3, <1>6, <2>2, <3>1
  <2>3. Becomes(Current, "ok") => ListenInv'
    BY <1>3
  <2> QED
    BY <1>4, <2>1, <2>2, <2>3
<1> QED
  BY <1>7, <1>8, <1>9

\* Other programs open and close no socket of the call's.
LEMMA OthersListen ==
    ASSUME IInv, ListenInv, Others PROVE ListenInv'
<1>1. UNCHANGED <<platform, attempt, opVars>>
  BY DEF Others, OtherBinds, OtherCloses
<1>2. \A s \in table' : s \in table \/ (s.fd = NewFd /\ Room)
  <2>1. CASE OtherCloses
    BY <2>1 DEF OtherCloses
  <2>2. CASE OtherBinds(OtherHosts)
    <3>1. PICK h \in OtherHosts, p \in Ports, kind \in {"udp", "tcp"}, reuse \in BOOLEAN :
             LET s == [fd |-> NewFd, owner |-> "other", kind |-> kind, host |-> h, port |-> p,
                       options |-> IF reuse THEN {"reuseaddr"} ELSE {}, asked |-> reuse,
                       device |-> 0, listening |-> kind = "tcp", joined |-> {}]
             IN  ~InUse(s) /\ table' = table \cup {s}
      BY <2>2 DEF OtherBinds
    <3> QED
      BY <2>2, <3>1 DEF OtherBinds
  <2> QED
    BY <2>1, <2>2 DEF Others
<1>3. ASSUME Room PROVE NewFd \notin call.opened \cup Held
  BY <1>3, NewFdIsFree DEF Free, IInv, Owned, CurrentIsAsked, Held
<1>4. Progress'
  <2>1. \A s \in table' : s.fd \in call.opened => s \in table
    BY <1>2, <1>3
  <2> QED
    BY <1>1, <2>1, PromiseStays DEF ListenInv
<1>5. Trying'
  BY <1>1, AttemptStays DEF ListenInv, opVars
<1>6. Chosen'
  <2>1. \A s \in table' : Holding /\ s.fd = attempt.fd => s \in table
    BY <1>2, <1>3 DEF Held
  <2> QED
    BY <1>1, <2>1 DEF ListenInv, Chosen, Holding
<1>7. ErrorsAreNamed'
  BY <1>1 DEF ListenInv, ErrorsAreNamed
<1> QED
  BY <1>4, <1>5, <1>6, <1>7 DEF ListenInv

\* A sequence is one of what it holds.
LEMMA HoldsItsOwn == ASSUME NEW S, NEW s \in Seq(S) PROVE s \in Seq(ToSet(s))
<1>1. PICK N \in Nat : N = Len(s) /\ DOMAIN s = 1..N
  OBVIOUS
<1>2. s = [n \in 1..N |-> s[n]] /\ \A n \in 1..N : s[n] \in ToSet(s)
  BY <1>1 DEF ToSet
<1> QED
  BY <1>2

\* The arguments of bind_listen are those the plan's lemmas are about.
LEMMA ListenCallsAre == ASSUME NEW l \in ListenCalls PROVE IsListenCall(l)
BY ListenCallsAssumption DEF IsListenCall, Entry

\* A listening call begins with everything still to be opened.
LEMMA CallListenListens ==
    ASSUME IInv, ListenInv, CallListen PROVE ListenInv'
<1>1. attempt = None /\ UNCHANGED <<platform, table, attempt, endpoints>>
  BY DEF CallListen, Quiet, Ended, bindVars, IInv, Phases
<1>2. ~Holding' /\ attempt'.step # "failed"
  BY <1>1 DEF Holding, None
<1>3. PICK l \in ListenCalls :
         LET plans == Plans(ParseListen(l.listen, l.default_ports, l.family), l)
             begun == [Called("listen", plans) EXCEPT !.options = l]
         IN  call' = IF plans = Bad THEN [begun EXCEPT !.step = "ended", !.result = "value"]
                     ELSE begun
  BY DEF CallListen
<1>4. PICK specs : specs = ParseListen(l.listen, l.default_ports, l.family)
  OBVIOUS
<1>5. PICK plans : plans = Plans(specs, l)
  OBVIOUS
<1>6. CASE plans = Bad
  <2>1. call' = [[Called("listen", plans) EXCEPT !.options = l]
                    EXCEPT !.step = "ended", !.result = "value"]
    BY <1>3, <1>4, <1>5, <1>6
  <2>2. call'.step = "ended" /\ call'.result = "value"
    BY <2>1 DEF Called
  <2>3. ~Underway'
    BY <2>2 DEF Underway, Ended
  <2> QED
    BY <1>2, <2>2, <2>3, NothingPromised
<1>7. CASE plans # Bad
  <2>1. call' = [Called("listen", plans) EXCEPT !.options = l]
    BY <1>3, <1>4, <1>5, <1>7
  <2>2. /\ call'.op = "listen" /\ call'.step = "next" /\ call'.todo = plans
        /\ call'.opened = {} /\ call'.options = l
    BY <2>1 DEF Called
  <2>3. Asked' = plans
    <3>1. Asked' = Plans(specs, l)'
      BY <1>4, <2>2 DEF Asked
    <3> QED
      BY <1>1, <1>5, <3>1, PlansStay
  <2>4. plans \in Seq(ToSet(plans))
    <3>1. Fulfils(plans, specs)
      BY <1>4, <1>5, <1>7, ListenCallsAre, PlansFulfil
    <3> QED
      BY <3>1, HoldsItsOwn DEF Fulfils
  <2>5. Progress'
    BY <1>7, <2>2, <2>3, <2>4 DEF Progress, Ended
  <2> QED
    BY <1>2, <2>2, <2>5 DEF ListenInv, Trying, Chosen, ErrorsAreNamed
<1> QED
  BY <1>6, <1>7

\* The next socket of the plan is tried, or the plan is done and all of it is open.
LEMMA OpenNextListens ==
    ASSUME IInv, ListenInv, OpenNext PROVE ListenInv'
<1>1. /\ call.op = "listen" /\ call.step = "next" /\ attempt = None /\ IsCall(call)
      /\ UNCHANGED <<platform, table, endpoints>>
  BY DEF OpenNext, IInv, Shapes, Phases, None
<1>2. Underway
  BY <1>1 DEF Underway, Ended
<1>3. PICK asked : asked = Asked
  OBVIOUS
<1>4. /\ call.options \in ListenCalls /\ asked # Bad /\ call.todo \in Seq(ToSet(asked))
      /\ \A e \in endpoints : e.fd \in call.opened => \E p \in ToSet(asked) : Opens(e, p)
      /\ \A p \in ToSet(asked) : p \in ToSet(call.todo) \/ \E e \in endpoints : Opens(e, p)
  BY <1>2, <1>3 DEF ListenInv, Progress
<1>5. ASSUME IsCall(call'), call'.options = call.options, call'.todo = call.todo,
             call'.opened = call.opened, call'.step = "ended" => call.todo = <<>>
      PROVE  Progress'
  <2>1. Asked' = asked
    BY <1>1, <1>3, <1>5, AskedStays
  <2>2. \A e, p : Opens(e, p)' <=> Opens(e, p)
    BY <1>1, <1>5 DEF Opens, IsAsPlanned, EndpointOf
  <2>3. /\ \A e \in endpoints' : e.fd \in call'.opened => \E p \in ToSet(asked) : Opens(e, p)'
        /\ \A p \in ToSet(asked) : p \in ToSet(call'.todo) \/ \E e \in endpoints' : Opens(e, p)'
    BY ONLY <1>1, <1>4, <1>5, <2>2
  <2>4. /\ call'.options \in ListenCalls /\ call'.todo \in Seq(ToSet(asked))
        /\ Ended' => call'.todo = <<>>
    BY <1>4, <1>5 DEF Ended
  <2> QED
    BY ONLY <1>4, <2>1, <2>3, <2>4 DEF Progress
<1>6. CASE call.todo = <<>>
  <2>1. call' = Result("ok") /\ attempt' = None
    BY <1>1, <1>6 DEF OpenNext
  <2>2. /\ IsCall(call') /\ call'.options = call.options /\ call'.todo = call.todo
        /\ call'.opened = call.opened /\ call'.step = "ended"
    <3>1. PICK r : r = [call EXCEPT !.step = "ended", !.result = "ok"]
      OBVIOUS
    <3>2. /\ r.options = call.options /\ r.todo = call.todo
          /\ r.opened = call.opened /\ r.step = "ended"
      BY <1>1, <3>1 DEF IsCall
    <3>3. call' = r
      BY <2>1, <3>1 DEF Result
    <3> QED
      BY <1>1, <2>1, <3>2, <3>3, ResultIsACall
  <2>3. Progress'
    BY <1>5, <1>6, <2>2
  <2> QED
    BY <2>1, <2>2, <2>3 DEF ListenInv, Trying, Chosen, ErrorsAreNamed, Holding, None
<1>7. CASE call.todo # <<>>
  <2>1. PICK p : p = Head(call.todo)
    OBVIOUS
  <2>2. attempt' \in Begun(ListenArgs(p, p.device)) /\ call' = [call EXCEPT !.step = "trying"]
    BY <1>7, <2>1 DEF OpenNext
  <2>3. /\ IsCall(call') /\ call'.options = call.options /\ call'.todo = call.todo
        /\ call'.opened = call.opened /\ call'.step = "trying"
    BY <1>1, <2>2 DEF IsCall
  <2>4. /\ attempt'.args = ListenArgs(p, p.device) /\ attempt'.step \in {"create", "failed"}
        /\ attempt'.step = "failed" => attempt'.error # "ok"
    BY <2>2, BegunListens
  <2>5. Progress'
    BY <1>5, <2>3
  <2>6. Trying'
    <3>1. ListenArgs(p, p.device)' = ListenArgs(p, p.device)
      BY <2>3 DEF ListenArgs
    <3> QED
      BY <1>7, <2>1, <2>3, <2>4, <3>1 DEF Trying
  <2>7. Chosen' /\ ErrorsAreNamed'
    BY <2>4 DEF Chosen, ErrorsAreNamed, Holding
  <2> QED
    BY <2>5, <2>6, <2>7 DEF ListenInv
<1> QED
  BY <1>6, <1>7

\* What is at the head of a sequence, and after it, is all there is.
LEMMA HeadAndTail ==
    ASSUME NEW S, NEW s \in Seq(S), s # <<>>
    PROVE  /\ Head(s) \in ToSet(s) /\ Head(s) \in S /\ Tail(s) \in Seq(S)
           /\ \A x \in ToSet(s) : x = Head(s) \/ x \in ToSet(Tail(s))
<1>1. PICK N \in Nat : N = Len(s) /\ DOMAIN s = 1..N
  OBVIOUS
<1>2. N # 0 /\ Head(s) = s[1] /\ 1 \in 1..N /\ s[1] \in S
  BY <1>1
<1>3. PICK t : t = Tail(s)
  OBVIOUS
<1>4. /\ t \in Seq(S) /\ DOMAIN t = 1..(N - 1)
      /\ \A i \in 1..(N - 1) : t[i] = s[i + 1]
  BY <1>1, <1>2, <1>3
<1>5. ASSUME NEW i \in 1..N
      PROVE  s[i] = Head(s) \/ s[i] \in ToSet(t)
  <2>1. i = 1 \/ (i - 1 \in 1..(N - 1) /\ (i - 1) + 1 = i)
    OBVIOUS
  <2>2. CASE i = 1
    BY <1>2, <2>2
  <2>3. CASE i - 1 \in 1..(N - 1) /\ (i - 1) + 1 = i
    <3>1. PICK j \in 1..(N - 1) : j + 1 = i
      BY <2>3
    <3> QED
      BY <1>4, <3>1 DEF ToSet
  <2> QED
    BY <2>1, <2>2, <2>3
<1> QED
  BY <1>1, <1>2, <1>3, <1>4, <1>5 DEF ToSet

\* The attempt's socket is what was planned for it.
LEMMA AttemptIsAsPlanned ==
    ASSUME IInv, ListenInv, call.op = "listen", call.step = "trying", attempt.step = "ok"
    PROVE  \A s \in table : s.fd = attempt.fd => IsAsPlanned(s, Head(call.todo))
<1>1. PICK p : p = Head(call.todo)
  OBVIOUS
<1>2. PICK device \in {0, p.device} : attempt.args = ListenArgs(p, device)
  BY <1>1 DEF ListenInv, Trying
<1>3. PICK a : a = attempt.args
  OBVIOUS
<1>4. /\ a.host = p.host /\ a.port = p.port /\ a.device = device
      /\ Family(p.host.ip) = 6 => "v6only" \in a.options
  BY <1>2, <1>3, ListenArgsAre
<1>5. ASSUME NEW s \in table, s.fd = attempt.fd
      PROVE  IsAsPlanned(s, p)
  <2>1. s.host = a.host /\ s.port # 0 /\ a.port \in {0, s.port}
    BY <1>3, <1>5 DEF IInv, CurrentIsAsked, IsAt, Holding
  <2>2. s.device = a.device /\ a.options \subseteq s.options
    BY <1>3, <1>5 DEF ListenInv, Chosen, Holding
  <2> QED
    BY <1>4, <2>1, <2>2 DEF IsAsPlanned
<1> QED
  BY <1>1, <1>5

\* A socket of the plan is open and its endpoint made, or the call has failed.
LEMMA ListeningListens ==
    ASSUME IInv, ListenInv, Listening PROVE ListenInv'
<1>1. /\ call.op = "listen" /\ call.step = "trying" /\ attempt.step = "ok" /\ attempt' = None
      /\ Holding /\ Held = {attempt.fd} /\ IsCall(call) /\ UNCHANGED <<platform, handles>>
  BY DEF Listening, IInv, Shapes, Holding, Held
<1>2. ~Holding' /\ attempt'.step # "failed"
  BY <1>1 DEF Holding, None
<1>3. CASE /\ endpoints' = endpoints \cup {EndpointOf(Head(call.todo), attempt.fd)}
           /\ call' = [call EXCEPT !.step = "next", !.todo = Tail(@),
                                   !.opened = @ \cup {attempt.fd}]
           /\ UNCHANGED table
  <2>1. PICK asked : asked = Asked
    OBVIOUS
  <2>2. /\ call.options \in ListenCalls /\ asked # Bad /\ call.todo \in Seq(ToSet(asked))
        /\ \A e \in endpoints : e.fd \in call.opened => \E p \in ToSet(asked) : Opens(e, p)
        /\ \A p \in ToSet(asked) : p \in ToSet(call.todo) \/ \E e \in endpoints : Opens(e, p)
    BY <1>1, <2>1 DEF ListenInv, Progress, Underway, Ended
  <2>3. /\ call'.step = "next" /\ call'.todo = Tail(call.todo)
        /\ call'.opened = call.opened \cup {attempt.fd} /\ call'.options = call.options
    BY <1>1, <1>3 DEF IsCall
  <2>4. Asked' = asked
    BY <1>1, <2>1, <2>3, AskedStays
  <2>5. PICK p : p = Head(call.todo)
    OBVIOUS
  <2>6. /\ p \in ToSet(asked) /\ Tail(call.todo) \in Seq(ToSet(asked))
        /\ \A x \in ToSet(call.todo) : x = p \/ x \in ToSet(Tail(call.todo))
    <3>1. call.todo # <<>>
      BY <1>1 DEF ListenInv, Trying
    <3> QED
      BY <2>2, <2>5, <3>1, HeadAndTail
  <2>7. PICK new : new = EndpointOf(p, attempt.fd)
    OBVIOUS
  <2>8. new.fd = attempt.fd /\ endpoints' = endpoints \cup {new}
    BY <1>3, <2>5, <2>7 DEF EndpointOf
  <2>9. Opens(new, p)'
    <3>1. \A s \in table : s.fd = new.fd => IsAsPlanned(s, p)
      BY <1>1, <2>5, <2>8, AttemptIsAsPlanned
    <3> QED
      BY <1>3, <2>3, <2>7, <2>8, <3>1 DEF Opens, IsAsPlanned, EndpointOf
  <2>10. ASSUME NEW e, NEW q, Opens(e, q)
         PROVE  Opens(e, q)'
    BY <1>3, <2>3, <2>10 DEF Opens, IsAsPlanned, EndpointOf
  <2>11. ASSUME NEW e \in endpoints', e.fd \in call'.opened
         PROVE  \E q \in ToSet(asked) : Opens(e, q)'
    <3>1. CASE e = new
      BY <2>6, <2>9, <3>1
    <3>2. CASE e # new
      <4>1. e \in endpoints /\ e.fd # attempt.fd
        BY <1>1, <2>8, <2>11, <3>2 DEF IInv, Owned
      <4>2. e.fd \in call.opened
        BY <2>3, <2>11, <4>1
      <4> QED
        BY <2>2, <2>10, <4>1, <4>2
    <3> QED
      BY <3>1, <3>2
  <2>12. ASSUME NEW q \in ToSet(asked)
         PROVE  q \in ToSet(call'.todo) \/ \E e \in endpoints' : Opens(e, q)'
    BY <2>2, <2>3, <2>6, <2>8, <2>9, <2>10
  <2>13. Progress'
    BY <2>2, <2>3, <2>4, <2>6, <2>11, <2>12 DEF Progress, Ended
  <2> QED
    BY <1>2, <2>3, <2>13 DEF ListenInv, Trying, Chosen, ErrorsAreNamed
<1>4. CASE call' = [Result("refused") EXCEPT !.opened = {}]
  <2>1. IsCall(Result("refused")) /\ Result("refused").step = "ended"
        /\ Result("refused").result = "refused"
    BY <1>1, ResultIsACall
  <2>2. call'.step = "ended" /\ call'.result = "refused"
    BY <1>4, <2>1 DEF IsCall
  <2> QED
    BY <1>2, <2>2, NothingPromised DEF Underway, Ended
<1> QED
  BY <1>3, <1>4 DEF Listening

\* A refused device is done without; any other failure is the call's.
LEMMA ListenFailsListens ==
    ASSUME IInv, ListenInv, ListenFails PROVE ListenInv'
<1>1. /\ call.op = "listen" /\ call.step = "trying" /\ attempt.step = "failed"
      /\ IsCall(call) /\ UNCHANGED <<platform, handles, made>>
  BY DEF ListenFails, IInv, Shapes
<1>2. CASE /\ attempt' \in Begun(ListenArgs(Head(call.todo), 0))
           /\ UNCHANGED <<table, endpoints, call>>
  <2>1. PICK p : p = Head(call.todo)
    OBVIOUS
  <2>2. /\ attempt'.args = ListenArgs(p, 0) /\ attempt'.step \in {"create", "failed"}
        /\ attempt'.step = "failed" => attempt'.error # "ok"
    BY <1>2, <2>1, BegunListens
  <2>3. Progress'
    BY <1>1, <1>2, PromiseStays DEF ListenInv, opVars
  <2>4. Trying'
    <3>1. ListenArgs(p, 0)' = ListenArgs(p, 0)
      BY <1>2 DEF ListenArgs
    <3> QED
      BY <1>1, <1>2, <2>1, <2>2, <3>1 DEF ListenInv, Trying
  <2> QED
    BY <2>2, <2>3, <2>4 DEF ListenInv, Chosen, ErrorsAreNamed, Holding
<1>3. CASE CloseAll(attempt.error) /\ attempt' = None
  <2>1. PICK error : error = attempt.error
    OBVIOUS
  <2>2. error # "ok"
    BY <1>1, <2>1 DEF ListenInv, ErrorsAreNamed
  <2>3. IsCall(Result(error)) /\ Result(error).step = "ended" /\ Result(error).result = error
    BY <1>1, ResultIsACall
  <2>4. call' = [Result(error) EXCEPT !.opened = {}]
    BY <1>3, <2>1 DEF CloseAll
  <2>5. call'.step = "ended" /\ call'.result = error
    BY <2>3, <2>4 DEF IsCall
  <2>6. ~Holding' /\ attempt'.step # "failed"
    BY <1>3 DEF Holding, None
  <2> QED
    BY <2>2, <2>5, <2>6, NothingPromised DEF Underway, Ended
<1> QED
  BY <1>2, <1>3 DEF ListenFails

\* The steps of the other operations.
LEMMA OtherOperationsListen ==
    ASSUME IInv, ListenInv, CallBind \/ Binds \/ CallReply \/ ReplyNext \/ ReplyEnds \/ Close
    PROVE  ListenInv'
<1>1. call'.op # "listen" => ListenInv'
  <2>1. ~Holding' /\ (attempt'.step = "failed" => attempt'.error # "ok")
    <3>1. \/ attempt' = None
          \/ \E a : attempt' \in Begun(a)
          \/ attempt' = attempt /\ call.step # "trying"
      <4>1. CASE CallBind
        BY <4>1 DEF CallBind
      <4>2. CASE Binds \/ ReplyEnds
        BY <4>2 DEF Binds, ReplyEnds
      <4>3. CASE CallReply \/ Close
        BY <4>3 DEF CallReply, Close, Quiet, Ended, bindVars
      <4>4. CASE ReplyNext
        BY <4>4 DEF ReplyNext
      <4> QED
        BY <4>1, <4>2, <4>3, <4>4
    <3>2. ASSUME NEW a, attempt' \in Begun(a)
          PROVE  /\ attempt'.step \in {"create", "failed"}
                 /\ attempt'.step = "failed" => attempt'.error # "ok"
      BY <3>2 DEF Begun
    <3>3. call.step # "trying" => attempt = None
      BY DEF IInv, Phases
    <3> QED
      BY <3>1, <3>2, <3>3 DEF Holding, None
  <2> QED
    BY <2>1, NothingPromised DEF Underway
<1>2. CASE CallBind
  BY <1>1, <1>2 DEF CallBind, Called
<1>3. CASE Binds
  BY <1>1, <1>3, ResultIsACall DEF Binds, IInv, Shapes
<1>4. CASE CallReply
  BY <1>1, <1>4 DEF CallReply, Called
<1>5. CASE ReplyNext
  BY <1>1, <1>5, ResultIsACall DEF ReplyNext, IInv, Shapes, IsCall
<1>6. CASE ReplyEnds
  BY <1>1, <1>6, ResultIsACall DEF ReplyEnds, NextPort, NextAddress, IInv, Shapes, IsCall
<1>7. CASE Close
  BY <1>1, <1>7 DEF Close, IInv, Shapes, IsCall
<1> QED
  BY <1>2, <1>3, <1>4, <1>5, <1>6, <1>7

\* Once the call has ended well, what is open gets what was asked for.
LEMMA ListensThen ==
    ASSUME IInv, ListenInv, Ended, call.op = "listen", call.result = "ok",
           NEW a \in Arrivals, NEW port \in Ports
    PROVE  (\E n \in DOMAIN call.options.listen : Asks(call.options.listen[n], a, port))
             <=> \E e \in endpoints, s \in table :
                     /\ e.fd = s.fd /\ e.fd \in call.opened /\ e.port = port
                     /\ Reaches(s, a) /\ Admits(e, a)
<1>1. PICK l, plans : l = call.options /\ plans = Asked
  OBVIOUS
<1>2. /\ l \in ListenCalls /\ plans # Bad /\ call.todo = <<>>
      /\ \A e \in endpoints : e.fd \in call.opened => \E p \in ToSet(plans) : Opens(e, p)
      /\ \A p \in ToSet(plans) : p \in ToSet(call.todo) \/ \E e \in endpoints : Opens(e, p)
  BY <1>1 DEF ListenInv, Progress, Underway
<1>3. PICK specs : specs = ParseListen(l.listen, l.default_ports, l.family)
  OBVIOUS
<1>4. IsListenCall(l) /\ plans = Plans(specs, l)
  BY <1>1, <1>2, <1>3, ListenCallsAre DEF Asked
<1>5. specs # Bad /\ Fulfils(plans, specs)
  BY <1>2, <1>3, <1>4, PlansFulfil
<1>6. (\E n \in DOMAIN l.listen : Asks(l.listen[n], a, port))
        <=> \E k \in DOMAIN specs : specs[k].port = port /\ Wants(specs[k], a)
  <2>1. /\ IsListenCall(call.options) /\ specs # Bad
        /\ specs = ParseListen(call.options.listen, call.options.default_ports,
                               call.options.family)
    BY <1>1, <1>3, <1>4, <1>5
  <2>2. AskedFor(a, port) <=> WantedBy(specs, a, port)
    BY ONLY <2>1, AsksIsWants
  <2> QED
    BY ONLY <1>1, <2>2 DEF AskedFor, WantedBy
<1>7. (\E p \in ToSet(plans) : p.port = port /\ Gets(p, a))
        <=> \E k \in DOMAIN specs : specs[k].port = port /\ Wants(specs[k], a)
  BY <1>5 DEF Fulfils
<1>8. /\ \A fd \in call.opened : \E s \in table : s.fd = fd
      /\ \A s \in table : s.fd \in call.opened => s.port # 0
  BY DEF IInv, Owned, Phases, Held, Holding, Ended, None
<1>9. \A p \in ToSet(plans) : p.device # 0 => p.adapters = {p.device}
  BY <1>5 DEF Fulfils
<1>10. a[1] \notin Wildcards
  BY ArrivalIs
<1>11. Family("any6") = 6
  BY DEF Family
<1>12. ASSUME NEW p \in ToSet(plans), p.port = port, Gets(p, a)
       PROVE  \E e \in endpoints, s \in table :
                  /\ e.fd = s.fd /\ e.fd \in call.opened /\ e.port = port
                  /\ Reaches(s, a) /\ Admits(e, a)
  <2>1. PICK e \in endpoints : Opens(e, p)
    BY <1>2, HeldByNone
  <2>2. e.fd \in call.opened /\ e.port = port /\ e.interfaces = p.adapters
    BY <1>12, <2>1 DEF Opens, EndpointOf
  <2>3. PICK s \in table : s.fd = e.fd
    BY <1>8, <2>2
  <2>4. IsAsPlanned(s, p) /\ s.port # 0
    BY <1>8, <2>1, <2>2, <2>3 DEF Opens
  <2>5. Admits(e, a)
    BY <1>12, <2>2 DEF Admits, Gets
  <2>6. s.device \in {0, a[2]}
    BY <1>9, <1>12, <2>4 DEF IsAsPlanned, Gets
  <2>7. Reaches(s, a)
    BY <1>12, <2>4, <2>6 DEF Reaches, Gets, IsAsPlanned
  <2> QED
    BY <2>2, <2>3, <2>5, <2>7
<1>13. ASSUME NEW e \in endpoints, NEW s \in table,
              e.fd = s.fd, e.fd \in call.opened, e.port = port, Reaches(s, a), Admits(e, a)
       PROVE  \E p \in ToSet(plans) : p.port = port /\ Gets(p, a)
  <2>1. PICK p \in ToSet(plans) : Opens(e, p)
    BY <1>2, <1>13
  <2>2. e.port = p.port /\ e.interfaces = p.adapters /\ IsAsPlanned(s, p)
    BY <1>13, <2>1 DEF Opens, EndpointOf
  <2>3. Gets(p, a)
    BY <1>11, <1>13, <2>2 DEF Reaches, Gets, IsAsPlanned, Admits
  <2> QED
    BY <1>13, <2>2, <2>3
<1>14. (\E p \in ToSet(plans) : p.port = port /\ Gets(p, a))
         <=> \E e \in endpoints, s \in table :
                 /\ e.fd = s.fd /\ e.fd \in call.opened /\ e.port = port
                 /\ Reaches(s, a) /\ Admits(e, a)
  BY ONLY <1>12, <1>13
<1> QED
  BY ONLY <1>1, <1>6, <1>7, <1>14

\* bind_listen that succeeds listens where it was asked to and nowhere else: whatever the
\* entries, however they share addresses, ports and interfaces, and whichever of the
\* devices the kernel refuses.
THEOREM ListeningIsAsAsked == Spec => []ListensWhereAsked
<1>1. Init => ListenInv
  BY DEF Init, Called, ListenInv, Progress, Trying, Chosen, ErrorsAreNamed, Underway, Holding,
         None
<1>2. IInv /\ ListenInv /\ [Next]_vars => ListenInv'
  <2> SUFFICES ASSUME IInv, ListenInv, [Next]_vars PROVE ListenInv'
    OBVIOUS
  <2>1. CASE CallBind \/ Binds \/ CallReply \/ ReplyNext \/ ReplyEnds \/ Close
    BY <2>1, OtherOperationsListen
  <2>2. CASE CallListen
    BY <2>2, CallListenListens
  <2>3. CASE BindStep /\ UNCHANGED opVars
    BY <2>3, CreateListens, ConfigureListens, LaterListens DEF BindStep
  <2>4. CASE Joins
    BY <2>4, LaterListens DEF Joins
  <2>5. CASE OpenNext
    BY <2>5, OpenNextListens
  <2>6. CASE Listening
    BY <2>6, ListeningListens
  <2>7. CASE ListenFails
    BY <2>7, ListenFailsListens
  <2>8. CASE Others
    BY <2>8, OthersListen
  <2>9. CASE UNCHANGED vars
    <3>1. UNCHANGED <<platform, opVars, table, attempt>>
      BY <2>9 DEF vars, opVars, bindVars
    <3>2. Progress'
      BY <3>1, PromiseStays DEF ListenInv
    <3>3. Trying'
      BY <3>1, AttemptStays DEF ListenInv, opVars
    <3>4. Chosen' /\ ErrorsAreNamed'
      BY <3>1 DEF ListenInv, Chosen, ErrorsAreNamed, Holding
    <3> QED
      BY <3>2, <3>3, <3>4 DEF ListenInv
  <2> QED
    BY <2>1, <2>2, <2>3, <2>4, <2>5, <2>6, <2>7, <2>8, <2>9 DEF Next
<1>3. IInv /\ ListenInv => ListensWhereAsked
  BY ListensThen DEF ListensWhereAsked
<1> QED
  BY <1>1, <1>2, <1>3, Invariance, PTL DEF Spec
=============================================================================
