------------------------------- MODULE Binding -------------------------------
(***************************************************************************)
(* One call of netimps.bind (_sockets/_bind.py with _device.py and         *)
(* _hint.py), step by step, over the table of sockets the kernel keeps and *)
(* other programs also use.  A failing step closes the socket and leaves   *)
(* the error for the caller to act on.                                     *)
(***************************************************************************)
EXTENDS Integers, FiniteSets

CONSTANTS Adapters,      \* the indexes of the host's interfaces
          Assigned,      \* Assigned[i]: the addresses of interface i
          LinkLocal,     \* those that mean nothing without an interface
          V6,            \* the IPv6 addresses
          Ports,         \* the ports a caller names
          Ephemeral,     \* the ports the kernel gives for port 0
          MaxSockets     \* bound of the model on the sockets open at once

ASSUME AdaptersAssumption == Adapters \subseteq Nat \ {0}
ASSUME AddressesAssumption ==
    /\ IsFiniteSet(Adapters) /\ \A i \in Adapters : IsFiniteSet(Assigned[i])
    /\ {"any4", "any6"} \cap (V6 \cup UNION {Assigned[i] : i \in Adapters}) = {}
ASSUME PortsAssumption == 0 \notin Ports /\ 0 \notin Ephemeral
ASSUME MaxSocketsAssumption == MaxSockets \in Nat

VARIABLES platform,      \* what this platform and kernel offer
          table,         \* the open sockets
          attempt        \* the call of bind under way

bindVars == <<platform, table, attempt>>

Addresses == UNION {Assigned[i] : i \in Adapters}
Wildcards == {"any4", "any6"}
Family(ip) == IF ip \in V6 \cup {"any6"} THEN 6 ELSE 4
Host(ip, zone) == [ip |-> ip, zone |-> zone]
Hosts == [ip : Wildcards \cup Addresses, zone : Adapters \cup {0}]

\* Windows has SO_EXCLUSIVEADDRUSE and neither SO_REUSEPORT nor a device option.
Platforms ==
    {p \in [exclusive : BOOLEAN, reuseport : BOOLEAN, device : BOOLEAN, pktinfo : BOOLEAN] :
        /\ p.exclusive => ~p.reuseport
        /\ p.device => p.reuseport}
Options == {"reuseaddr", "exclusive", "reuseport", "v6only"}
Socket == [fd : 1..MaxSockets, owner : {"bind", "multicast", "other"}, kind : {"udp", "tcp"},
           host : Hosts, port : Ports \cup Ephemeral \cup {0}, options : SUBSET Options,
           asked : BOOLEAN, device : Adapters \cup {0}, listening : BOOLEAN,
           joined : SUBSET STRING]

\* The arguments of bind, and of multicast_socket, which is for datagrams only.
BindArgs ==
    {a \in [owner : {"bind", "multicast"}, kind : {"udp", "tcp"}, host : Hosts,
            port : Ports \cup {0}, options : SUBSET Options, reuse_address : BOOLEAN,
            allow_address_takeover : BOOLEAN, reuse_port : BOOLEAN, listen : BOOLEAN,
            interface : Adapters \cup {0}, family : {0, 4, 6}, device : Adapters \cup {0},
            groups : SUBSET STRING] :
        a.owner = "multicast" => a.kind = "udp"}
-----------------------------------------------------------------------------
\* Where a datagram or a connection can come in: to an address, on an interface.  IPv4
\* addresses answer on every interface of the host, link-local ones on their own.
Arrivals == {a \in Addresses \X Adapters : a[1] \in LinkLocal => a[1] \in Assigned[a[2]]}

Reaches(s, arrival) ==
    LET ip == arrival[1]
    IN  /\ s.port # 0
        /\ s.device \in {0, arrival[2]}
        /\ \/ s.host.ip = ip /\ s.host.zone \in {0, arrival[2]}
           \/ s.host.ip \in Wildcards /\ Family(s.host.ip) = Family(ip)
           \/ s.host.ip = "any6" /\ "v6only" \notin s.options

Overlap(s, t) ==
    s.kind = t.kind /\ s.port = t.port /\ \E a \in Arrivals : Reaches(s, a) /\ Reaches(t, a)

\* The kernel's rule: Windows refuses a port held exclusively and lets SO_REUSEADDR take
\* any other; elsewhere both sockets must have opted in, by the same option, and a
\* listening stream only by SO_REUSEPORT.
Both(option, s, t) == option \in s.options \cap t.options
Blocks(old, new) ==
    /\ Overlap(old, new)
    /\ IF platform.exclusive
       THEN "exclusive" \in old.options \cup new.options \/ "reuseaddr" \notin new.options
       ELSE /\ ~Both("reuseport", old, new)
            /\ ~Both("reuseaddr", old, new) \/ (old.listening /\ old.kind = "tcp")

InUse(s) == \E old \in table : old.fd # s.fd /\ Blocks(old, s)
-----------------------------------------------------------------------------
SharesByAddress(a) ==
    a.reuse_port /\ a.kind = "udp" /\ platform.exclusive /\ ~platform.reuseport

TakeoverRequested(a) ==
    a.allow_address_takeover \/ SharesByAddress(a) \/ "reuseaddr" \in a.options

\* What a call of bind says, by argument or by option, to share a port.
AsksToShare(a) == TakeoverRequested(a) \/ a.reuse_port \/ "reuseport" \in a.options

\* Mutant: reuse_address means SO_REUSEADDR for datagram sockets too.
Configured_Datagrams(a, granted) ==
    (IF TakeoverRequested(a) THEN {"reuseaddr"}
     ELSE IF platform.exclusive THEN {"exclusive"}
     ELSE IF a.reuse_address THEN {"reuseaddr"} ELSE {})
    \cup (IF a.reuse_port /\ platform.reuseport /\ granted THEN {"reuseport"} ELSE {})
    \cup a.options

\* The reuse options bind sets before binding; a kernel may refuse SO_REUSEPORT.
Configured(a, granted) ==
    (IF TakeoverRequested(a) THEN {"reuseaddr"}
     ELSE IF platform.exclusive THEN {"exclusive"}
     ELSE IF a.reuse_address /\ a.kind # "udp" THEN {"reuseaddr"} ELSE {})
    \cup (IF a.reuse_port /\ platform.reuseport /\ granted THEN {"reuseport"} ELSE {})
    \cup a.options

\* The address of interface=: any of the wanted family, scoped when it is link-local.
InterfaceAddress(a) ==
    {Host(ip, IF ip \in LinkLocal THEN a.interface ELSE 0) :
        ip \in {ip \in Assigned[a.interface] : a.family \in {0, Family(ip)}}}

Idle == attempt.step \in {"none", "ok", "failed"}
Free(fd) == \A s \in table : s.fd # fd
Room == {fd \in 1..MaxSockets : Free(fd)} # {}
NewFd == CHOOSE fd \in 1..MaxSockets : Free(fd)
Current == CHOOSE s \in table : s.fd = attempt.fd
None == [step |-> "none"]
-----------------------------------------------------------------------------
\* The checks that precede the socket: interface= resolves, and not together with
\* device=; multicast groups are of one family.
Begun(a) ==
    IF Cardinality({Family(g) : g \in a.groups}) > 1
    THEN {[step |-> "failed", error |-> "value", fd |-> 0, args |-> a]}
    ELSE IF a.interface = 0
    THEN {[step |-> "create", error |-> "none", fd |-> 0, args |-> a]}
    ELSE IF a.device # 0 \/ InterfaceAddress(a) = {}
         THEN {[step |-> "failed", error |-> "value", fd |-> 0, args |-> a]}
         ELSE {[step |-> "create", error |-> "none", fd |-> 0, args |-> [a EXCEPT !.host = h]] :
               h \in InterfaceAddress(a)}

Fails(error) ==
    /\ attempt' = [attempt EXCEPT !.step = "failed", !.error = error, !.fd = 0]
    /\ table' = {s \in table : s.fd # attempt.fd}

Becomes(s, step) ==
    /\ table' = (table \ {Current}) \cup {s}
    /\ attempt' = [attempt EXCEPT !.step = step]

Create ==
    /\ attempt.step = "create"
    /\ LET a == attempt.args
           s == [fd |-> NewFd, owner |-> a.owner, kind |-> a.kind, host |-> a.host, port |-> 0,
                 options |-> {}, asked |-> AsksToShare(a), device |-> 0,
                 listening |-> FALSE, joined |-> {}]
       IN  IF a.device # 0 /\ ~platform.device
           THEN Fails("unsupported")
           ELSE /\ Room
                /\ table' = table \cup {s}
                /\ attempt' = [attempt EXCEPT !.step = "configure", !.fd = s.fd]
    /\ UNCHANGED platform

\* Options, then the device, which takes a privilege on some kernels.
Configure ==
    /\ attempt.step = "configure"
    /\ LET a == attempt.args
       IN  \/ \E granted \in BOOLEAN :
                 Becomes([Current EXCEPT !.options = IF a.owner = "bind"
                              THEN Configured(a, granted) ELSE a.options,
                              !.device = a.device], "bind")
           \/ Fails("refused")
           \/ a.device # 0 /\ Fails("permission")
    /\ UNCHANGED platform

\* A bind without the right to it: Windows has no privileged ports, there the same code
\* says that the port is held.
Refusal == IF platform.exclusive THEN "in_use" ELSE "permission"

\* A link-local address without its zone, except on Windows, and an address that left the
\* host are refused; a port held by a socket that blocks this one is in use.
Bind ==
    /\ attempt.step = "bind"
    /\ LET a == attempt.args
           Bound(p) == [Current EXCEPT !.port = p]
           free == {p \in (IF a.port = 0 THEN Ephemeral ELSE {a.port}) : ~InUse(Bound(p))}
       IN  IF a.host.ip \in LinkLocal /\ a.host.zone = 0 /\ ~platform.exclusive
           THEN Fails("refused")
           ELSE \/ \E p \in free :
                      Becomes(Bound(p), IF a.listen /\ a.kind = "tcp" THEN "listen"
                                        ELSE IF a.owner = "multicast" THEN "join" ELSE "ok")
                \/ free = {} /\ Fails("in_use")
                \/ a.host.ip \notin Wildcards /\ Fails("refused")
                \/ Fails(Refusal)
    /\ UNCHANGED platform

\* Elsewhere than on Windows two streams may share a port until one of them listens.
Listens ==
    /\ attempt.step = "listen"
    /\ LET s == [Current EXCEPT !.listening = TRUE]
       IN  IF \E old \in table : old.fd # s.fd /\ old.listening /\ Blocks(old, s)
           THEN Fails("refused") ELSE Becomes(s, "ok")
    /\ UNCHANGED platform

BindStep == Create \/ Configure \/ Bind \/ Listens
-----------------------------------------------------------------------------
\* Another program opens and closes sockets with options of its choice.
OtherBinds(hosts) ==
    /\ Idle \/ attempt.step \in {"create", "configure", "bind"}
    /\ Room /\ \A s \in table : s.owner # "other"
    /\ \E h \in hosts, p \in Ports, kind \in {"udp", "tcp"}, reuse \in BOOLEAN :
         LET s == [fd |-> NewFd, owner |-> "other", kind |-> kind, host |-> h, port |-> p,
                   options |-> IF reuse THEN {"reuseaddr"} ELSE {}, asked |-> reuse,
                   device |-> 0, listening |-> kind = "tcp", joined |-> {}]
         IN  ~InUse(s) /\ table' = table \cup {s}
    /\ UNCHANGED <<platform, attempt>>

OtherCloses ==
    /\ table' = {s \in table : s.owner # "other"}
    /\ table' # table
    /\ UNCHANGED <<platform, attempt>>
=============================================================================
