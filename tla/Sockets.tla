------------------------------- MODULE Sockets -------------------------------
(***************************************************************************)
(* The sockets a program opens through netimps: bind itself, bind_listen   *)
(* over its plan (_listen/_binding.py), UDPEndpoint.reply_socket over its  *)
(* candidates (_udp/_reply.py) and multicast_socket (_multicast.py), each  *)
(* a series of calls of bind that other programs' sockets come between.    *)
(***************************************************************************)
EXTENDS ListenPlan

CONSTANTS Calls,         \* the calls of bind and multicast_socket a program makes
          ListenCalls,   \* the arguments of bind_listen
          ReplyPorts,    \* the values of reply_socket's port=
          OtherHosts,    \* where other programs bind
          MaxCalls       \* bound of the model on the calls of one behaviour

ASSUME CallsAssumption == Calls \subseteq BindArgs
ASSUME ListenCallsAssumption ==
    ListenCalls \subseteq
        [listen : Seq([host : {"*"} \cup Names \cup Wildcards \cup Addresses,
                       ports : Seq(Ports \cup {0})]),
         default_ports : Seq(Ports \cup {0}), family : {0, 4, 6},
         per_address : {"yes", "no", "auto"}, device_binding : BOOLEAN, takeover : BOOLEAN]

VARIABLES call,          \* the operation under way, or the one that ended last
          endpoints,     \* the UDPEndpoints of bind_listen, by the socket's fd
          handles,       \* the sockets the application holds
          made           \* calls made so far

vars == <<bindVars, call, endpoints, handles, made>>
opVars == <<call, endpoints, handles, made>>

Args(owner, host, port, options) ==
    [owner |-> owner, kind |-> "udp", host |-> host, port |-> port, options |-> options,
     reuse_address |-> FALSE, allow_address_takeover |-> FALSE, reuse_port |-> FALSE,
     listen |-> FALSE, interface |-> 0, family |-> 0, device |-> 0, groups |-> {}]

Ended == call.step = "ended"
Result(result) == [call EXCEPT !.step = "ended", !.result = result]
Called(op, todo) ==
    [op |-> op, step |-> "next", todo |-> todo, result |-> "none", opened |-> {},
     failed |-> {}, wants |-> <<>>, options |-> <<>>]

Init ==
    /\ platform \in Platforms
    /\ table = {} /\ attempt = None
    /\ call = [Called("bind", <<>>) EXCEPT !.step = "ended"]
    /\ endpoints = {} /\ handles = {} /\ made = 0

Quiet == Ended /\ made < MaxCalls /\ made' = made + 1
-----------------------------------------------------------------------------
\* bind and multicast_socket: one attempt, whose socket or whose error the caller gets.
CallBind ==
    /\ Quiet
    /\ \E a \in Calls :
         /\ call' = [Called("bind", <<>>) EXCEPT !.step = "trying"]
         /\ attempt' \in Begun(a)
    /\ UNCHANGED <<platform, table, endpoints, handles>>

\* The groups of a multicast socket are joined one after the other.
Joins ==
    /\ attempt.step = "join"
    /\ \/ \E g \in attempt.args.groups \ Current.joined :
            Becomes([Current EXCEPT !.joined = @ \cup {g}],
                    IF attempt.args.groups = Current.joined \cup {g} THEN "ok" ELSE "join")
       \/ attempt.args.groups = {} /\ Becomes(Current, "ok")
       \/ Fails("refused")
    /\ UNCHANGED <<platform, opVars>>

Binds ==
    /\ call.op = "bind" /\ call.step = "trying" /\ Idle
    /\ IF attempt.step = "ok"
       THEN handles' = handles \cup {attempt.fd} /\ call' = Result("ok")
       ELSE UNCHANGED handles /\ call' = Result(attempt.error)
    /\ attempt' = None
    /\ UNCHANGED <<platform, table, endpoints, made>>
-----------------------------------------------------------------------------
\* bind_listen: the plans first, then one socket after the other.
CallListen ==
    /\ Quiet
    /\ \E l \in ListenCalls :
         LET specs == ParseListen(l.listen, l.default_ports, l.family)
             plans == Plans(specs, l)
             begun == [Called("listen", plans) EXCEPT !.options = l]
         IN  call' = IF plans = Bad THEN [begun EXCEPT !.step = "ended", !.result = "value"]
                     ELSE begun
    /\ UNCHANGED <<bindVars, endpoints, handles>>

\* UDP, never shared unless asked; an IPv6 socket leaves IPv4 to its own.
ListenArgs(p, device) ==
    [Args("bind", p.host, p.port, IF Family(p.host.ip) = 6 THEN {"v6only"} ELSE {})
        EXCEPT !.device = device, !.allow_address_takeover = call.options.takeover]

OpenNext ==
    /\ call.op = "listen" /\ call.step = "next"
    /\ IF call.todo = <<>>
       THEN /\ handles' = handles \cup call.opened
            /\ call' = Result("ok")
            /\ UNCHANGED attempt
       ELSE /\ attempt' \in Begun(ListenArgs(Head(call.todo), Head(call.todo).device))
            /\ call' = [call EXCEPT !.step = "trying"]
            /\ UNCHANGED handles
    /\ UNCHANGED <<platform, table, endpoints, made>>

\* Mutant: only the socket that failed is closed.
CloseAll_Forgets(error) ==
    /\ call' = [Result(error) EXCEPT !.opened = {}]
    /\ UNCHANGED <<table, endpoints>>

\* A failure closes what the call has opened and leaves it.
CloseAll(error) ==
    /\ table' = {s \in table : s.fd \notin call.opened}
    /\ endpoints' = {e \in endpoints : e.fd \notin call.opened}
    /\ call' = [Result(error) EXCEPT !.opened = {}]

\* The socket becomes an endpoint, unless the endpoint cannot be made: then it is closed
\* like the others.
EndpointOf(p, fd) == [fd |-> fd, port |-> p.port, pktinfo |-> p.pktinfo, interfaces |-> p.adapters]
Listening ==
    /\ call.op = "listen" /\ call.step = "trying" /\ attempt.step = "ok"
    /\ \/ /\ endpoints' = endpoints \cup {EndpointOf(Head(call.todo), attempt.fd)}
          /\ call' = [call EXCEPT !.step = "next", !.todo = Tail(@),
                                  !.opened = @ \cup {attempt.fd}]
          /\ UNCHANGED table
       \/ /\ table' = {s \in table : s.fd \notin call.opened \cup {attempt.fd}}
          /\ endpoints' = {e \in endpoints : e.fd \notin call.opened}
          /\ call' = [Result("refused") EXCEPT !.opened = {}]
    /\ attempt' = None
    /\ UNCHANGED <<platform, handles, made>>

\* A device that the platform or the user's rights refuse is done without; admits then
\* filters what the device would have kept out.
ListenFails ==
    /\ call.op = "listen" /\ call.step = "trying" /\ attempt.step = "failed"
    /\ IF attempt.args.device # 0 /\ attempt.error \in {"unsupported", "permission"}
       THEN /\ attempt' \in Begun(ListenArgs(Head(call.todo), 0))
            /\ UNCHANGED <<table, endpoints, call>>
       ELSE CloseAll(attempt.error) /\ attempt' = None
    /\ UNCHANGED <<platform, handles, made>>
-----------------------------------------------------------------------------
\* reply_socket: the address the client used, the endpoint's own, the wildcard of the
\* client's family.  Only a unicast destination that packet info reports is answered from;
\* getsockname's zone is cut off.
Sender(d) == Family(d.ip)
Candidates(s, e, d) ==
    (IF e.pktinfo /\ d.unicast
     THEN <<Scoped(d.ip, d.adapter)>> ELSE <<>>)
    \o ((IF Family(s.host.ip) = Sender(d) THEN <<Host(s.host.ip, 0)>> ELSE <<>>)
        \o <<Host(Wildcard(Sender(d)), 0)>>)

Datagrams(s) ==
    {[ip |-> a[1], adapter |-> a[2], unicast |-> unicast] :
        a \in {a \in Arrivals : Reaches(s, a)}, unicast \in BOOLEAN}

CallReply ==
    /\ Quiet
    /\ \E e \in endpoints, ports \in ReplyPorts :
         LET s == CHOOSE s \in table : s.fd = e.fd
         IN  \E d \in Datagrams(s) :
               call' = [Called("reply", Candidates(s, e, d)) EXCEPT
                           !.wants = [known |-> e.pktinfo /\ d.unicast,
                                      address |-> Scoped(d.ip, d.adapter)],
                           !.options = [ports |-> ports, rest |-> ports]]
    /\ UNCHANGED <<bindVars, endpoints, handles>>

\* No candidate left: the last error becomes an OSError.
ReplyNext ==
    /\ call.op = "reply" /\ call.step = "next"
    /\ IF call.todo = <<>>
       THEN call' = Result("refused") /\ UNCHANGED attempt
       ELSE /\ attempt' \in Begun(Args("bind", Head(call.todo), Head(call.options.rest), {}))
            /\ call' = [call EXCEPT !.step = "trying"]
    /\ UNCHANGED <<platform, table, endpoints, handles, made>>

\* Mutant: any error of bind means the next address.
NextPort_AnyAddress ==
    [call EXCEPT !.step = "next", !.todo = Tail(@), !.options.rest = call.options.ports]

\* A port that is held moves on to the next port of the same address, and is the caller's
\* error when it was the last; any other failure moves on to the next address.
NextPort ==
    IF Len(call.options.rest) = 1
    THEN Result("in_use")
    ELSE [call EXCEPT !.step = "next", !.options.rest = Tail(@)]

NextAddress ==
    [call EXCEPT !.step = "next", !.todo = Tail(@), !.options.rest = call.options.ports,
                 !.failed = @ \cup {attempt.args.host}]

ReplyEnds ==
    /\ call.op = "reply" /\ call.step = "trying" /\ Idle
    /\ \/ /\ attempt.step = "ok"
          /\ handles' = handles \cup {attempt.fd}
          /\ call' = [Result("ok") EXCEPT !.opened = {attempt.fd}]
       \/ /\ attempt.step = "failed"
          /\ call' = IF attempt.error = "in_use" THEN NextPort ELSE NextAddress
          /\ UNCHANGED handles
    /\ attempt' = None
    /\ UNCHANGED <<platform, table, endpoints, made>>
-----------------------------------------------------------------------------
Close ==
    /\ Ended
    /\ \E fd \in handles :
         /\ table' = {s \in table : s.fd # fd}
         /\ endpoints' = {e \in endpoints : e.fd # fd}
         /\ handles' = handles \ {fd}
    /\ call' = [call EXCEPT !.op = "closed", !.opened = {}]
    /\ UNCHANGED <<platform, attempt, made>>

Others == (OtherBinds(OtherHosts) \/ OtherCloses) /\ UNCHANGED opVars

Next ==
    \/ CallBind \/ CallListen \/ CallReply
    \/ BindStep /\ UNCHANGED opVars
    \/ Joins \/ Binds \/ OpenNext \/ Listening \/ ListenFails \/ ReplyNext \/ ReplyEnds
    \/ Close \/ Others

Spec == Init /\ [][Next]_vars
-----------------------------------------------------------------------------
TypeOK ==
    /\ platform \in Platforms
    /\ table \subseteq Socket /\ Cardinality(table) <= MaxSockets
    /\ attempt.step \in {"none", "create", "configure", "bind", "listen", "join", "ok", "failed"}
    /\ call.step \in {"next", "trying", "ended"}
    /\ handles \subseteq 1..MaxSockets /\ made \in 0..MaxCalls
    /\ {e.fd : e \in endpoints} \subseteq {s.fd : s \in table}

\* "Silent traffic theft": no datagram and no connection that a socket of bind would get
\* is also another socket's, its own or another program's, unless the call that made it
\* asked for sharing by a name that says so - on Windows, where it takes an option to
\* refuse it, as elsewhere, where it takes one to allow it.
SharedOnlyByName ==
    \A s, t \in table :
        /\ s.fd # t.fd /\ s.owner = "bind" /\ s.port # 0 /\ Overlap(s, t)
        /\ s.kind = "udp" \/ (s.listening /\ t.listening)
        => s.asked

\* A call that fails at any step leaves no socket open, and one that succeeds leaves
\* those it returned, each as the call said: bound to the port, listening, and in every
\* one of the groups.
IsComplete(s, a) ==
    /\ s.port # 0 /\ a.port \in {0, s.port}
    /\ s.listening <=> a.listen /\ a.kind = "tcp"
    /\ a.owner = "multicast" => s.joined = a.groups

NothingLeaks ==
    LET own == {s \in table : s.owner # "other"}
    IN  /\ attempt.step = "ok" => IsComplete(Current, attempt.args)
        /\ Ended => /\ {s.fd : s \in own} = handles
                    /\ \A s \in own : s.port # 0
                    /\ \A e \in endpoints : e.fd \in handles

\* After bind_listen every datagram for a port and an address it was asked to listen on is
\* received, and admitted if it came in on an interface the entries name - all of them
\* when one entry names none - and no other is admitted, whether the sockets are
\* wildcards with packet info, one for each address, or bound to a device, and whether
\* the device binding was refused or not.
Asks(entry, a, port) ==
    LET l == call.options
        wants == Parsed(entry, l.family)
    IN  /\ port \in ToSet(PortsOf(entry, l.default_ports))
        /\ \/ wants.address = a[1] /\ Written(a[1]).zone \in {0, a[2]}
           \/ wants.address \in Wildcards /\ Family(wants.address) = Family(a[1])
        /\ wants.selectors # {} => a[2] \in Selects[entry.host]

Admits(e, a) == e.interfaces = {} \/ a[2] \in e.interfaces

ListensWhereAsked ==
    Ended /\ call.op = "listen" /\ call.result = "ok" =>
        \A a \in Arrivals, port \in Ports :
            (\E n \in DOMAIN call.options.listen : Asks(call.options.listen[n], a, port))
            <=> \E e \in endpoints, s \in table :
                    /\ e.fd = s.fd /\ e.fd \in call.opened /\ e.port = port
                    /\ Reaches(s, a) /\ Admits(e, a)

\* "A taken port is not an unusable address": an answer leaves from the address the
\* client used unless that address itself could not be bound, and reply_socket fails
\* with AddressInUseError rather than answer from another.
ReplyKeepsTheAddress ==
    Ended /\ call.op = "reply" /\ call.wants.known /\ call.wants.address \notin call.failed =>
        /\ call.result \in {"ok", "in_use"}
        /\ \A s \in table : s.fd \in call.opened => s.host = call.wants.address
=============================================================================
