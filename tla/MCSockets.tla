------------------------------ MODULE MCSockets ------------------------------
(***************************************************************************)
(* Sockets for TLC: two interfaces, each with an IPv4 address and both     *)
(* with the same link-local one; two ports and an ephemeral one.           *)
(***************************************************************************)
EXTENDS Sockets

MCAssigned == <<{"a4", "ll"}, {"b4", "ll"}>>
MCSelects == [eth0 |-> {1}, eth1 |-> {2}, bond |-> {1, 2}, nic |-> {}]

AnyHost == Host("any4", 0)
Udp == Args("bind", AnyHost, 1, {})
MCCalls ==
    {Udp,
     [Udp EXCEPT !.reuse_address = TRUE, !.host = Host("a4", 0)],
     [Udp EXCEPT !.allow_address_takeover = TRUE],
     [Udp EXCEPT !.reuse_port = TRUE, !.host = Host("b4", 0)],
     [Udp EXCEPT !.interface = 1, !.family = 6],
     [Udp EXCEPT !.kind = "tcp", !.reuse_address = TRUE, !.listen = TRUE],
     [Args("multicast", AnyHost, 1, {"reuseaddr", "reuseport"}) EXCEPT !.groups = {"g4", "h4"}],
     [Args("multicast", AnyHost, 1, {}) EXCEPT !.groups = {"g4", "g6"}]}

Entry(host, ports) == [host |-> host, ports |-> ports]
Listen(listen, default_ports, per_address) ==
    [listen |-> listen, default_ports |-> default_ports, family |-> 0,
     per_address |-> per_address, device_binding |-> TRUE, takeover |-> FALSE]
MCListens ==
    {Listen(<<Entry("*", <<>>)>>, <<1>>, "auto"),
     Listen(<<Entry("eth0", <<>>)>>, <<1>>, "auto"),
     Listen(<<Entry("eth0", <<1>>), Entry("bond", <<>>)>>, <<1>>, "auto"),
     Listen(<<Entry("eth0", <<1>>), Entry("*", <<1>>)>>, <<>>, "no"),
     Listen(<<Entry("eth0", <<1>>), Entry("*", <<2>>)>>, <<>>, "auto"),
     Listen(<<Entry("*", <<>>), Entry("b4", <<>>)>>, <<1>>, "yes"),
     Listen(<<Entry("ll", <<>>), Entry("a4", <<2>>)>>, <<1>>, "no"),
     [Listen(<<Entry("*", <<>>), Entry("ll", <<2>>)>>, <<1>>, "no")
         EXCEPT !.family = 6, !.takeover = TRUE],
     [Listen(<<Entry("a4", <<>>)>>, <<1>>, "no") EXCEPT !.family = 6],
     Listen(<<Entry("nic", <<1>>)>>, <<>>, "auto"),
     Listen(<<Entry("a4", <<>>)>>, <<>>, "auto")}
MCReplyPorts == {<<0>>, <<1, 2>>}
MCOtherHosts == {AnyHost, Host("a4", 0)}
=============================================================================
