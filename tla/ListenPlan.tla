------------------------------ MODULE ListenPlan ------------------------------
(***************************************************************************)
(* What listening sockets a setting asks for (_listen/_grammar.py) and     *)
(* which sockets that takes on this host (_listen/_binding.py, _plan).  An *)
(* entry is a host and the ports after it: "*", an address, or a name that *)
(* selects interfaces.  Nothing here opens anything.                       *)
(***************************************************************************)
EXTENDS Binding, Sequences, SequencesExt

CONSTANTS Selects        \* Selects[name]: the interfaces a name or a MAC matches

Names == DOMAIN Selects
ASSUME SelectsAssumption == \A name \in Names : Selects[name] \subseteq Adapters
Bad == <<[error |-> "ValueError"]>>      \* in place of a sequence
-----------------------------------------------------------------------------
Wildcard(family) == IF family = 6 THEN "any6" ELSE "any4"

\* The address an entry listens on, and the interfaces it limits a wildcard to.
Parsed(entry, family) ==
    IF entry.host = "*" THEN [address |-> Wildcard(family), selectors |-> {}]
    ELSE IF entry.host \in Names
         THEN [address |-> Wildcard(family), selectors |-> {entry.host}]
         ELSE [address |-> entry.host, selectors |-> {}]

\* The ports of an entry: its own, or the defaults when it names none.
PortsOf(entry, default_ports) ==
    IF entry.ports = <<>> THEN default_ports ELSE entry.ports

Refused(entry, default_ports, family) ==
    \/ PortsOf(entry, default_ports) = <<>>
    \/ entry.host \notin Names \cup {"*"} /\ family \notin {0, Family(entry.host)}

\* Mutant: the first entry for a wildcard decides whether it is limited.
Merged_FirstPlain(limits, parsed, port) ==
    LET same(l) == l.address = parsed.address /\ l.port = port
        joins(l) == [l EXCEPT !.interfaces = @ \cup parsed.selectors]
    IN  IF \E n \in DOMAIN limits : same(limits[n])
        THEN [n \in DOMAIN limits |-> IF same(limits[n]) THEN joins(limits[n]) ELSE limits[n]]
        ELSE Append(limits, [address |-> parsed.address, port |-> port,
                             plain |-> parsed.selectors = {},
                             interfaces |-> parsed.selectors])

\* Entries for one address and port are one listening socket: limited to every interface
\* they name together, and not limited at all when one of them names none.
Merged(limits, parsed, port) ==
    LET same(l) == l.address = parsed.address /\ l.port = port
        joins(l) == [l EXCEPT !.plain = l.plain \/ parsed.selectors = {},
                             !.interfaces = @ \cup parsed.selectors]
    IN  IF \E n \in DOMAIN limits : same(limits[n])
        THEN [n \in DOMAIN limits |-> IF same(limits[n]) THEN joins(limits[n]) ELSE limits[n]]
        ELSE Append(limits, [address |-> parsed.address, port |-> port,
                             plain |-> parsed.selectors = {},
                             interfaces |-> parsed.selectors])

\* Every entry with every one of its ports, in the order they are written.
Pairs(listen, default_ports, family) ==
    FlattenSeq([n \in DOMAIN listen |->
        LET ports == PortsOf(listen[n], default_ports)
        IN  [k \in DOMAIN ports |-> [parsed |-> Parsed(listen[n], family), port |-> ports[k]]]])

Limits(pairs) ==
    LET limits[n \in 0..Len(pairs)] ==
            IF n = 0 THEN <<>> ELSE Merged(limits[n - 1], pairs[n].parsed, pairs[n].port)
    IN  limits[Len(pairs)]

ParseListen(listen, default_ports, family) ==
    IF listen = <<>> \/ \E n \in DOMAIN listen : Refused(listen[n], default_ports, family)
    THEN Bad
    ELSE LET limits == Limits(Pairs(listen, default_ports, family))
         IN  [n \in DOMAIN limits |->
                 [address |-> limits[n].address, port |-> limits[n].port,
                  interfaces |-> IF limits[n].plain THEN {} ELSE limits[n].interfaces]]
-----------------------------------------------------------------------------
\* The interfaces that match, and the one that matches alone.
AdaptersFor(names) == UNION {Selects[name] : name \in names}
Alone(found) == IF \E i \in found : found = {i} THEN CHOOSE i \in found : TRUE ELSE 0

\* A link-local address is written, and enumerated, with its zone.
Scoped(ip, i) == Host(ip, IF ip \in LinkLocal THEN i ELSE 0)
Written(ip) == Scoped(ip, CHOOSE i \in Adapters : ip \in Assigned[i])

HostAddresses(family) ==
    {Scoped(a[1], a[2]) :
        a \in {a \in Addresses \X Adapters : a[1] \in Assigned[a[2]] /\ Family(a[1]) = family}}

\* One socket of a plan: where, for which interfaces, on which device.
Planned(host, port, adapters, device, pktinfo) ==
    [host |-> host, port |-> port, adapters |-> adapters, device |-> device,
     pktinfo |-> pktinfo]

Plan(spec, options) ==
    LET any == Host(spec.address, 0)
        family == Family(spec.address)
    IN  IF spec.address \notin Wildcards
        THEN <<Planned(Written(spec.address), spec.port, {}, 0, FALSE)>>
        ELSE IF spec.interfaces # {}
        THEN LET found == AdaptersFor(spec.interfaces)
                 unmatched == \E name \in spec.interfaces : Selects[name] = {}
             IN  IF options.per_address = "yes" \/ ~platform.pktinfo \/ unmatched
                 THEN Bad
                 ELSE <<Planned(any, spec.port, found,
                                IF options.device_binding /\ platform.device
                                THEN Alone(found) ELSE 0, TRUE)>>
        ELSE IF options.per_address = "yes"
                \/ (options.per_address = "auto" /\ ~platform.pktinfo)
        THEN LET hosts == SetToSeq(HostAddresses(family))
             IN  [n \in DOMAIN hosts |-> Planned(hosts[n], spec.port, {}, 0, FALSE)]
        ELSE <<Planned(any, spec.port, {}, 0, TRUE)>>

\* Every plan is made before any socket is opened; an address and port that two entries
\* come down to is opened once.
SameEndpoint(a, b) == a.host = b.host /\ a.port = b.port
Once(plan) ==
    LET once[n \in 0..Len(plan)] ==
            IF n = 0 THEN <<>>
            ELSE IF \E m \in 1..(n - 1) : SameEndpoint(plan[m], plan[n])
                 THEN once[n - 1] ELSE Append(once[n - 1], plan[n])
    IN  once[Len(plan)]
Plans(specs, options) ==
    LET plans == [n \in DOMAIN specs |-> Plan(specs[n], options)]
    IN  IF specs = Bad \/ (\E n \in DOMAIN plans : plans[n] = Bad)
        THEN Bad
        ELSE Once(FlattenSeq(plans))
=============================================================================
