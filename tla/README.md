# netimps: formal models

`netimps` is a Python library of network primitives: UDP endpoints that know where a
datagram arrived, name resolution over several backends, interface enumeration,
port scanning, sockets, retries. Most of it is plain functions over immutable values.
The parts that keep state, share it between threads or asyncio tasks, or run against a
deadline are what this directory models in TLA+, checks with TLC and, in part, proves
with TLAPS. Paths below are relative to `src/src/netimps/`.

## Inventory

| Part | State it keeps | Operations | What is hard |
|---|---|---|---|
| Awaited UDP receive: `_udp/_notifier.py`, `_udp/_endpoint.py` | the wait in progress, the pending future, request flag, selector thread and its loop, `_closed`; the loop's readers | `arecv`, `close`, `aclose`, cancellation, a second `asyncio.run` | three actors (tasks, selector thread, kernel); descriptors reused by number; close at any moment |
| Interface cache: `_ifaddrs/_cache.py`, `UDPEndpoint._interface_for` | entries with a stamp, generation, counter; a derived index map in each endpoint | `get_interfaces`, `clear_interface_cache`, `_interface_for` | enumeration outside the lock; a cache built from a cache |
| Resolver: `_dns/_chain.py`, `_dns/_cache.py`, `_dns/_common.py` | shared dict of answers in insertion order; context-local deadline | `resolve`, `clear_resolution_cache` | partial failure of a chain; deadline read by every step; concurrent stores and clears |
| Scanners: `_scan.py` | a window of futures over a thread pool | `scan_ports`, `scan_hosts` | completion in any order, errors in the middle of a batch |
| DNS backends: `_dns/_wire.py`, `_system.py`, `_nslookup.py`, `_dnspython.py`, `_doh.py`; wire format: `_dnswire.py` | sockets, a subprocess or an abandoned thread for the time of a call | `resolve_wire`, `resolve_system`, `resolve_nslookup` | servers and search names within one timeout; a reply that trickles in or is truncated; what outlives a timeout; compression pointers that loop |
| Retry and backoff: `_retry.py` | attempt number, a list of delays, the timer's base and count | `retry`, `aretry`, `Backoff` | two computations of one schedule; jitter at the caps; cancellation |
| TCP probes: `_sockets/_connect.py`, `_aconnect.py` | one socket per attempt | `tcp_check`, `wait_for_port` | several addresses, one timeout |
| Subprocesses: `_proc.py` | a child and its pipes | `run` | timeout against exit; cancellation; draining |
| Binding: `_sockets/_bind.py`, `_device.py`, `_hint.py` | a socket and its options | `bind` | what each platform's options share or refuse; release on every error path |
| Listening: `_listen/` | the sockets opened so far | `parse_listen`, `bind_listen` | entries merged into few sockets; all or nothing; a device that is refused |
| Reply sockets, admission: `_udp/_reply.py`, `_admit.py` | candidates and ports still to try | `reply_socket`, `admits` | which errors move on to what |
| Multicast: `_multicast.py` | a socket and its memberships | `multicast_socket` | joins that fail after the bind |
| Ping, path MTU, hops: `_ping/`, `_sockets/_mtu.py`, `_hops.py` | a search interval, a TTL | `ping`, `discover_mtu`, `count_hops` | probes lost, late, or answered by others; a route that changes |
| Names: `_fqdn/` | none: a name is a value | constructor, algebra, order, `encode`, `decode_at` | laws between operations; compression pointers |
| Hosts and ports: `_ip/_hosttext.py` | none | `split_host`, `join_host` | colons that mean three things |
| Interfaces and routes: `_ifaddrs/_lookup.py`, `_spec.py`, `_model.py`, `_sockets/_nexthop.py`, `_route.py` | none over an enumeration or a table | `get_interface`, `interface_address`, `interface_index`, `get_route` | degraded enumerations, several adapters that match, rows of equal prefix |
| recvmsg hooks: `_msg/` | methods put on `socket.socket` | install | shapes of results |
| Other values and text: `_ip/_host.py`, `_mac.py`, `_scheme.py`, `_parse.py` | a memo in `Host` | parsing, comparison | the memo between threads |
| Command line: `cli/` | none | argument parsing | none |

How they interact: an endpoint owns a notifier, which owns a thread only on a loop
without `add_reader`; the endpoint's receive path asks the interface cache; scanners and
`wait_for_port` call `tcp_check`; `bind_listen`, `reply_socket` and `multicast_socket` are
series of calls of `bind`; `discover_mtu` is a series of calls of `ping`; `Host`, `FQDN` and the command line call `resolve`,
which calls the backends, which read the deadline from a context variable.

What makes each part correct:

- awaited receive: no wakeup is lost, no reader outlives its wait, a close is complete on
  return and wakes whoever waits;
- interface cache: an answer is as young as its TTL promises, through both caches, and a
  clear also discards what is being enumerated;
- resolver: an outage is never cached as an answer, an answer honours the options of the
  call it is given to, a deadline holds for everything under it but for what one backend
  adds to its own time;
- backends: they end in time whatever a server sends, reach every server, and leave no
  program behind, and at most one thread for each turn of the OS resolver;
- scanners: each target probed once and reported as found, no more futures than two windows,
  nothing left running;
- waiting for a port: ends in time, keeps its interval, leaks no socket, finds a port
  that answers;
- retry: the generator and the timer follow one schedule, within its range, and the last
  error surfaces;
- sockets: no port is shared unless it was asked for by name, no failure leaks a socket, a
  listener hears exactly what its setting names, an answer keeps the address it owes;
- measuring a path: what another host answers to a ping does not count as the destination's,
  losses cost tries and not truth (late answers do mislead `count_hops`, and a stray datagram a
  search by datagrams: see Findings and Observations);
- values: names form a tree whose operations agree, texts and messages give back what was
  put in, selection names one adapter, routes are the kernel's.

## Modules

| Module | Models | Proofs |
|---|---|---|
| `ReadNotifier` | awaited receive: both readiness paths, cancellation, `close`, `aclose` | `ReadNotifierProofs` |
| `InterfaceCache` (`MCInterfaceCache`) | the shared enumeration cache and the endpoints' maps | `InterfaceCacheProofs` |
| `Resolver` (`MCResolver`) | the backend chain, its deadline, the answer cache | `ResolverProofs` |
| `Sweep` | what a scan promises, whatever does the probing | - |
| `ScanPool` | `_map_lazily` under `scan_ports` and `scan_hosts`; implements `Sweep` | `ProbingProofs` |
| `WaitForPort` | `wait_for_port` and `await_for_port` over `tcp_check` | `ProbingProofs` |
| `Attempt` | clock, deadline and search list, shared by the backends | |
| `WireQuery` | `resolve_wire` and its exchange over UDP or TCP | |
| `SystemLookup` | `resolve_system` and its abandoned threads | |
| `ChildRun` | `resolve_nslookup` over the runner of programs | |
| `Backends` (`MCBackends`) | the three under `_resolve_chain` | `BackendsProofs` |
| `Retry` (`MCRetry`) | `backoff_delays`, `retry`, `aretry`, `Backoff` | `ComputationProofs` |
| `Binding` | one call of `bind`, step by step, over the kernel's sockets | |
| `ListenPlan` | what a setting asks for and the sockets it takes | |
| `Sockets` (`MCSockets`) | `bind`, `multicast_socket`, `bind_listen`, `reply_socket` over `Binding`, and another program | `SocketsProofs` |
| `Ping` | one call of `ping` over a path | |
| `PathMTU` | `discover_mtu` over `Ping` | `PathMTUProofs` |
| `HopCount` | `count_hops` over answers that may be late | - |
| `Names`, `NameWire` | domain names, and their form in messages | |
| `HostText` | a host and a port as text | |
| `Selection`, `Routing` | specs reduced to adapters; next hops | |
| `Values` (`MCValues`) | what callers do with these values, step by step | `ComputationProofs` |

Everywhere a name, payload or address is a model value or a number, time is in ticks,
and computing takes no time. A definition whose name has an underscore is a
plausible wrong version of another (its comment begins with "Mutant"): it is in no
specification, and exists so that each property can be shown to fail with it.

### ReadNotifier

Tasks, selector threads and the kernel. Tasks run one at a time: `cur` is the one in
control, and everything between two suspension points of `arecv`, `wait`, `close` and
`aclose` is one action; the program counters `again`, `ensure`, `join`, `request`,
`waiting`, `closing`, `aclosing` and `asleep` are the points where a task blocks or lets
another step in. The selector thread is modelled at the granularity at which other actors
can intervene (`Asked`, `ClearsRequest`, `Checks`, `Selects`, `ReadsPending`, `Posts`).
`readers` is the table behind `add_reader`, `queue` the loop's ready callbacks, where one whose
handle was cancelled stays and does nothing (`Cancelled`);
`Fds` may be fewer than `Endpoints`, so that the kernel reuses a number. Loops
follow one another (`NextLoop`), each with or without `add_reader`, which is what a
second `asyncio.run` does to an endpoint that outlives the first.

### InterfaceCache

A lookup (`thread[t]`) reads the cache under the lock (`GetCached`), stamps the time and the
generation, counts the enumeration, reads the adapters and stores: four steps, because the
lock is not held across the enumeration. `world` numbers the states of the host;
`until[v]` says when state `v` stopped being true; both belong to no code and
serve only to say what fresh means. `InterfaceFor` and `MapAnswers` are the two paths
of `UDPEndpoint._interface_for`, `map[t]` the index map of the endpoint that thread
uses, `pinned` the absences it stored. In the code adapters and absences are one dict, which a
lookup replaces whole (`Rebuilt`) before it adds the absence of the one index it was asked for.

### Resolver

Callers go through `Hit`, or `Resolve`/`ResolveUncached`, then the loop over the
chain (`Skips` for a backend that cannot serve the request, `Tries`, `TooLate`, `Answers`, `Fails`,
`Refuses`, `Ends`) and `Puts`. A backend is one step for each record type, within the time it was
given (`until`) and what it adds to that (`Overrun`): `resolve_wire` gives a query over TCP at least
`Floor`, and can still answer in it; a killed nslookup is waited for up to `Reap`, and has failed.
The clock stops at that point because the backends keep to it, which is `StaysInTime` of `Backends`; what
`Resolver` adds is how the chain spends it. A type whose turn comes after the deadline fails
without being asked for (`Advanced`), a backend is not started (`TooLate`). `Request` holds
whatever decides which backends can serve a call, and the key of the cache is the request.
`Stored` is `_cache_put`: insertion order, refresh in place, eviction at the limit.

### ScanPool and Sweep

`future[i]` is the state of probe `i` in the pool; `pending`, `kept`, `done` and `results` are the
generator's own, `batch` what its `for` loop has yet to come to; `done` keeps a yielded batch alive until
the next wait, as the local of the code does. `caller` is at `feed`, `wait`, `collect`, `drain`, `leave`. `Start` and
`Finish` are the workers. `Sweep` has no pool: targets are probed in any order and reported,
and the scan returns when all are reported or raises because a probe failed.
`IsASweep` maps the futures to `found`, the yielded results to `reported`.

### WaitForPort

One call, blocking or on a loop (`async`). `Attempt` begins a `tcp_check`, `LookUp`,
`TryNext` and `Connect` are its walk over the addresses, `Pause` and `Resume` the
loop around it. The name server and each address change while the call
waits (`Change`): accept, refuse, stay silent, or give no socket. `expires` is the one
timer in force; time passes only while the call is blocked.

### Backends

`Attempt` holds what an attempt shares with the chain; `WireQuery`, `SystemLookup` and
`ChildRun` extend it with their own variables and next-state relation, and `Backends`
composes them: `Tries` starts the one whose turn it is, `Concludes` takes its answer,
`Skips` and `Returns` are the ends of the loop, and `Tick` lets time pass up to the next timer
of whatever is blocked. `WireQuery` has one action for everything a server
can do to an exchange: silence, an answer, a datagram that does not belong, a reply in
pieces, a break, a truncation. `ChildRun` has for each name a child and what the child
starts, which shares its process group and its pipes; a killed process dies some time
later. Threads left in `getaddrinfo` and children left behind go on
while the next backend is asked.

### Retry

`form` says whether the behaviour is a call of `retry`/`aretry` or a `Backoff` timer. `Lists`
draws all delays before the first call, as the code does with `list(_delays(...))`; `Succeeds`,
`Propagates`, `Fails`, `Wakes` and `Cancel` are the ways a call or a wait can end. `Advance` and
`Reset` are the timer's. Fractions are exact: a jittered delay is in units of
`1 / (Parts * Draws)`, and a draw is any of `Draws` points.

### Binding, ListenPlan, Sockets

`table` is the kernel's open sockets, those of the library, of the application and of another
program alike; `Blocks` is the kernel's rule for two sockets on one port, in its POSIX and in
its Windows form, and external. `attempt` is the call of `bind` under way: `Create`, `Configure`,
`Bind`, `Listens`, each of which may fail, and `OtherBinds`/`OtherCloses` come between.
`BindArgs` are the arguments a call may have; `asked` in a socket's row records whether they asked for
sharing by a name that says so (`AsksToShare`).
`ListenPlan` holds `parse_listen` and `_plan` as operators without state. `Sockets` adds `call`, the
operation that uses `bind` (what it has still `todo`, what it has `opened`), and one action
for each step of it: `OpenNext`, `Listening`, `ListenFails`, `CloseAll` for `bind_listen`,
`ReplyNext`, `NextPort`, `NextAddress`, `ReplyEnds` for `reply_socket`, `Joins` for multicast.
`Arrivals` are the pairs of address and interface a packet can come in on, with which
the properties say who hears what.

### Ping, PathMTU, HopCount

`path` is the first link, the narrowest after it, and what the destination answers. `Try` is one
run of the program, which prints lines of the destination, of another host or of a router
(`Printed`), loses its packet, or fails. A datagram is `Datagram` of `PathMTU`: one packet, no try
after it, and no look at who sent what came back; `stray` belongs to no code and holds the sizes for which
it was another host. `PathMTU` has the search as a state machine:
`search.pc` is the question asked last (`low`, `high`, `ceiling`, `narrow`), `Probes` asks,
`Learns` takes the answer through `Survived` or `Dropped`. `seen` belongs to no code: the path's MTUs
so far. `HopCount` keeps the answers on their way in `flying`; nothing in an answer tells
the loop which probe it is for.

### Names, NameWire, HostText, Selection, Routing, Values

The first five are operators, one for each function of the code, over data reduced to what the
rules tell apart: a label is its folded text and its spelling, a message a sequence of
octets, an address a family and a number, a text of host and port a sequence of tokens. The
constants give the limits (`MaxName` for 253, `MaxLabel` for 63, `Quad` for 4, `Bits`) so that TLC
reaches them. `Values` has one variable and takes the steps of a caller: `Build`, `Derive`
any number of times, `Send`, and a reading that goes label by label and pointer by pointer;
`Join` and `Split`; `Select`; `Look`. What the code takes as the first or the longest of a list
is the least of a set of places in it (`Matching`, `OfFamily`, `Place`, the rows `Best` chooses from),
so that it can be reasoned about as well as computed. `Values` states what its constants must be:
`NamesGiven`, `EndpointsGiven`, `AdaptersGiven`, `TablesGiven` are the types of the code's arguments, and
that Linux lists only the rows that are up in its IPv4 table.

## Runs

A run states several properties where one is the conjunction of others (`ThreadsAreRetired`,
`CloseEnds`, `AnswersAreFresh`, `KeepsItsTimes`, `StaysInTime`, `NothingIsLeft`, `EmptyIsEvidence`);
the conjuncts keep their names in the modules and in the proofs.

| Run | Shows |
|---|---|
| `notifier` | no lost wakeup, no stale reader, one selector thread, complete closes that return |
| `interface_cache` | freshness through both caches, a clear that discards running enumerations |
| `resolver` | no outage cached or told as an answer, options honoured from the cache, no more past the deadline than one backend adds |
| `scan_pool` | bounded futures, exact results, nothing running on, and `Sweep` with its end |
| `wait_for_port` | deadline, timeout of an attempt, interval, a steady port found, a return |
| `backends` | timeouts, shares and deadline of the backends, threads and programs left behind, evidence for an empty answer, an end |
| `retry` | one schedule for generator and timer, delays in range, the last error |
| `sockets` | sharing only by name, nothing leaked, listening exactly where asked, answers that keep their address |
| `path_mtu` | a path MTU neither too wide, but for a stray datagram, nor narrower than losses explain, and an end |
| `values` | names as a tree, messages and texts that give back what was put in, one adapter, the kernel's route |
| `notifier_overlap`, `hops_late` | a sentence of the documentation that the code does not keep (see Findings) |

Bounds, and why they are enough to be interesting:

- `notifier`: two tasks, one of which also opens, closes and cancels; one endpoint and one
  descriptor, two waits, two threads, one datagram, two loops. Two waits make one follow
  another on the same descriptor, and two loops make the notifier retire a thread and start the
  next. The `Overlap` constant keeps out the one misuse that the
  violation run is about: a wait begun while an ended one on the same descriptor is unwinding.
- `interface_cache`: two threads, two indexes, TTL 2 in three ticks, two
  states of the host, one clear, two enumerations. That is the least in which
  an enumeration can be overtaken by a clear, a change and another enumeration; threads
  are symmetric.
- `resolver`: two callers, three requests for both address types that differ in which backends may
  serve them, one of them with two backends; all four backends occur, both that run past their time
  among them. A timeout of 2 against a deadline of 1, `Floor` and `Reap` of 1, and a clock that reaches
  the end of the overrun; a cache of one entry so that every second store evicts, TTL zero and
  unlimited, with and without a deadline, one clear; callers are symmetric.
- `scan_pool`: six probes on two workers: the window of four fills, empties in batches, up to a
  whole window at once, and fills again. Each bound of `FuturesAreBounded` is reached.
- `wait_for_port`: two addresses, deadline 9, interval 2 or 5 against a second of 3 ticks,
  timeout absent, 0 or 2, two changes of the world. `MaxTime` is past the latest possible end.
- `backends`: two names, two servers, a timeout of 3 with and without a deadline of 4, chains of
  two backends, one of which names the OS resolver twice, as `backends=` allows. A timeout of 3 shared by two servers has shares of 1 and 2, so that
  the first share is cut and the second is not. The clock bound is reached only by a call that
  was interrupted while nslookup cannot die, where no timer runs.
- `retry`: up to four attempts and four losses, with schedules that reach `max_delay` at
  once, at the third retry, or never, amplitudes below and above the delay, and a jitter of
  nothing, half and all.
- `sockets`: two interfaces, each with an IPv4 address and both with the same link-local one, two ports and an ephemeral one,
  four sockets at a time, two calls of a program, one socket of another program, and every
  platform: with and without exclusive binds, `SO_REUSEPORT`, device options and packet info.
  Two calls are enough for a listener and the answer it owes, or for two that want one port;
  the settings have one entry and two, limited and not, of one family and two.
- `path_mtu`: links of up to 6 with headers of 3, tools that stop at 4 or 7, so that each of
  link, tool and `high=` is the narrowest in some instance; two losses against two tries, one
  change of route, one program that fails, one size answered by a stray datagram; `high=` may also be
  below `low=`.
- `hops_late`: three hops that all answer; one late answer is enough.
- `values`: labels of one octet and names of at most three of them, two numbers being an address; all
  messages of up to five octets out of those that differ to `read_labels`, and two pointers; two
  adapters that may share an address or a MAC and lack an index, or a degraded enumeration,
  against every kind of query; all tables of two rows with prefixes of none or one bit of four.

The bounds are constraints on the environment or the number of calls (named `Max...`); the
program itself is not cut short, except by the clock.

Deadlock checking is off where a specification may really stop: a call that has returned,
or an instance that has spent its bounded calls. That calls do end is a property of
its own wherever it could be in doubt (`CloseEnds`, `IsASweep`, `CallReturns`, `CallEnds`, `SearchEnds`,
`ReadingsEnd`).

### Fairness

- `notifier`: weak fairness of a task in control (a coroutine reaches its next await)
  and of each selector thread (the OS schedules it); strong fairness of running the queue's
  head and of polling a descriptor, because each turn of an asyncio loop polls
  everything and runs all that was ready, however many callbacks
  of the application come in between. Nothing is assumed of the application or of senders.
- `scan_pool`: the caller runs on, and each probe ends, since `tcp_check` has a timeout.
- `wait_for_port`: the call and the clock. A blocking lookup that never returns is outside what
  `CallReturns` claims.
- `backends`: the caller, the clock, and that a process that got SIGKILL dies. Nothing is
  assumed of servers, of `getaddrinfo` or of a program that was not killed.

- `path_mtu`: the search goes on and each run of the program ends, since it has a timeout;
  nothing is assumed of the path.
- `values`: a reading that began goes on, because `read_labels` is one loop.

`interface_cache`, `resolver`, `retry`, `sockets` and `hops_late` state safety only, and no fairness.

## Findings

Each was found by a run that expects the violation.

1. `notifier_overlap`: a wait begun on a descriptor number before an ended wait on it
   has unwound loses its reader to the `finally` block of the other, which removes by number.
   Reproduced with the Python code.
2. `hops_late`: `count_hops` takes whatever ICMP arrives for the answer to its last probe. When the
   destination answers after its probe was given up, its distance is returned as that of a later
   TTL; a router's late answer leads to the same, since every later answer is read one probe late.

## Observations

What the models led to that no run is about, because it takes a bound or a bookkeeping variable
that shows nothing else:

- a second `close` while `aclose` waits for the thread returns with the thread still running
  (`_udp/_endpoint.py:480`; the docstring says complete on return, also when called again);
- a slow enumeration overwrites the newer entry a refresh stored (`_ifaddrs/_cache.py:232`; the
  comment says that racing threads "then agree");
- `_interface_for` replaces its map whole (`_udp/_endpoint.py:204`), absences included: two indexes without an
  adapter that take turns at one endpoint each cost an enumeration for every datagram, and while the
  enumeration is the degraded one, which has no indexes, any two do. The docstring says that a
  negative result is cached and must not cost every packet;
- the docstring of `_map_lazily` says that only a window of futures exists at a time; the set a wait
  returned stays bound until the next one (`_scan.py:134`), so up to two windows do, and
  `FuturesAreBounded` bounds both;
- the search by datagrams takes whatever its unconnected socket receives for the destination's answer
  (`_sockets/_mtu.py:443`), where the docstring of `discover_mtu` says that packets reach the destination
  and come back: a stray datagram makes the result wider than the path (`stray` in `NeverTooWide`);
- a lookup in flight when the cache is cleared stores what it read before (`_dns/_chain.py:254`);
- the deadline is not in the cache key though it changes the answer: an empty list from a chain
  cut short is served to calls without a deadline (`_dns/_cache.py:63`);
- a silent first address takes every attempt's whole timeout, and an address after it that
  accepts is never tried (`_sockets/_connect.py:162`);
- a strict call whose deadline passes after one backend answered empty returns `[]`;
- refreshing an answer keeps its place in the cache, so it is evicted in the order of its
  first store;
- `scan_ports` with a port given twice probes and reports it twice;
- `resolve_wire` returns `[]` when one name of the search list was denied and the
  others could not be asked for; `resolve_nslookup` raises in that case (`EmptyIsDenied`
  is weaker for the wire backend for this reason);
- a query retried over TCP has all that is left of the timeout, not its server's
  share, so `SilenceIsShared` speaks of calls in which no reply was truncated;
- nslookup's second `communicate` may outlast the deadline by `_REAP_SECONDS`
  (`Reap` in `DeadlineHolds`), and after an interrupt the child is waited for without a timeout;
- `reply_socket` cuts the zone off `getsockname()` (`_udp/_reply.py:185`), so an endpoint bound to a
  link-local address without packet info answers from the wildcard;
- `multicast_socket(reuse=False)` sets neither the exclusive nor the reuse option on Windows, so that
  another program may take its port; `SharedOnlyByName` speaks of sockets of `bind`;
- the IPv4 table is read without its flags (`_sockets/_nexthop.py:182`): an `unreachable` row is
  reported as on link. `RouteIsTheKernels` leaves rows that reject apart for this reason;
- `count_hops` also takes ICMP that the destination sends for other traffic;
- `ping` does not try again when the program is missing or hangs;
- a derived name may read as an address (`FQDN("1.2.3.4.x").relative_to("x")`), which the
  constructor refuses; `FQDN("a", "..")` is read as `a.`;
- `interface_address` enumerates twice, and the second enumeration decides whether a miss is an
  error (`_ifaddrs/_spec.py:197`).

## Proofs

Each proof module holds for all values of the constants, under the named assumptions of the
modules. The pattern is the same: an inductive invariant `IInv`, `Init => IInv`, one
lemma for each action or group of actions, `Invariance`, and the properties as consequences.
TLC checked each `IInv` as an invariant before it was proved. Type correctness is proved with it,
and a run lists `TypeOK` only where it says something of the code (the bound of the answer cache).

- `InterfaceCacheProofs`: `TypeOK`, `ClearDiscardsRunning`, `AnswersAreFresh` (from `EntriesAreFresh`
  and `MapsAreFresh`). None of the freshness properties is inductive: `IInv`
  adds that what a lookup in progress read, after it took its stamp, was still true at the stamp or later
  (`CurrentSince`), a fact that travels from the lookup to the cache and to the maps.
  Assumes only the shape of the constants (`CacheAssumption`).
- `ProbingProofs`, about `ScanPool`: `ScanTypeOK`, `FuturesAreBounded`, `ScanIsComplete`, `NothingRunsOn`,
  `YieldedOnce`, and `Implements`, the safety part of `IsASweep`. `ScanInv` says in which one place
  each item is, that there is room for a future whenever one is submitted, and that a batch, which is held
  until the next wait, is no larger than a window.
- `ProbingProofs`, about `WaitForPort`: `TypeOK`, `KeepsItsTimes` (from `EndsInTime` and
  `AttemptIsBounded`), `NothingLeftOpen`, `IntervalIsKept`, `SteadyPortIsFound`. `PortInv` ties the timer in
  force to the deadline that was left when it was set, and the next attempt to the end of the last. `SteadyInv`, a
  second invariant on top of it, follows a port that answers from the last change on: an
  attempt takes no time then, so that one in progress at the change may fail, but is over at once; the pause
  after it is no longer than the longest, and the next attempt still has before it an address that accepts.
- `BackendsProofs`: `TypeOK`, `StaysInTime` (from `WireInTime` and `DeadlineHolds`), `SilenceIsShared`,
  `NothingIsLeft` (from `NoProcessRunsOn` and `OneThreadEach`), `EmptyIsDenied`, for any number of servers
  and names and any chains. `IInv` says that
  one backend is in progress at a time, that what it blocks in has a timer
  within its limit, that the limit is within the deadline, and that a server which is not the
  last leaves time for the next (from a lemma about integer division). `Behind`, the second invariant,
  says what the attempt in progress has gathered: its denials are the names before the one asked for,
  and the threads left are no more than the turns of the OS resolver that are over. The count of
  turns is a cardinality, so the step that leaves a thread needs a lemma about finite sets.
- `ResolverProofs`: `TypeOK`, `EmptyIsEvidence`, `ServedByItsChain`, `AttemptsEndInTime`. `IInv` says for each call
  what the answer it has gathered rests on (the backends asked, the types denied, whether a deadline left
  any out), and for each cache entry that its answer rests on as much for the request it is stored under;
  a hit passes this from a call to a later one, which is why no property of results alone is inductive. For the
  deadline it says that the time an attempt was given ends by then, because each start reads it, and that
  the clock is past the one attempt in progress by its own overrun at most; it takes from `Backends` that each backend
  keeps to that (`StaysInTime`, proved in `BackendsProofs`).
- `PathMTUProofs`: `TypeOK`, `NeverTooWide`, `NeverTooNarrow`. `IInv` ties the bounds of the search to
  `seen`: some route carries the lower one, or a stray datagram answered for it (`Fits`), and, while the losses are fewer than a probe's tries, some route
  drops the upper one; for a probe under way it counts what is left of its tries against the losses so far. Which
  bound is known depends on the question asked last (`search.pc`).
- `ComputationProofs`, about `Retry`: `TypeOK`, `SameSchedule`, `DelaysInRange`, `LastErrorSurfaces`. `Backoff` caps as it
  multiplies, `backoff_delays` caps what it has multiplied: `RetryInv` says that the timer's base is the
  capped product after as many steps as were counted. That the recursive function `Grown` exists, and is what its
  defining equation says, is proved from a well-founded order on the naturals: an induction for one
  set of naturals can be written out, where the general rule with an operator parameter cannot be used.
- `ComputationProofs`, about `Values`: `NamesFormATree`, `WireHoldsTheName`, `EndpointSurvivesItsText`, `OneAdapter`,
  `RouteIsTheKernels`, for names, messages and limits of any length, texts of any tokens, any adapters and tables of
  any length. `ValueInv` says of each kind of value where it came from: a name is one that was accepted
  (`IsValid`, without which a name that derives from another could have no label), a text is what its
  endpoint was joined into, the answers are those to what was asked. The properties then follow from
  lemmas about the operators: what derives from a name is a name (`DerivedIsValid`), the four relations between names
  agree (`RelationsAgree`, `GoesBackUnder`, `CommonIsNearest`), the order of tuples is total, strict and keeps
  together what begins alike (`OrderIsTotal`, `OrderIsStrict`, `OrderKeepsTogether`); where the marks of a text are and how many colons
  it has (`MarkFound`, `ColonsCounted`); which adapter is found and which of its addresses (`FirstFound`,
  `Primary`, `AddressIs`); that the first of the longest rows is the row the kernel takes (`SearchAgrees`). The flattening of
  parts is a recursive function, whose values are sequences of labels by the same induction.

  For `WireHoldsTheName` each step of a reading counts, and `ReadingIsOf` is what is kept: the labels taken are the
  first of the name that was sent, and the rest is where the reading stands (`Here`), behind a pointer that
  was not followed yet (`Behind`), or here up to the first pointer, which leads to the rest or to a pointer to
  it (`Ahead`), with the end of the record as it was written. In each of the three exactly one step is possible and leads
  to one of them (`SentGoesOn`), so a message written by `Encode` is never refused. That a pointer
  into a peer finds the labels the two names share is `EndsAlike`; that a label's octet is no other's,
  `LabelReadsBack`. It assumes that a label is shorter than a pointer's mark and that two pointers may be followed
  (`WireAssumption`), that labels are printable (`NamesGiven`) and messages octets (`MessagesGiven`).
- `ReadNotifierProofs`: `TypeOK`, `NoReaderLeftBehind`, `ThreadsAreRetired`, for any number of tasks, endpoints,
  descriptors, waits, threads and loops, overlapping waits included. `IInv` ties each reader to the wait that registered
  it, to its notifier's record of that wait and to the endpoint's hold on socket and notifier, and each
  thread that can run to the notifier that knows it; the steps that could break it are those where a
  descriptor number is used again.
- `SocketsProofs`: `SharedOnlyByName`, `NothingLeaks`, `ReplyKeepsTheAddress`, `ListensWhereAsked`, for any number of
  sockets, addresses, ports and calls, on both kinds of kernel, with another program binding in between. None of them
  is inductive. `IInv` accounts for each descriptor: it belongs to one row of the table, and that row to the
  call under way, to the sockets a program was given, or to another program (`Owned`, `UniqueFds`); it says how far
  the socket of the call has come (`CurrentIsAsked`), and that each socket of `bind` which did not ask to share
  has, from the step after its options were set, the options with which the kernel refuses a second (`UnaskedIsGuarded`);
  without the last a socket bound later could take the port from one that is there. For replies it says that
  the sockets opened are bound where the client's address is, as long as it was not refused (`AddressFirst`,
  `OpenedThere`). Assumes that the arguments of the calls are arguments `bind` can have (`CallsAssumption`),
  and the shape of the constants (`MaxSocketsAssumption`, `PortsAssumption`).

  `ListensWhereAsked` compares what is open with what the setting's words ask for (`Wants`), for every setting.
  Half of its proof is about the operators of `ListenPlan`: the entries read are the pairs of host and port
  the setting names (`PairsAre`), equal pairs merged without losing a limit (`LimitsRepresent`, `SpecsAre`), the plan
  of each gets what it wants and no more - by its address, by a wildcard with the devices, by a wildcard for all,
  or by a socket for each address (`PlanImplements`) - and the plans together do so with each endpoint once
  (`OnceHolds`, `PlansFulfil`). The operators are folds; what a fold returns is proved by `Induction`, the
  principle written out from the well-founded order of the numbers for a set of indices in place of an operator,
  and `Fold` and `Agree`, which put `FoldSeq` in the form of a recursive function. The other half is a second
  invariant, `ListenInv`: what is planned is open or still to be opened, and what is open was
  planned (`Progress`); the attempt is for the next of the plan, with its device or, once that was refused, without
  (`Trying`); from its configuration on a socket has the device and the options asked (`Chosen`). It assumes that
  the settings are settings `bind_listen` can have (`ListenCallsAssumption`), that each selector picks some
  of the interfaces (`SelectsAssumption`), and that there are finitely many interfaces and addresses, of
  which no wildcard is one (`AddressesAssumption`).

Every safety invariant of a run has a theorem. Only model-checked: the fairness part of `IsASweep`, and all
liveness, which is out of the prover's reach, as is ENABLED; that a reading does end is `ReadingsEnd`. Of recursive functions only what an induction over a set of numbers gives is proved (`Grown`
in `ComputationProofs`, the folds of `ListenPlan` in `SocketsProofs`). There are no RECURSIVE operators.

## Not modelled, and why

- Awaited receive: `asend` and `wait_writable`; a close from a thread that is not the loop's; the
  five-second limit on joining the thread, taken as long enough.
- Interfaces: the platform walks, which are system calls; `is_local_host`; the printing and pickling of
  `Interface`.
- Binding: buffer sizes, broadcast, the reset of connection errors, `get_free_port`: system calls that
  change nothing another step reads.
- Listening: the text form of an entry, taken as split into host and ports, and entries given as
  pairs or numbers, which split to the same.
- Multicast: `join_group` and `leave_group` called on their own; the interface of a membership.
- Ping: command lines, the UDP and TCP probes of `ping`, and the times in the result. `discover_mtu` sends
  datagrams of its own, which are modelled.
- Names: IDNA, the public suffix table, the methods that resolve. The texts `str` gives are the parts
  `Build` begins from.
- Routing: the kernel's own choice on Windows and BSD.
- Resolver: `deadline` scopes around a call; `lookup` and `reverse`, which wrap `resolve`.
- Scanners: the inside of a probe, which is one step that takes any time, and the list of ports
  and hosts, read as it is needed.
- Waiting for a port: `timeout=None` for a single `tcp_check`; `get_source_ip`.
- Backends: pairs of record types, `timeout=None`, dnspython and DNS over HTTPS (calls of a
  library), the reading of nslookup's text, the search for a program, `taskkill` on
  Windows, and an interrupt between starting a child and `communicate`. What a child starts
  is taken to inherit its pipes and to stay in its group. Shares of a timeout are rounded down to ticks.
- `Host`, networks, MACs, URLs, the command line, the message hooks, the ctypes layer of Windows, ancillary
  data: values over the standard library, or pure I/O.

## Plan

What is left, in the order of importance:

1. Abstract specifications: a one-shot wakeup that `ReadNotifier` implements, a cache with
   TTL that `InterfaceCache` and `Resolver` implement.
2. `asend` and the close of a foreign thread in `ReadNotifier`; the memo of `Host`.

## Running

`tlc -config <name>.cfg <module>` for the runs (`PROJECT.json` lists module and configuration of
each), `tlapm <Module>Proofs.tla` for the proofs. The runs take from seconds to about a
minute on two workers, and each proof module up to about five minutes.
