---------------------------- MODULE InterfaceCache ----------------------------
(*****************************************************************************)
(* The process-wide interface cache (src/netimps/_ifaddrs/_cache.py) and the  *)
(* index -> interface map each UDPEndpoint builds from it (_interface_for in  *)
(* src/netimps/_udp/_endpoint.py).                                            *)
(*                                                                           *)
(* Threads look interfaces up while the adapters of the host change and other *)
(* threads clear the cache.  The lock is held for one look or one store; the  *)
(* clock is read, and the adapters are enumerated, outside it.                *)
(*****************************************************************************)
EXTENDS Naturals

CONSTANTS
    Threads,     \* threads that call get_interfaces; each serves one UDPEndpoint
    Keys,        \* the values of raw: one cache entry for each
    EndpointKey, \* the one _interface_for asks for
    Indexes,     \* adapter indexes
    Present,     \* for each state of the host, the indexes it has; 0 is the
                 \* hostname fallback, which has none
    Ttls,        \* the values of cache=, in ticks; one above MaxTime is math.inf
    TTL,         \* INTERFACE_CACHE_TTL
    MaxTime,     \* bound: the clock
    MaxVersion,  \* bound: states of the host are 1..MaxVersion
    MaxClears,   \* bound: calls of clear_interface_cache
    MaxLookups,  \* bound: enumerations
    None

Versions == 0..MaxVersion
Degraded == 0

ASSUME CacheAssumption ==
    /\ MaxTime \in Nat /\ MaxVersion \in Nat \ {0}
    /\ MaxClears \in Nat /\ MaxLookups \in Nat
    /\ TTL \in Nat /\ Ttls \subseteq Nat
    /\ EndpointKey \in Keys
    /\ Present \in [Versions -> SUBSET Indexes]
    /\ Present[Degraded] = {}
    /\ None \notin Indexes

VARIABLES
    now,          \* time.monotonic, in ticks
    world,        \* the state of the host's adapters
    until,        \* for each earlier state, when the next one replaced it
    generation,   \* _GENERATION
    cache,        \* _INTERFACE_CACHE
    enumerations, \* _ENUMERATIONS
    thread,       \* for each thread, the lookup in progress
    map           \* for each thread's endpoint, _iface_cache and _iface_cache_at

hostVars == <<world, until>>
vars == <<now, world, until, generation, cache, enumerations, thread, map>>

\* seen is the generation at which the adapters were read: no variable of the code.
Entry == [held : BOOLEAN, at : Nat, found : Versions, seen : Nat]
Empty == [held |-> FALSE, at |-> 0, found |-> Degraded, seen |-> 0]

\* index is set when the lookup is _interface_for's; keep is FALSE for cache=False.
Lookup == [pc : {"idle", "missed", "counting", "enumerating", "storing"},
           key : Keys, keep : BOOLEAN, index : Indexes \cup {None},
           gen : Nat, started : Nat, found : Versions, seen : Nat]
Idle == [pc |-> "idle", key |-> EndpointKey, keep |-> FALSE, index |-> None,
         gen |-> 0, started |-> 0, found |-> Degraded, seen |-> 0]

\* pinned: the indexes whose absence has been stored.
Map == [at : Nat, found : Versions, pinned : SUBSET Indexes]

TypeOK ==
    /\ now \in Nat
    /\ world \in 1..MaxVersion
    /\ until \in [Versions -> Nat]
    /\ generation \in Nat
    /\ cache \in [Keys -> Entry]
    /\ enumerations \in Nat
    /\ thread \in [Threads -> Lookup]
    /\ map \in [Threads -> Map]
-----------------------------------------------------------------------------
\* Mutant: an entry is trusted up to and including its TTL.
Fresh_Inclusive(at, ttl) == now - at <= ttl
Fresh(at, ttl) == now - at < ttl

Init ==
    /\ now = 0
    /\ world = 1
    /\ until = [v \in Versions |-> 0]
    /\ generation = 0
    /\ cache = [k \in Keys |-> Empty]
    /\ enumerations = 0
    /\ thread = [t \in Threads |-> Idle]
    /\ map = [t \in Threads |->
                [at |-> 0, found |-> Degraded, pinned |-> {}]]
-----------------------------------------------------------------------------
(* The endpoint's map.                                                       *)

Knows(t, i) == i \in Present[map[t].found] \cup map[t].pinned
MapFresh(t) == Fresh(map[t].at, TTL)

\* Mutant: the rebuilt map is aged from its own construction.
Rebuilt_StampedNow(t, i, at, found) ==
    [at |-> now, found |-> found, pinned |-> {i} \ Present[found]]

\* The map is replaced whole, with every absence it had, and aged from the enumeration
\* behind it; the index asked for, if that lacks it, is stored as absent.
Rebuilt(t, i, at, found) ==
    [at |-> at, found |-> found, pinned |-> {i} \ Present[found]]

\* A lookup returns: _interface_for stores what it was given.
Returned(t, i, at, found) ==
    IF i = None THEN map ELSE [map EXCEPT ![t] = Rebuilt(t, i, at, found)]

\* _interface_for answers from the map: nothing changes.
MapAnswers(t, i) ==
    /\ thread[t].pc = "idle"
    /\ MapFresh(t)
    /\ Knows(t, i)
    /\ UNCHANGED vars
-----------------------------------------------------------------------------
(* _interface_snapshot(key, ttl), on behalf of index i of the endpoint or, if i *)
(* is None, of get_interfaces.                                                *)

\* Under the lock: an entry young enough is the answer.
Hit(t, key, ttl, i) ==
    /\ cache[key].held
    /\ Fresh(cache[key].at, ttl)
    /\ map' = Returned(t, i, cache[key].at, cache[key].found)
    /\ UNCHANGED <<now, hostVars, generation, cache, enumerations, thread>>

\* Under the same lock: otherwise the generation is noted.
Miss(t, key, ttl, i) ==
    /\ ~(cache[key].held /\ Fresh(cache[key].at, ttl))
    /\ thread' = [thread EXCEPT ![t] =
                    [Idle EXCEPT !.pc = "missed", !.key = key, !.keep = TRUE,
                                 !.index = i, !.gen = generation]]
    /\ UNCHANGED <<now, hostVars, generation, cache, enumerations, map>>

Snapshot(t, key, ttl, i) ==
    /\ thread[t].pc = "idle"
    /\ Hit(t, key, ttl, i) \/ Miss(t, key, ttl, i)

\* get_interfaces with cache= set.
GetCached(t, key, ttl) == Snapshot(t, key, ttl, None)

\* get_interfaces with cache=False: neither reads nor stores.
GetUncached(t, key) ==
    /\ thread[t].pc = "idle"
    /\ thread' = [thread EXCEPT ![t] = [Idle EXCEPT !.pc = "counting", !.key = key]]
    /\ UNCHANGED <<now, hostVars, generation, cache, enumerations, map>>

\* _interface_for past its map: a fresh map that lacks the index enumerates anew.
InterfaceFor(t, i) ==
    /\ ~(MapFresh(t) /\ Knows(t, i))
    /\ Snapshot(t, EndpointKey, IF MapFresh(t) THEN 0 ELSE TTL, i)

\* started = monotonic(), after the lock is released.
Starts(t) ==
    /\ thread[t].pc = "missed"
    /\ thread' = [thread EXCEPT ![t].pc = "counting", ![t].started = now]
    /\ UNCHANGED <<now, hostVars, generation, cache, enumerations, map>>

\* _enumerate_interfaces counts under the lock.
Counts(t) ==
    /\ thread[t].pc = "counting"
    /\ enumerations < MaxLookups
    /\ enumerations' = enumerations + 1
    /\ thread' = [thread EXCEPT ![t].pc = "enumerating"]
    /\ UNCHANGED <<now, hostVars, generation, cache, map>>

\* The native call answers for the host as it is, or the fallback answers.
Enumerates(t) ==
    /\ thread[t].pc = "enumerating"
    /\ \E v \in {world, Degraded} :
         thread' = [thread EXCEPT ![t] =
                      IF thread[t].keep
                        THEN [@ EXCEPT !.pc = "storing", !.found = v, !.seen = generation]
                        ELSE Idle]
    /\ UNCHANGED <<now, hostVars, generation, cache, enumerations, map>>

\* A defect in the walk propagates: nothing is stored.
EnumerationFails(t) ==
    /\ thread[t].pc = "enumerating"
    /\ thread' = [thread EXCEPT ![t] = Idle]
    /\ UNCHANGED <<now, hostVars, generation, cache, enumerations, map>>

\* Mutant: the result is stored whatever happened meanwhile.
Stored_Always(t) ==
    [cache EXCEPT ![thread[t].key] =
       [held |-> TRUE, at |-> thread[t].started, found |-> thread[t].found,
        seen |-> thread[t].seen]]

\* The result is stored unless the cache was cleared since the generation was noted.
Stored(t) ==
    IF thread[t].gen # generation THEN cache
    ELSE [cache EXCEPT ![thread[t].key] =
            [held |-> TRUE, at |-> thread[t].started, found |-> thread[t].found,
             seen |-> thread[t].seen]]

\* Under the lock; the caller gets the result either way.
Stores(t) ==
    /\ thread[t].pc = "storing"
    /\ cache' = Stored(t)
    /\ map' = Returned(t, thread[t].index, thread[t].started, thread[t].found)
    /\ thread' = [thread EXCEPT ![t] = Idle]
    /\ UNCHANGED <<now, hostVars, generation, enumerations>>

ClearInterfaceCache ==
    /\ generation < MaxClears
    /\ generation' = generation + 1
    /\ cache' = [k \in Keys |-> Empty]
    /\ UNCHANGED <<now, hostVars, enumerations, thread, map>>
-----------------------------------------------------------------------------
(* Outside the program.                                                      *)

AdaptersChange ==
    /\ world < MaxVersion
    /\ world' = world + 1
    /\ until' = [until EXCEPT ![world] = now]
    /\ UNCHANGED <<now, generation, cache, enumerations, thread, map>>

Tick ==
    /\ now < MaxTime
    /\ now' = now + 1
    /\ UNCHANGED <<hostVars, generation, cache, enumerations, thread, map>>
-----------------------------------------------------------------------------
Call(t) ==
    \/ \E key \in Keys, ttl \in Ttls : GetCached(t, key, ttl)
    \/ \E key \in Keys : GetUncached(t, key)
    \/ \E i \in Indexes : InterfaceFor(t, i) \/ MapAnswers(t, i)

Continue(t) ==
    Starts(t) \/ Counts(t) \/ Enumerates(t) \/ EnumerationFails(t) \/ Stores(t)

Next ==
    \/ \E t \in Threads : Call(t) \/ Continue(t)
    \/ ClearInterfaceCache
    \/ AdaptersChange \/ Tick

Spec == Init /\ [][Next]_vars
-----------------------------------------------------------------------------
(* Properties.                                                               *)

\* State v of the host is current, or was replaced less than ttl ago.
TrueWithin(v, ttl) == v = Degraded \/ v = world \/ until[v] + ttl > now

\* clear_interface_cache also discards the enumerations running when it is called:
\* what the cache holds was read from the host after the last clear.
ClearDiscardsRunning == \A k \in Keys : cache[k].held => cache[k].seen = generation

\* An entry that a call with cache=ttl would be given was true of the host less
\* than ttl ago, however long its enumeration took and whatever order the
\* enumerations of several threads were stored in.
EntriesAreFresh ==
    \A k \in Keys, ttl \in Ttls :
        cache[k].held /\ Fresh(cache[k].at, ttl) => TrueWithin(cache[k].found, ttl)

\* The two caches do not add up: what _interface_for answers from the map of an
\* endpoint, itself built from the shared cache, was true less than one TTL ago.
MapsAreFresh ==
    \A t \in Threads : MapFresh(t) => TrueWithin(map[t].found, TTL)

\* No answer from either cache is staler than it was asked to be.
AnswersAreFresh == EntriesAreFresh /\ MapsAreFresh
=============================================================================
