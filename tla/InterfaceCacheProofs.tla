------------------------- MODULE InterfaceCacheProofs -------------------------
(*****************************************************************************)
(* Proofs about InterfaceCache, for any number of threads, keys, indexes and  *)
(* states of the host, any times to live and any bounds.                      *)
(*                                                                           *)
(* None of the three freshness properties is inductive.  What holds them up   *)
(* is that a stamp is taken before the adapters are read, so the state that   *)
(* was read was still current at the stamp or later; that fact travels from   *)
(* the lookup in progress to the cache and from there to the maps.            *)
(*****************************************************************************)
EXTENDS InterfaceCache, TLAPS

\* State v of the host was still current at time s, or after it.
CurrentSince(v, s) == v = Degraded \/ v = world \/ until[v] >= s

LookupInv(t) ==
    /\ thread[t].started <= now
    /\ thread[t].gen <= generation
    /\ thread[t].pc = "storing" =>
         /\ thread[t].gen <= thread[t].seen
         /\ thread[t].seen <= generation
         /\ CurrentSince(thread[t].found, thread[t].started)

EntryInv(k) ==
    cache[k].held => /\ cache[k].seen = generation
                     /\ cache[k].at <= now
                     /\ CurrentSince(cache[k].found, cache[k].at)

MapInv(t) ==
    /\ map[t].at <= now
    /\ CurrentSince(map[t].found, map[t].at)

IInv ==
    /\ TypeOK
    /\ \A t \in Threads : LookupInv(t)
    /\ \A k \in Keys : EntryInv(k)
    /\ \A t \in Threads : MapInv(t)
-----------------------------------------------------------------------------
\* Every constant of the types is in them.
LEMMA IdleType == Idle \in Lookup
BY CacheAssumption DEF Idle, Lookup, Versions, Degraded

LEMMA EmptyType == Empty \in Entry
BY CacheAssumption DEF Empty, Entry, Versions, Degraded

LEMMA DegradedType == Degraded \in Versions /\ 1..MaxVersion \subseteq Versions
BY CacheAssumption DEF Versions, Degraded

\* What _interface_for stores is a map, whatever enumeration it was given.
LEMMA RebuiltType ==
    ASSUME NEW t, NEW i \in Indexes, NEW at \in Nat, NEW found \in Versions
    PROVE  /\ Rebuilt(t, i, at, found) \in Map
           /\ Rebuilt(t, i, at, found).at = at
           /\ Rebuilt(t, i, at, found).found = found
BY CacheAssumption DEF Rebuilt, Map

\* A returning lookup keeps the maps' invariant if what it returns was current at
\* its stamp.
LEMMA ReturnedInv ==
    ASSUME TypeOK, \A u \in Threads : MapInv(u),
           NEW t \in Threads, NEW i \in Indexes \cup {None},
           NEW at \in Nat, NEW found \in Versions,
           at <= now, CurrentSince(found, at),
           map' = Returned(t, i, at, found),
           UNCHANGED <<now, hostVars>>
    PROVE  /\ map' \in [Threads -> Map]
           /\ \A u \in Threads : MapInv(u)'
<1>1. CASE i = None
  <2>1. map' = map
    BY <1>1 DEF Returned
  <2> QED
    BY <2>1 DEF TypeOK, MapInv, CurrentSince, hostVars
<1>2. CASE i # None
  <2>1. map' = [map EXCEPT ![t] = Rebuilt(t, i, at, found)]
    BY <1>2 DEF Returned
  <2>2. i \in Indexes
    BY <1>2
  <2>0. Rebuilt(t, i, at, found) \in Map
    BY <2>2, RebuiltType
  <2>3. map' \in [Threads -> Map]
    BY <2>0, <2>1 DEF TypeOK
  <2>4. ASSUME NEW u \in Threads
        PROVE  MapInv(u)'
    <3>1. CASE u = t
      <4>1. map'[u] = Rebuilt(t, i, at, found)
        BY <3>1, <2>1 DEF TypeOK
      <4> QED
        BY <4>1, <2>2, RebuiltType DEF MapInv, CurrentSince, hostVars
    <3>2. CASE u # t
      <4>1. map'[u] = map[u]
        BY <3>2, <2>1 DEF TypeOK
      <4> QED
        BY <4>1 DEF MapInv, CurrentSince, hostVars
    <3> QED
      BY <3>1, <3>2
  <2> QED
    BY <2>3, <2>4
<1> QED
  BY <1>1, <1>2
-----------------------------------------------------------------------------
LEMMA InitInv == Init => IInv
<1> SUFFICES ASSUME Init
             PROVE  IInv
  OBVIOUS
<1> USE DEF Init
<1>1. TypeOK
  <2>1. map \in [Threads -> Map]
    BY DegradedType DEF Map
  <2>2. cache \in [Keys -> Entry] /\ thread \in [Threads -> Lookup]
    BY IdleType, EmptyType
  <2>3. until \in [Versions -> Nat] /\ world \in 1..MaxVersion
    BY CacheAssumption
  <2> QED
    BY <2>1, <2>2, <2>3 DEF TypeOK
<1>2. ASSUME NEW t \in Threads
      PROVE  LookupInv(t)
  <2>1. Idle.pc = "idle" /\ Idle.started = 0 /\ Idle.gen = 0
    BY DEF Idle
  <2>2. thread[t] = Idle /\ now = 0 /\ generation = 0
    OBVIOUS
  <2> QED
    BY <2>1, <2>2 DEF LookupInv
<1>3. \A k \in Keys : EntryInv(k)
  BY DEF EntryInv, Empty
<1>4. ASSUME NEW t \in Threads
      PROVE  MapInv(t)
  <2>1. map[t] = [at |-> 0, found |-> Degraded, pinned |-> {}] /\ now = 0
    OBVIOUS
  <2>2. map[t].at = 0 /\ map[t].found = Degraded
    BY <2>1
  <2> QED
    BY <2>1, <2>2 DEF MapInv, CurrentSince
<1> QED
  BY <1>1, <1>2, <1>3, <1>4 DEF IInv

\* A step that leaves the clock, the host and the generation alone keeps what it
\* leaves alone.
LEMMA QuietStep ==
    ASSUME UNCHANGED <<now, hostVars, generation>>
    PROVE  /\ \A t \in Threads : LookupInv(t) /\ thread'[t] = thread[t] => LookupInv(t)'
           /\ \A k \in Keys : EntryInv(k) /\ cache'[k] = cache[k] => EntryInv(k)'
           /\ \A t \in Threads : MapInv(t) /\ map'[t] = map[t] => MapInv(t)'
<1> USE DEF hostVars
<1>1. \A t \in Threads : LookupInv(t) /\ thread'[t] = thread[t] => LookupInv(t)'
  BY DEF LookupInv, CurrentSince
<1>2. \A k \in Keys : EntryInv(k) /\ cache'[k] = cache[k] => EntryInv(k)'
  BY DEF EntryInv, CurrentSince
<1>3. \A t \in Threads : MapInv(t) /\ map'[t] = map[t] => MapInv(t)'
  BY DEF MapInv, CurrentSince
<1> QED
  BY <1>1, <1>2, <1>3

\* A call, by get_interfaces or by the endpoint, keeps the invariant.
LEMMA SnapshotInv ==
    ASSUME IInv, NEW t \in Threads, NEW key \in Keys, NEW ttl \in Nat,
           NEW i \in Indexes \cup {None}, Snapshot(t, key, ttl, i)
    PROVE  IInv'
<1> USE DEF IInv
<1>1. CASE Hit(t, key, ttl, i)
  <2>1. /\ UNCHANGED <<now, hostVars, generation, cache, enumerations, thread>>
        /\ map' = Returned(t, i, cache[key].at, cache[key].found)
    BY <1>1 DEF Hit
  <2>2. /\ cache[key].at \in Nat /\ cache[key].found \in Versions
        /\ cache[key].at <= now
        /\ CurrentSince(cache[key].found, cache[key].at)
    BY <1>1 DEF Hit, TypeOK, Entry, EntryInv
  <2>3. map' \in [Threads -> Map] /\ \A u \in Threads : MapInv(u)'
    BY <2>1, <2>2, ReturnedInv
  <2>4. TypeOK'
    BY <2>1, <2>3 DEF TypeOK, hostVars
  <2>5. /\ \A u \in Threads : LookupInv(u)'
        /\ \A k \in Keys : EntryInv(k)'
    BY <2>1, QuietStep
  <2> QED
    BY <2>3, <2>4, <2>5
<1>2. CASE Miss(t, key, ttl, i)
  <2> DEFINE L == [Idle EXCEPT !.pc = "missed", !.key = key, !.keep = TRUE,
                               !.index = i, !.gen = generation]
  <2>1. /\ UNCHANGED <<now, hostVars, generation, cache, enumerations, map>>
        /\ thread' = [thread EXCEPT ![t] = L]
    BY <1>2 DEF Miss
  <2>2. L \in Lookup
    BY IdleType DEF Lookup, TypeOK
  <2>3. L.started = 0 /\ L.gen = generation /\ L.pc = "missed"
    BY DEF Idle
  <2> HIDE DEF L
  <2>4. TypeOK'
    BY <2>1, <2>2 DEF TypeOK, hostVars
  <2>5. ASSUME NEW u \in Threads
        PROVE  LookupInv(u)'
    <3>1. CASE u = t
      <4>1. thread'[u] = L
        BY <3>1, <2>1 DEF TypeOK
      <4> QED
        BY <4>1, <2>1, <2>3 DEF LookupInv, TypeOK
    <3>2. CASE u # t
      <4>1. thread'[u] = thread[u]
        BY <3>2, <2>1 DEF TypeOK
      <4> QED
        BY <4>1, <2>1, QuietStep
    <3> QED
      BY <3>1, <3>2
  <2>6. /\ \A k \in Keys : EntryInv(k)'
        /\ \A u \in Threads : MapInv(u)'
    BY <2>1, QuietStep
  <2> QED
    BY <2>4, <2>5, <2>6
<1> QED
  BY <1>1, <1>2 DEF Snapshot

\* A step that only moves the lookup of t to a state that keeps its invariant
\* keeps the whole invariant.
LEMMA LookupStep ==
    ASSUME IInv, NEW t \in Threads,
           UNCHANGED <<now, hostVars, generation, cache, map>>,
           enumerations' \in Nat,
           thread' = [thread EXCEPT ![t] = thread'[t]],
           thread'[t] \in Lookup, LookupInv(t)'
    PROVE  IInv'
<1> USE DEF IInv
<1>1. TypeOK'
  BY DEF TypeOK, hostVars
<1>2. ASSUME NEW u \in Threads
      PROVE  LookupInv(u)'
  <2>1. CASE u # t
    <3>1. thread'[u] = thread[u]
      BY <2>1 DEF TypeOK
    <3> QED
      BY <3>1, QuietStep
  <2> QED
    BY <2>1
<1>3. /\ \A k \in Keys : EntryInv(k)'
      /\ \A u \in Threads : MapInv(u)'
  BY QuietStep
<1> QED
  BY <1>1, <1>2, <1>3
-----------------------------------------------------------------------------
LEMMA StampedType ==
    ASSUME NEW l \in Lookup, NEW n \in Nat
    PROVE  /\ [l EXCEPT !.pc = "counting", !.started = n] \in Lookup
           /\ [l EXCEPT !.pc = "counting", !.started = n].pc = "counting"
           /\ [l EXCEPT !.pc = "counting", !.started = n].started = n
           /\ [l EXCEPT !.pc = "counting", !.started = n].gen = l.gen
BY DEF Lookup

\* The lookup in progress moves on: each step keeps its own part of the invariant.
LEMMA StartsInv == ASSUME IInv, NEW t \in Threads, Starts(t) PROVE IInv'
<1> USE DEF IInv
<1>1. /\ thread[t] \in Lookup /\ now \in Nat /\ LookupInv(t)
      /\ UNCHANGED <<now, hostVars, generation, cache, enumerations, map>>
      /\ thread' = [thread EXCEPT ![t] =
                      [thread[t] EXCEPT !.pc = "counting", !.started = now]]
  BY DEF Starts, TypeOK
<1>2. thread'[t] = [thread[t] EXCEPT !.pc = "counting", !.started = now]
  BY <1>1 DEF TypeOK
<1>3. thread'[t] \in Lookup
  BY ZenonT(30), <1>1, <1>2, StampedType
<1>4. LookupInv(t)'
  <2>1. /\ thread'[t].pc = "counting" /\ thread'[t].started = now
        /\ thread'[t].gen = thread[t].gen
    <3> DEFINE l == thread[t]
    <3>1. l \in Lookup /\ now \in Nat
      BY <1>1
    <3> HIDE DEF l
    <3>2. /\ [l EXCEPT !.pc = "counting", !.started = now].pc = "counting"
          /\ [l EXCEPT !.pc = "counting", !.started = now].started = now
          /\ [l EXCEPT !.pc = "counting", !.started = now].gen = l.gen
      BY <3>1, StampedType
    <3> QED
      BY <1>2, <3>2 DEF l
  <2> QED
    BY <1>1, <2>1 DEF LookupInv
<1>5. thread' = [thread EXCEPT ![t] = thread'[t]] /\ enumerations' \in Nat
  BY <1>1, <1>2 DEF TypeOK
<1> QED
  BY <1>1, <1>3, <1>4, <1>5, LookupStep

LEMMA CountsInv == ASSUME IInv, NEW t \in Threads, Counts(t) PROVE IInv'
<1> USE DEF IInv, Counts
<1>1. thread[t] \in Lookup /\ LookupInv(t)
  BY DEF TypeOK
<1>2. thread'[t] = [thread[t] EXCEPT !.pc = "enumerating"]
  BY DEF TypeOK
<1>3. thread'[t] \in Lookup
  BY <1>1, <1>2 DEF Lookup
<1>4. LookupInv(t)'
  BY <1>1, <1>2 DEF LookupInv, Lookup
<1>5. thread' = [thread EXCEPT ![t] = thread'[t]] /\ enumerations' \in Nat
  BY DEF TypeOK
<1> QED
  BY <1>3, <1>4, <1>5, LookupStep

\* The adapters are read after the stamp, and after the generation was noted.
LEMMA EnumeratesInv == ASSUME IInv, NEW t \in Threads, Enumerates(t) PROVE IInv'
<1> USE DEF IInv
<1>1. PICK v \in {world, Degraded} :
        thread' = [thread EXCEPT ![t] =
                     IF thread[t].keep
                       THEN [@ EXCEPT !.pc = "storing", !.found = v, !.seen = generation]
                       ELSE Idle]
  BY DEF Enumerates
<1>2. /\ UNCHANGED <<now, hostVars, generation, cache, enumerations, map>>
      /\ thread[t].pc = "enumerating"
  BY DEF Enumerates
<1>3. /\ thread[t] \in Lookup /\ LookupInv(t) /\ v \in Versions
      /\ now \in Nat /\ generation \in Nat /\ enumerations' \in Nat
  BY <1>2, DegradedType DEF TypeOK
<1>4. CASE thread[t].keep
  <2>1. thread'[t] = [thread[t] EXCEPT !.pc = "storing", !.found = v,
                                       !.seen = generation]
    BY <1>1, <1>4 DEF TypeOK
  <2>2. thread'[t] \in Lookup
    BY <1>3, <2>1 DEF Lookup
  <2>3. /\ thread'[t].found = v /\ thread'[t].seen = generation
        /\ thread'[t].gen = thread[t].gen /\ thread'[t].started = thread[t].started
    BY <1>3, <2>1 DEF Lookup
  <2>4. CurrentSince(v, thread[t].started)'
    BY <1>1, <1>2 DEF CurrentSince, hostVars
  <2>5. LookupInv(t)'
    BY <1>2, <1>3, <2>3, <2>4 DEF LookupInv, CurrentSince
  <2>6. thread' = [thread EXCEPT ![t] = thread'[t]]
    BY <1>1, <1>4, <2>1
  <2> QED
    BY <1>2, <1>3, <2>2, <2>5, <2>6, LookupStep
<1>5. CASE ~thread[t].keep
  <2>1. thread'[t] = Idle /\ thread' = [thread EXCEPT ![t] = thread'[t]]
    BY <1>1, <1>5 DEF TypeOK
  <2>2. Idle.pc = "idle" /\ Idle.started = 0 /\ Idle.gen = 0
    BY DEF Idle
  <2>3. LookupInv(t)'
    BY <1>2, <1>3, <2>1, <2>2 DEF LookupInv
  <2> QED
    BY <1>2, <1>3, <2>1, <2>3, IdleType, LookupStep
<1> QED
  BY <1>4, <1>5

LEMMA EnumerationFailsInv ==
    ASSUME IInv, NEW t \in Threads, EnumerationFails(t) PROVE IInv'
<1> USE DEF IInv, EnumerationFails
<1>1. thread'[t] = Idle /\ thread' = [thread EXCEPT ![t] = thread'[t]]
  BY DEF TypeOK
<1>2. Idle.pc = "idle" /\ Idle.started = 0 /\ Idle.gen = 0
  BY DEF Idle
<1>3. LookupInv(t)' /\ enumerations' \in Nat
  BY <1>1, <1>2 DEF LookupInv, TypeOK
<1> QED
  BY <1>1, <1>3, IdleType, LookupStep

LEMMA GetUncachedInv ==
    ASSUME IInv, NEW t \in Threads, NEW key \in Keys, GetUncached(t, key) PROVE IInv'
<1> DEFINE L == [Idle EXCEPT !.pc = "counting", !.key = key]
<1> USE DEF IInv
<1>1. /\ thread' = [thread EXCEPT ![t] = L]
      /\ UNCHANGED <<now, hostVars, generation, cache, enumerations, map>>
  BY DEF GetUncached
<1>2. L.pc = "counting" /\ L.started = 0 /\ L.gen = 0
  BY DEF Idle
<1>3. L \in Lookup
  BY IdleType DEF Lookup
<1> HIDE DEF L
<1>4. thread'[t] = L /\ thread' = [thread EXCEPT ![t] = thread'[t]]
  BY <1>1 DEF TypeOK
<1>5. LookupInv(t)' /\ enumerations' \in Nat
  BY <1>1, <1>2, <1>4 DEF LookupInv, TypeOK
<1> QED
  BY <1>1, <1>3, <1>4, <1>5, LookupStep

\* The stored entry is of this generation: the adapters were read no earlier than
\* the generation was noted, and the two are equal when the entry is kept.
LEMMA StoresInv == ASSUME IInv, NEW t \in Threads, Stores(t) PROVE IInv'
<1> USE DEF IInv
<1> DEFINE k == thread[t].key
           E == [held |-> TRUE, at |-> thread[t].started, found |-> thread[t].found,
                 seen |-> thread[t].seen]
<1>1. /\ thread[t].pc = "storing"
      /\ cache' = Stored(t)
      /\ map' = Returned(t, thread[t].index, thread[t].started, thread[t].found)
      /\ thread' = [thread EXCEPT ![t] = Idle]
      /\ UNCHANGED <<now, hostVars, generation, enumerations>>
  BY DEF Stores
<1>2. /\ thread[t] \in Lookup
      /\ thread[t].started \in Nat /\ thread[t].found \in Versions
      /\ thread[t].seen \in Nat /\ thread[t].gen \in Nat /\ generation \in Nat
      /\ thread[t].index \in Indexes \cup {None} /\ k \in Keys
  BY DEF TypeOK, Lookup
<1>3. /\ thread[t].started <= now
      /\ thread[t].gen <= thread[t].seen /\ thread[t].seen <= generation
      /\ CurrentSince(thread[t].found, thread[t].started)
  BY <1>1 DEF LookupInv
<1>4. map' \in [Threads -> Map] /\ \A u \in Threads : MapInv(u)'
  BY <1>1, <1>2, <1>3, ReturnedInv
<1>5. \A u \in Threads : LookupInv(u)'
  <2>1. Idle.pc = "idle" /\ Idle.started = 0 /\ Idle.gen = 0
    BY DEF Idle
  <2>2. LookupInv(t)'
    BY <1>1, <2>1 DEF LookupInv, TypeOK
  <2>3. ASSUME NEW u \in Threads, u # t
        PROVE  LookupInv(u)'
    <3>1. thread'[u] = thread[u]
      BY <1>1, <2>3 DEF TypeOK
    <3> QED
      BY <1>1, <3>1, QuietStep
  <2> QED
    BY <2>2, <2>3
<1>6. CASE thread[t].gen # generation
  <2>1. cache' = cache
    BY <1>1, <1>6 DEF Stored
  <2>2. TypeOK'
    BY <1>1, <1>4, <2>1, IdleType DEF TypeOK, hostVars
  <2>3. \A j \in Keys : EntryInv(j)'
    BY <1>1, <2>1, QuietStep
  <2> QED
    BY <1>4, <1>5, <2>2, <2>3
<1>7. CASE thread[t].gen = generation
  <2>1. cache' = [cache EXCEPT ![k] = E]
    BY <1>1, <1>7 DEF Stored
  <2>2. E \in Entry /\ thread[t].seen = generation
    BY <1>2, <1>3, <1>7 DEF Entry
  <2>3. TypeOK'
    BY <1>1, <1>2, <1>4, <2>1, <2>2, IdleType DEF TypeOK, hostVars
  <2>4. ASSUME NEW j \in Keys
        PROVE  EntryInv(j)'
    <3>1. CASE j = k
      <4>1. cache'[j] = E
        BY <2>1, <3>1 DEF TypeOK
      <4>2. /\ cache'[j].seen = generation /\ cache'[j].at = thread[t].started
            /\ cache'[j].found = thread[t].found
        BY <4>1, <2>2
      <4> QED
        BY <1>1, <1>3, <4>2 DEF EntryInv, CurrentSince, hostVars
    <3>2. CASE j # k
      <4>1. cache'[j] = cache[j]
        BY <2>1, <3>2 DEF TypeOK
      <4> QED
        BY <1>1, <4>1, QuietStep
    <3> QED
      BY <3>1, <3>2
  <2> QED
    BY <1>4, <1>5, <2>3, <2>4
<1> QED
  BY <1>6, <1>7
-----------------------------------------------------------------------------
\* A clear leaves nothing in the cache, and every lookup in progress behind.
LEMMA ClearInv == IInv /\ ClearInterfaceCache => IInv'
<1> SUFFICES ASSUME IInv, ClearInterfaceCache
             PROVE  IInv'
  OBVIOUS
<1> USE DEF IInv
<1>1. /\ generation' = generation + 1
      /\ cache' = [k \in Keys |-> Empty]
      /\ UNCHANGED <<now, world, until, enumerations, thread, map>>
  BY DEF ClearInterfaceCache, hostVars
<1>2. TypeOK'
  BY <1>1, EmptyType DEF TypeOK
<1>3. \A t \in Threads : LookupInv(t)'
  <2>1. SUFFICES ASSUME NEW t \in Threads
                 PROVE  LookupInv(t)'
    OBVIOUS
  <2>2. thread[t] \in Lookup /\ LookupInv(t) /\ generation \in Nat
    BY DEF TypeOK
  <2>3. thread[t].gen \in Nat /\ thread[t].seen \in Nat
    BY <2>2 DEF Lookup
  <2> QED
    BY <1>1, <2>2, <2>3 DEF LookupInv, CurrentSince
<1>4. \A k \in Keys : EntryInv(k)'
  BY <1>1 DEF EntryInv, Empty
<1>5. \A t \in Threads : MapInv(t)'
  BY <1>1 DEF MapInv, CurrentSince
<1> QED
  BY <1>2, <1>3, <1>4, <1>5

\* When the adapters change, the state that goes was current until now, and no
\* stamp is later than now.
LEMMA ChangeInv == IInv /\ AdaptersChange => IInv'
<1> SUFFICES ASSUME IInv, AdaptersChange
             PROVE  IInv'
  OBVIOUS
<1> USE DEF IInv
<1>1. /\ world < MaxVersion /\ world' = world + 1
      /\ until' = [until EXCEPT ![world] = now]
      /\ UNCHANGED <<now, generation, cache, enumerations, thread, map>>
  BY DEF AdaptersChange
<1>2. /\ now \in Nat /\ world \in Versions /\ until \in [Versions -> Nat]
      /\ world' \in 1..MaxVersion
  BY <1>1, DegradedType, CacheAssumption DEF TypeOK
<1>3. TypeOK'
  BY <1>1, <1>2 DEF TypeOK
<1>4. ASSUME NEW v \in Versions, NEW s \in Nat, s <= now, CurrentSince(v, s)
      PROVE  CurrentSince(v, s)'
  BY <1>1, <1>2, <1>4 DEF CurrentSince
<1>5. ASSUME NEW t \in Threads
      PROVE  LookupInv(t)'
  <2>1. thread[t].started \in Nat /\ thread[t].found \in Versions /\ LookupInv(t)
    BY DEF TypeOK, Lookup
  <2> QED
    BY <1>1, <1>4, <2>1 DEF LookupInv
<1>6. ASSUME NEW k \in Keys
      PROVE  EntryInv(k)'
  <2>1. cache[k].at \in Nat /\ cache[k].found \in Versions /\ EntryInv(k)
    BY DEF TypeOK, Entry
  <2> QED
    BY <1>1, <1>4, <2>1 DEF EntryInv
<1>7. ASSUME NEW t \in Threads
      PROVE  MapInv(t)'
  <2>1. map[t].at \in Nat /\ map[t].found \in Versions /\ MapInv(t)
    BY DEF TypeOK, Map
  <2> QED
    BY <1>1, <1>4, <2>1 DEF MapInv
<1> QED
  BY <1>3, <1>5, <1>6, <1>7

LEMMA TickInv == IInv /\ Tick => IInv'
<1> SUFFICES ASSUME IInv, Tick
             PROVE  IInv'
  OBVIOUS
<1> USE DEF IInv
<1>1. /\ now \in Nat /\ now' = now + 1
      /\ UNCHANGED <<world, until, generation, cache, enumerations, thread, map>>
  BY DEF Tick, hostVars, TypeOK
<1>2. TypeOK'
  BY <1>1 DEF TypeOK
<1>3. ASSUME NEW t \in Threads
      PROVE  LookupInv(t)'
  <2>1. thread[t].started \in Nat /\ LookupInv(t)
    BY DEF TypeOK, Lookup
  <2> QED
    BY <1>1, <2>1 DEF LookupInv, CurrentSince
<1>4. ASSUME NEW k \in Keys
      PROVE  EntryInv(k)'
  <2>1. cache[k].at \in Nat /\ EntryInv(k)
    BY DEF TypeOK, Entry
  <2> QED
    BY <1>1, <2>1 DEF EntryInv, CurrentSince
<1>5. ASSUME NEW t \in Threads
      PROVE  MapInv(t)'
  <2>1. map[t].at \in Nat /\ MapInv(t)
    BY DEF TypeOK, Map
  <2> QED
    BY <1>1, <2>1 DEF MapInv, CurrentSince
<1> QED
  BY <1>2, <1>3, <1>4, <1>5

\* A call of thread t.
LEMMA CallInv == ASSUME IInv, NEW t \in Threads, Call(t) PROVE IInv'
<1>1. CASE \E key \in Keys, ttl \in Ttls : GetCached(t, key, ttl)
  <2>1. PICK key \in Keys, ttl \in Ttls : Snapshot(t, key, ttl, None)
    BY <1>1 DEF GetCached
  <2>2. ttl \in Nat
    BY CacheAssumption
  <2> QED
    BY <2>1, <2>2, SnapshotInv
<1>2. CASE \E key \in Keys : GetUncached(t, key)
  BY <1>2, GetUncachedInv
<1>3. CASE \E i \in Indexes : InterfaceFor(t, i)
  <2>1. PICK i \in Indexes :
          Snapshot(t, EndpointKey, IF MapFresh(t) THEN 0 ELSE TTL, i)
    BY <1>3 DEF InterfaceFor
  <2>2. /\ (IF MapFresh(t) THEN 0 ELSE TTL) \in Nat
        /\ EndpointKey \in Keys /\ i \in Indexes \cup {None}
    BY CacheAssumption
  <2> QED
    BY <2>1, <2>2, SnapshotInv
<1>4. CASE \E i \in Indexes : MapAnswers(t, i)
  <2>1. UNCHANGED vars
    BY <1>4 DEF MapAnswers
  <2> QED
    BY <2>1 DEF vars, hostVars, IInv, TypeOK, LookupInv, EntryInv, MapInv, CurrentSince
<1> QED
  BY <1>1, <1>2, <1>3, <1>4 DEF Call

LEMMA NextInv == IInv /\ [Next]_vars => IInv'
<1> SUFFICES ASSUME IInv, [Next]_vars
             PROVE  IInv'
  OBVIOUS
<1>1. CASE \E t \in Threads : Call(t)
  BY <1>1, CallInv
<1>2. CASE \E t \in Threads : Continue(t)
  BY <1>2, StartsInv, CountsInv, EnumeratesInv, EnumerationFailsInv, StoresInv
     DEF Continue
<1>3. CASE ClearInterfaceCache
  BY <1>3, ClearInv
<1>4. CASE AdaptersChange
  BY <1>4, ChangeInv
<1>5. CASE Tick
  BY <1>5, TickInv
<1>6. CASE UNCHANGED vars
  BY <1>6 DEF vars, hostVars, IInv, TypeOK, LookupInv, EntryInv, MapInv, CurrentSince
<1> QED
  BY <1>1, <1>2, <1>3, <1>4, <1>5, <1>6 DEF Next
-----------------------------------------------------------------------------
\* The inductive invariant holds in every state of every behaviour.
THEOREM Invariance == Spec => []IInv
<1>1. Init => IInv
  BY InitInv
<1>2. IInv /\ [Next]_vars => IInv'
  BY NextInv
<1> QED
  BY <1>1, <1>2, PTL DEF Spec

\* The variables keep their types.
THEOREM TypeCorrectness == Spec => []TypeOK
<1>1. IInv => TypeOK
  BY DEF IInv
<1> QED
  BY <1>1, Invariance, PTL

\* What the cache holds was read after the last clear: clear_interface_cache also
\* discards the enumerations running when it is called.
THEOREM ClearDiscards == Spec => []ClearDiscardsRunning
<1>1. IInv => ClearDiscardsRunning
  BY DEF IInv, EntryInv, ClearDiscardsRunning
<1> QED
  BY <1>1, Invariance, PTL

\* No caller is given an answer that stopped being true its ttl ago or more: the stamp of
\* an entry is read before the adapters are, so it is never later than the reading it stands for.
THEOREM EntryFreshness == Spec => []EntriesAreFresh
<1>1. IInv => EntriesAreFresh
  <2> SUFFICES ASSUME IInv, NEW k \in Keys, NEW ttl \in Ttls,
                      cache[k].held, Fresh(cache[k].at, ttl)
               PROVE  TrueWithin(cache[k].found, ttl)
    BY DEF EntriesAreFresh
  <2>1. /\ cache[k].at \in Nat /\ cache[k].found \in Versions
        /\ now \in Nat /\ until \in [Versions -> Nat]
    BY DEF IInv, TypeOK, Entry
  <2>2. ttl \in Nat
    BY CacheAssumption
  <2>3. CurrentSince(cache[k].found, cache[k].at)
    BY DEF IInv, EntryInv
  <2>4. now - cache[k].at < ttl
    BY DEF Fresh
  <2> QED
    BY <2>1, <2>2, <2>3, <2>4 DEF CurrentSince, TrueWithin
<1> QED
  BY <1>1, Invariance, PTL

\* The map of an endpoint, built from the shared cache, is no staler than the cache:
\* the two times to live do not add up.
THEOREM MapFreshness == Spec => []MapsAreFresh
<1>1. IInv => MapsAreFresh
  <2> SUFFICES ASSUME IInv, NEW t \in Threads, MapFresh(t)
               PROVE  TrueWithin(map[t].found, TTL)
    BY DEF MapsAreFresh
  <2>1. /\ map[t].at \in Nat /\ map[t].found \in Versions
        /\ now \in Nat /\ until \in [Versions -> Nat]
    BY DEF IInv, TypeOK, Map
  <2>2. CurrentSince(map[t].found, map[t].at)
    BY DEF IInv, MapInv
  <2>3. now - map[t].at < TTL /\ TTL \in Nat
    BY CacheAssumption DEF MapFresh, Fresh
  <2> QED
    BY <2>1, <2>2, <2>3 DEF CurrentSince, TrueWithin
<1> QED
  BY <1>1, Invariance, PTL

\* Neither cache answers with what stopped being true its ttl ago or more.
THEOREM AnswerFreshness == Spec => []AnswersAreFresh
BY EntryFreshness, MapFreshness, PTL DEF AnswersAreFresh
=============================================================================
