------------------------------- MODULE Resolver -------------------------------
(*****************************************************************************)
(* netimps.resolve: the chain of backends (src/netimps/_dns/_chain.py), the   *)
(* deadline its steps share (_dns/_common.py) and the process-wide cache of   *)
(* answers (_dns/_cache.py).                                                 *)
(*                                                                           *)
(* Threads call resolve with and without cache= and deadline= while another   *)
(* clears the cache.  A backend is asked outside any lock; what it answers    *)
(* is the choice of the network.                                             *)
(*****************************************************************************)
EXTENDS Naturals, Sequences

CONSTANTS
    Callers,    \* threads that call resolve
    Requests,   \* the calls they make: every option but cache= and deadline=
    Ttls,       \* the values of cache=, in ticks; one above MaxTime never expires
    Deadlines,  \* the values of deadline=, in ticks, None among them
    Timeout,    \* timeout=, the ticks one attempt is given
    Floor,      \* the least time the wire backend gives a query over TCP
    Reap,       \* _REAP_SECONDS, how long a killed nslookup is waited for
    HasDns,     \* whether dnspython is installed
    Limit,      \* _RESOLUTION_CACHE_LIMIT
    MaxTime,    \* bound: the clock
    MaxCalls,   \* bound: calls that ask a backend
    MaxClears,  \* bound: calls of clear_resolution_cache
    None

Backends == {"dnspython", "wire", "system", "nslookup"}
Rdtypes == {"a", "aaaa", "ptr", "txt"}
SystemTypes == {"a", "aaaa", "ptr"}

\* The record types of a call are one type, or both address types in either order.
\* ns: not given, given, or given with a port of its own (other_port).
\* plain: port=53 and no tcp=.  sources: how many addresses source= holds.
Request == [rdtypes : {<<t>> : t \in Rdtypes} \cup {<<"a", "aaaa">>, <<"aaaa", "a">>},
            ns : {"none", "server", "port"}, plain : BOOLEAN, sources : Nat,
            strict : BOOLEAN, backends : Seq(Backends)]

ASSUME ResolverAssumption ==
    /\ Requests \subseteq Request
    /\ Ttls \subseteq Nat
    /\ Deadlines \subseteq Nat \cup {None}
    /\ Timeout \in Nat \ {0} /\ Limit \in Nat \ {0}
    /\ Floor \in Nat /\ Reap \in Nat
    /\ MaxTime \in Nat /\ MaxCalls \in Nat /\ MaxClears \in Nat
    /\ HasDns \in BOOLEAN
    /\ None \notin Nat \cup Backends

VARIABLES
    now,    \* time.monotonic, in ticks
    cache,  \* _RESOLUTION_CACHE, in the order a dict iterates
    call,   \* for each caller, the call in progress or the last one
    calls,  \* calls that asked a backend
    clears  \* calls of clear_resolution_cache

vars == <<now, cache, call, calls, clears>>

\* An answer is the empty list when by is None.  The rest is how it came about and
\* no variable of the code: the backends that had no records for their first, second
\* type; the backends started; whether the call had a deadline.
Answer == [by : Backends \cup {None}, none : SUBSET (Backends \X {1, 2}),
           asked : SUBSET Backends, hurried : BOOLEAN]

Entry == [key : Requests, at : Nat, answer : Answer]

\* i: backends done; j: record types done by the one being asked; until: the end of the
\* time this type was given; answered: a backend answered empty; out: how the last call
\* ended.
Call == [pc : {"idle", "chain", "asking", "put"}, req : Requests \cup {None},
         keep : BOOLEAN, end : Nat \cup {None}, i : Nat, j : Nat,
         found : BOOLEAN, err : BOOLEAN, until : Nat,
         answered : BOOLEAN, answer : Answer,
         out : {"none", "list", "empty", "outage", "raised"}]

Nothing(hurried) == [by |-> None, none |-> {}, asked |-> {}, hurried |-> hurried]
Idle == [pc |-> "idle", req |-> None, keep |-> FALSE, end |-> None, i |-> 0, j |-> 0,
         found |-> FALSE, err |-> FALSE, until |-> 0, answered |-> FALSE,
         answer |-> Nothing(FALSE), out |-> "none"]

TypeOK ==
    /\ now \in Nat
    /\ cache \in Seq(Entry) /\ Len(cache) <= Limit
    /\ \A m, n \in DOMAIN cache : cache[m].key = cache[n].key => m = n
    /\ call \in [Callers -> Call]
    /\ calls \in Nat /\ clears \in Nat
-----------------------------------------------------------------------------
(* The chain of a request.                                                   *)

\* The backends that can serve a request; a pair of record types is two addresses.
Serves(b, r) ==
    LET rdtype == r.rdtypes[1]
    IN \/ /\ b = "system"
          /\ rdtype \in SystemTypes /\ r.ns = "none" /\ r.plain /\ r.sources = 0
       \/ b = "dnspython" /\ r.sources <= 1 /\ HasDns
       \/ b = "wire" /\ (r.ns # "none" \/ r.sources > 0)
       \/ /\ b = "nslookup"
          /\ rdtype \in SystemTypes /\ r.sources = 0 /\ r.ns # "port"

ChainSet(r) == {b \in {r.backends[n] : n \in DOMAIN r.backends} : Serves(b, r)}

\* _each_rdtype asks once for each type; the OS resolver takes both in one call.
Asks(b, r) == IF b = "system" THEN 1 ELSE Len(r.rdtypes)

\* Mutant: a step that starts late is not refused.
Passed_Never(end) == FALSE

\* _budget: a deadline that has passed, and the end of an attempt that starts now.
Passed(end) == end # None /\ end <= now

\* Mutant: an attempt is given its timeout whatever is left.
Budget_Timeout(end) == now + Timeout
Budget(end) ==
    IF end # None /\ end < now + Timeout THEN end ELSE now + Timeout

\* How long an attempt may go on after the end of its time.  A truncated answer of the
\* wire backend is asked for again over TCP, and that can still bring records; an
\* nslookup that was killed is waited for, and has failed.
Late(b) == IF b = "wire" THEN Floor ELSE 0
Overrun(b) == IF b = "nslookup" THEN Reap ELSE Late(b)
-----------------------------------------------------------------------------
(* The cache.                                                                *)

\* Mutant: the key leaves source= out.
CacheKey_NoSource(r) == [r EXCEPT !.sources = 0]

\* _cache_key: every option but the deadline.
CacheKey(r) == r

Held(r) == {n \in DOMAIN cache : cache[n].key = CacheKey(r)}
Hits(r, ttl) == {n \in Held(r) : now - cache[n].at < ttl}

\* Mutant: nothing is evicted.
Evicted_Never(entries) == entries

\* The first keys of the dict go.
Evicted(entries) ==
    IF Len(entries) <= Limit THEN entries
    ELSE SubSeq(entries, Len(entries) - Limit + 1, Len(entries))

\* A key the dict has keeps its place in it.
Stored(r, answer) ==
    LET entry == [key |-> CacheKey(r), at |-> now, answer |-> answer]
    IN IF Held(r) = {} THEN Evicted(Append(cache, entry))
       ELSE [n \in DOMAIN cache |-> IF n \in Held(r) THEN entry ELSE cache[n]]

Init ==
    /\ now = 0
    /\ cache = <<>>
    /\ call = [c \in Callers |-> Idle]
    /\ calls = 0
    /\ clears = 0
-----------------------------------------------------------------------------
(* resolve.                                                                  *)

Outcome(answer) == IF answer.by = None THEN "empty" ELSE "list"

\* _cache_get, under the lock, finds an entry young enough.
Hit(c, r, ttl) ==
    /\ call[c].pc = "idle"
    /\ \E n \in Hits(r, ttl) :
         call' = [call EXCEPT ![c] =
                    [Idle EXCEPT !.req = r, !.answer = cache[n].answer,
                                 !.out = Outcome(cache[n].answer)]]
    /\ UNCHANGED <<now, cache, calls, clears>>

\* Otherwise the chain starts, with the deadline counted from here.
Begin(c, r, keep, deadline) ==
    /\ call[c].pc = "idle"
    /\ calls < MaxCalls
    /\ calls' = calls + 1
    /\ call' = [call EXCEPT ![c] =
                  [Idle EXCEPT !.pc = "chain", !.req = r, !.keep = keep,
                     !.end = IF deadline = None THEN None ELSE now + deadline,
                     !.answer = Nothing(deadline # None)]]
    /\ UNCHANGED <<now, cache, clears>>

Resolve(c, r, ttl, deadline) == Hits(r, ttl) = {} /\ Begin(c, r, TRUE, deadline)
ResolveUncached(c, r, deadline) == Begin(c, r, FALSE, deadline)

Goes(c, a) ==
    /\ call' = [call EXCEPT ![c] = a]
    /\ UNCHANGED <<now, cache, calls, clears>>

Current(a) == a.req.backends[a.i + 1]
More(a) == a.i < Len(a.req.backends)

\* A backend that cannot serve the request is passed over.
Skips(c) ==
    LET a == call[c]
    IN /\ a.pc = "chain"
       /\ More(a)
       /\ ~Serves(Current(a), a.req)
       /\ Goes(c, [a EXCEPT !.i = @ + 1])

\* The next backend is started.
Tries(c) ==
    LET a == call[c]
    IN /\ a.pc = "chain"
       /\ More(a)
       /\ Serves(Current(a), a.req)
       /\ ~Passed(a.end)
       /\ Goes(c, [a EXCEPT !.pc = "asking", !.j = 0, !.found = FALSE, !.err = FALSE,
                            !.until = Budget(a.end),
                            !.answer.asked = @ \cup {Current(a)}])

\* The deadline has passed: the next backend is not.
TooLate(c) ==
    LET a == call[c]
    IN /\ a.pc = "chain"
       /\ More(a)
       /\ Serves(Current(a), a.req)
       /\ Passed(a.end)
       /\ Goes(c, [a EXCEPT !.i = @ + 1])

\* Mutant: a type that could not be asked counts as one with no records.
Concluded_ErrorIsEmpty(a) ==
    IF a.found THEN [a EXCEPT !.pc = "put", !.answer.by = Current(a)]
    ELSE [a EXCEPT !.pc = "chain", !.i = @ + 1, !.answered = TRUE]

\* The end of an attempt: records stop the chain; without any it is an answer only
\* if no type failed.
Concluded(a) ==
    IF a.found THEN [a EXCEPT !.pc = "put", !.answer.by = Current(a)]
    ELSE IF a.err THEN [a EXCEPT !.pc = "chain", !.i = @ + 1]
    ELSE [a EXCEPT !.pc = "chain", !.i = @ + 1, !.answered = TRUE]

\* One record type is done.  The next reads the deadline again; once that has passed,
\* the types that are left fail without being asked for.
Advanced(a) ==
    LET left == a.j + 1 < Asks(Current(a), a.req)
    IN IF left /\ ~Passed(a.end)
         THEN [a EXCEPT !.j = @ + 1, !.until = Budget(a.end)]
         ELSE Concluded([a EXCEPT !.j = Asks(Current(a), a.req), !.err = @ \/ left])

\* An answer can still come.
Answering(a) == a.pc = "asking" /\ now < a.until + Late(Current(a))

\* The backend answers: it has records of the type or none.
Answers(c) ==
    LET a == call[c]
    IN /\ Answering(a)
       /\ \E records \in BOOLEAN :
            Goes(c, Advanced(
              [a EXCEPT !.found = a.found \/ records,
                        !.answer.none = IF records THEN @
                                        ELSE @ \cup {<<Current(a), a.j + 1>>}]))

\* ResolutionError: it could not ask, or its time is over.
Fails(c) ==
    /\ call[c].pc = "asking"
    /\ Goes(c, Advanced([call[c] EXCEPT !.err = TRUE]))

\* Any other exception, ValueError for one, leaves resolve.
Refuses(c) ==
    /\ Answering(call[c])
    /\ Goes(c, [Idle EXCEPT !.req = call[c].req, !.out = "raised"])

\* Mutant: a strict call that no backend answered returns the empty list too.
Unanswered_Lenient(a) == [Idle EXCEPT !.req = a.req, !.out = "outage"]
Unanswered(a) ==
    [Idle EXCEPT !.req = a.req,
                 !.out = IF a.req.strict \/ ChainSet(a.req) = {} THEN "raised" ELSE "outage"]

\* No backend is left: a request that none could serve raises, and the empty list is
\* an answer if one of them said so.
Ends(c) ==
    /\ call[c].pc = "chain"
    /\ ~More(call[c])
    /\ Goes(c, IF call[c].answered THEN [call[c] EXCEPT !.pc = "put"]
               ELSE Unanswered(call[c]))

\* _cache_put, under the lock, for a call with cache=; the call returns.
Puts(c) ==
    /\ call[c].pc = "put"
    /\ cache' = IF call[c].keep THEN Stored(call[c].req, call[c].answer) ELSE cache
    /\ call' = [call EXCEPT ![c] =
                  [Idle EXCEPT !.req = call[c].req, !.answer = call[c].answer,
                               !.out = Outcome(call[c].answer)]]
    /\ UNCHANGED <<now, calls, clears>>

ClearResolutionCache ==
    /\ clears < MaxClears
    /\ clears' = clears + 1
    /\ cache' = <<>>
    /\ UNCHANGED <<now, call, calls>>

\* Every attempt has failed by the end of its time and what its backend adds to that
\* (WireQuery and ChildRun have why; StaysInTime of Backends is this bound).
Tick ==
    /\ now < MaxTime
    /\ \A c \in Callers :
         call[c].pc = "asking" => now < call[c].until + Overrun(Current(call[c]))
    /\ now' = now + 1
    /\ UNCHANGED <<cache, call, calls, clears>>
-----------------------------------------------------------------------------
Asked(c) ==
    \E r \in Requests :
        \/ \E ttl \in Ttls : Hit(c, r, ttl) \/ \E d \in Deadlines : Resolve(c, r, ttl, d)
        \/ \E d \in Deadlines : ResolveUncached(c, r, d)

Continues(c) ==
    \/ Skips(c) \/ Tries(c) \/ TooLate(c) \/ Answers(c) \/ Fails(c) \/ Refuses(c)
    \/ Ends(c) \/ Puts(c)

Next ==
    \/ \E c \in Callers : Asked(c) \/ Continues(c)
    \/ ClearResolutionCache
    \/ Tick

Spec == Init /\ [][Next]_vars
-----------------------------------------------------------------------------
(* Properties.                                                               *)

IsEmpty(answer) == answer.by = None

\* Some backend was asked for every record type and had no records of any.
Denied(r, answer) ==
    \E b \in ChainSet(r) : \A j \in 1..Asks(b, r) : <<b, j>> \in answer.none

\* An empty answer that is cached: some backend was asked for every record type and
\* had none, and unless a deadline cut the chain short every backend that can serve
\* the request was asked.
CachedIsEvidence ==
    \A n \in DOMAIN cache :
        LET answer == cache[n].answer
        IN IsEmpty(answer) =>
             /\ Denied(cache[n].key, answer)
             /\ answer.hurried \/ answer.asked = ChainSet(cache[n].key)

\* A call returns records only from a backend that honours its options: the one a
\* cached answer came from included.
ServedByItsChain ==
    \A c \in Callers :
        call[c].out = "list" => call[c].answer.by \in ChainSet(call[c].req)

\* What a call waits for after its deadline is the overrun of one backend, the one
\* that was asked when the deadline passed: those of several types and backends do not
\* add up, since nothing is started after it (_budget, read by each of them).
AttemptsEndInTime ==
    \A c \in Callers :
        call[c].pc = "asking" /\ call[c].end # None =>
          now <= call[c].end + Overrun(Current(call[c]))

\* A strict call returns a list only if some backend answered, whether in this
\* call or in the one that filled the cache.
StrictTellsOutage ==
    \A c \in Callers :
        /\ call[c].out \in {"list", "empty", "outage"}
        /\ call[c].req.strict
        => call[c].out = "list" \/ Denied(call[c].req, call[c].answer)

\* The empty list is an answer and never an outage, in the cache and in what a
\* strict call returns, whichever call of which thread put it there.
EmptyIsEvidence == CachedIsEvidence /\ StrictTellsOutage
=============================================================================
