---------------------------- MODULE CachedGraph ----------------------------
(***************************************************************************)
(* The cache in front of the graph database in the API process:            *)
(* services/cached_graph.rs (reverse_dependents, get_package and their     *)
(* invalidation) and cache/singleflight.rs (get_or_fetch), over the Redis  *)
(* client of cache/client.rs.                                              *)
(*                                                                         *)
(* A request that misses the cache looks for a request in flight for its   *)
(* key: it follows it, or registers itself and leads.  Every await is a    *)
(* step boundary, so the look-up and the registration, which take the lock *)
(* separately, are two steps.  A channel is named by the request that      *)
(* leads it.                                                               *)
(***************************************************************************)
EXTENDS Naturals, FiniteSets

CONSTANTS
    Requests,     \* concurrent requests of the API; one that is done comes back
    Refreshers,   \* bound on the background refreshes that run at once
    Keys,         \* cache keys
    None, Error,  \* no entry, no leader, no answer; a failed fetch
    StaleAfter,   \* CacheConfig.stale_after, in ticks
    ExpireAfter,  \* CacheConfig.expire_after
    DepthTtl,     \* time to live of reverse dependencies, which depends on max_depth
    NegativeTtl,  \* CacheConfig.negative_ttl
    MaxUpdates,   \* bound on the changes of the graph
    MaxFaults     \* bound on the errors of Redis and of the graph database
                  \* and on the requests dropped by a timeout or a client

ASSUME CachedGraphAssumption ==
    /\ None \notin Nat /\ Error \notin Nat /\ None # Error
    /\ None \notin Requests
    /\ StaleAfter \in Nat \ {0}
    /\ ExpireAfter \in Nat \ {0}
    /\ DepthTtl \in Nat \ {0}
    /\ NegativeTtl \in Nat \ {0}
    /\ MaxUpdates \in Nat /\ MaxFaults \in Nat

VARIABLES
    op,        \* the query a key belongs to
    graph,     \* what the database would answer for a key; 0: no such package
    cache,     \* the entry of Redis: value, age and time to live
    inflight,  \* the in-flight map: the request whose sender is under the key
    pc, key, val,   \* of each request: place, key, result of its fetch
    chan, got,      \* the channel it follows, what it has received
    refresh,   \* background refreshes: place, key, value
    updates, faults, drops,
    erred      \* whether a request has answered with an error

requests == <<pc, key, val, chan, got>>
bounds == <<updates, faults, drops>>
vars == <<op, graph, cache, inflight, pc, key, val, chan, got, refresh,
          updates, faults, drops, erred>>

\* reverse_dependents, get_package, get_or_fetch.
Op == {"rdeps", "package", "generic"}

PC == {"idle", "find", "register", "query", "store", "remove", "follow",
       "dropped"}

Entry == [value : Nat, age : Nat, ttl : Nat]

Init ==
    /\ op \in [Keys -> Op]
    /\ graph = [k \in Keys |-> 0]
    /\ cache = [k \in Keys |-> None]
    /\ inflight = [k \in Keys |-> None]
    /\ pc = [r \in Requests |-> "idle"]
    /\ key \in [Requests -> Keys]
    /\ val = [r \in Requests |-> None]
    /\ chan = [r \in Requests |-> None]
    /\ got = [r \in Requests |-> None]
    /\ refresh = [b \in Refreshers |-> None]
    /\ updates = 0 /\ faults = 0 /\ drops = 0
    /\ erred = FALSE

-----------------------------------------------------------------------------
(* Entries.                                                                *)

\* The time to live a fetch gives to its entry.
Ttl(k, v) ==
    CASE op[k] = "rdeps" -> DepthTtl
      [] op[k] = "package" /\ v = 0 -> NegativeTtl
      [] OTHER -> ExpireAfter

NewEntry(k, v) == [value |-> v, age |-> 0, ttl |-> Ttl(k, v)]

\* is_fresh of cached_graph.rs, and the negation of is_stale of singleflight.rs,
\* which is not strict.
Fresh(k) ==
    /\ cache[k] # None
    /\ IF op[k] = "generic" THEN cache[k].age <= StaleAfter
                            ELSE cache[k].age < StaleAfter

\* Only get_package does not serve a stale entry.
Usable(k) ==
    /\ cache[k] # None
    /\ ~Fresh(k)
    /\ op[k] # "package"
    /\ op[k] = "generic" \/ cache[k].age < ExpireAfter

Fault == faults + drops < MaxFaults /\ faults' = faults + 1

\* Request r stays where it is in all but its place.
Goto(r, l) == pc' = [pc EXCEPT ![r] = l]

\* The requests subscribed to r's channel.
Followers(r) == {f \in Requests : pc[f] = "follow" /\ chan[f] = r}

\* r answers its caller with v, and forgets what it was doing.
Reply(r, v) ==
    /\ Goto(r, "idle")
    /\ erred' = (erred \/ v = Error)
    /\ val' = [val EXCEPT ![r] = None]
    /\ chan' = [chan EXCEPT ![r] = None]

\* tx.send(v) and return, between which there is no await: the leader's own
\* sender is dropped.
Announce(r, v) ==
    /\ got' = [f \in Requests |-> IF f \in Followers(r) THEN v ELSE got[f]]
    /\ Reply(r, v)

-----------------------------------------------------------------------------
(* The cache look-up.                                                      *)

LookFresh(r) ==
    /\ pc[r] = "idle"
    /\ \E k \in Keys :
        /\ Fresh(k)
        /\ key' = [key EXCEPT ![r] = k]
    /\ UNCHANGED <<op, graph, cache, inflight, pc, val, chan, got, refresh,
                   bounds, erred>>

\* Stale-while-revalidate: the entry is returned, and a task is spawned that
\* does not take part in the single flight.
LookStale(r) ==
    /\ pc[r] = "idle"
    /\ \E k \in Keys, b \in Refreshers :
        /\ Usable(k)
        /\ refresh[b] = None
        /\ refresh' = [refresh EXCEPT ![b] = [key |-> k, val |-> None]]
        /\ key' = [key EXCEPT ![r] = k]
    /\ UNCHANGED <<op, graph, cache, inflight, pc, val, chan, got,
                   bounds, erred>>

\* Where a request goes without an entry: get_package asks the database.
Miss(r, k) ==
    /\ key' = [key EXCEPT ![r] = k]
    /\ Goto(r, IF op[k] = "package" THEN "query" ELSE "find")
    /\ UNCHANGED <<op, graph, cache, inflight, val, chan, got, refresh,
                   updates, drops, erred>>

LookMiss(r) ==
    /\ pc[r] = "idle"
    /\ \E k \in Keys : ~Fresh(k) /\ ~Usable(k) /\ Miss(r, k)
    /\ UNCHANGED faults

\* An error of Redis, or of the breaker before it, counts as a miss.
LookFails(r) ==
    /\ pc[r] = "idle"
    /\ Fault
    /\ \E k \in Keys : Miss(r, k)

-----------------------------------------------------------------------------
(* The single flight.                                                      *)

\* Under the read lock: subscribe to the sender found, or go on to lead.
Find(r) ==
    /\ pc[r] = "find"
    /\ IF inflight[key[r]] = None
       THEN Goto(r, "register") /\ UNCHANGED chan
       ELSE /\ Goto(r, "follow")
            /\ chan' = [chan EXCEPT ![r] = inflight[key[r]]]
    /\ UNCHANGED <<op, graph, cache, inflight, key, val, got, refresh, bounds, erred>>

\* Under the write lock: whatever is under the key is replaced.
Register(r) ==
    /\ pc[r] = "register"
    /\ inflight' = [inflight EXCEPT ![key[r]] = r]
    /\ Goto(r, "query")
    /\ UNCHANGED <<op, graph, cache, key, val, chan, got, refresh, bounds, erred>>

\* Where a request goes when the database has answered v.
AfterQuery(r, v) ==
    CASE op[key[r]] = "generic" -> "remove"
      [] op[key[r]] # "package" /\ v = Error -> "remove"
      [] OTHER -> "store"

Query(r) ==
    /\ pc[r] = "query"
    /\ val' = [val EXCEPT ![r] = graph[key[r]]]
    /\ Goto(r, AfterQuery(r, graph[key[r]]))
    /\ UNCHANGED <<op, graph, cache, inflight, key, chan, got, refresh, bounds,
                   erred>>

QueryFails(r) ==
    /\ pc[r] = "query"
    /\ Fault
    /\ IF op[key[r]] = "package"
       THEN Reply(r, Error)
       ELSE /\ val' = [val EXCEPT ![r] = Error]
            /\ Goto(r, AfterQuery(r, Error))
            /\ UNCHANGED <<chan, erred>>
    /\ UNCHANGED <<op, graph, cache, inflight, key, got, refresh, updates, drops>>

\* After the store, with the result v: a package is returned, a leader of
\* get_or_fetch announces, one of reverse_dependents cleans up first.
AfterStore(r, v) ==
    CASE op[key[r]] = "package" -> Reply(r, v) /\ UNCHANGED got
      [] op[key[r]] = "generic" -> Announce(r, v)
      [] op[key[r]] = "rdeps"   -> /\ val' = [val EXCEPT ![r] = v]
                                   /\ Goto(r, "remove")
                                   /\ UNCHANGED <<chan, got, erred>>

Store(r) ==
    /\ pc[r] = "store"
    /\ cache' = [cache EXCEPT ![key[r]] = NewEntry(key[r], val[r])]
    /\ AfterStore(r, val[r])
    /\ UNCHANGED <<op, graph, inflight, key, refresh, bounds>>

\* set_cached(..).await? turns an error of Redis into an error of the request;
\* get_or_fetch only logs it.
StoreFails(r) ==
    /\ pc[r] = "store"
    /\ Fault
    /\ AfterStore(r, IF op[key[r]] = "generic" THEN val[r] ELSE Error)
    /\ UNCHANGED <<op, graph, cache, inflight, key, refresh, updates, drops>>

\* Mutant: the entry is removed on success only.
RemoveOnSuccess(r) ==
    /\ pc[r] = "remove"
    /\ inflight' = IF val[r] = Error THEN inflight
                   ELSE [inflight EXCEPT ![key[r]] = None]
    /\ IF op[key[r]] = "generic" /\ val[r] # Error
       THEN Goto(r, "store") /\ UNCHANGED <<val, chan, got, erred>>
       ELSE Announce(r, val[r])
    /\ UNCHANGED <<op, graph, cache, key, refresh, bounds>>

\* Mutant: the result is sent first, and the entry removed in a second step.
RemoveLast(r) ==
    /\ pc[r] = "remove"
    /\ IF val[r] # None
       THEN /\ got' = [f \in Requests |-> IF f \in Followers(r) THEN val[r] ELSE got[f]]
            /\ val' = [val EXCEPT ![r] = None]
            /\ UNCHANGED <<pc, inflight, chan, erred>>
       ELSE /\ inflight' = [inflight EXCEPT ![key[r]] = None]
            /\ Reply(r, None)
            /\ UNCHANGED got
    /\ UNCHANGED <<op, graph, cache, key, refresh, bounds>>

\* in_flight.remove(cache_key), whoever's sender it is; get_or_fetch does this
\* before it stores the value.
Remove(r) ==
    /\ pc[r] = "remove"
    /\ inflight' = [inflight EXCEPT ![key[r]] = None]
    /\ IF op[key[r]] = "generic" /\ val[r] # Error
       THEN Goto(r, "store") /\ UNCHANGED <<val, chan, got, erred>>
       ELSE Announce(r, val[r])
    /\ UNCHANGED <<op, graph, cache, key, refresh, bounds>>

\* Requests that hold the sender of their channel.
Leading == {r \in Requests : /\ op[key[r]] # "package"
                             /\ pc[r] \in {"query", "store", "remove"}}

\* A channel is open while its leader or the map holds a sender.
OpenChannel(r) == r \in Leading \/ \E k \in Keys : inflight[k] = r

\* rx.recv() returns: the result, or RecvError::Closed.
Receive(f) ==
    /\ pc[f] = "follow"
    /\ \/ got[f] # None /\ Reply(f, got[f])
       \/ got[f] = None /\ ~OpenChannel(chan[f]) /\ Reply(f, Error)
    /\ got' = [got EXCEPT ![f] = None]
    /\ UNCHANGED <<op, graph, cache, inflight, key, refresh, bounds>>

\* A timeout of the GraphQL handler, or a client that goes away, drops the
\* request's future at an await.
Drop(r) ==
    /\ pc[r] \notin {"idle", "dropped"}
    /\ faults + drops < MaxFaults
    /\ drops' = drops + 1
    /\ Goto(r, "dropped")
    /\ UNCHANGED <<op, graph, cache, inflight, key, val, chan, got, refresh,
                   updates, faults, erred>>

-----------------------------------------------------------------------------
(* Background refreshes, invalidation, the database and the clock.         *)

RefreshQuery(b) ==
    /\ refresh[b] # None /\ refresh[b].val = None
    /\ refresh' = [refresh EXCEPT ![b].val = graph[refresh[b].key]]
    /\ UNCHANGED <<op, graph, cache, inflight, requests, bounds, erred>>

\* Mutant: the refresh writes back an entry that is still there.
RefreshRenews(b) ==
    /\ refresh[b] # None /\ refresh[b].val # None
    /\ LET k == refresh[b].key
       IN cache' = [cache EXCEPT ![k] = IF @ = None THEN NewEntry(k, refresh[b].val)
                                        ELSE [@ EXCEPT !.age = 0]]
    /\ refresh' = [refresh EXCEPT ![b] = None]
    /\ UNCHANGED <<op, graph, inflight, requests, bounds, erred>>

RefreshStore(b) ==
    /\ refresh[b] # None /\ refresh[b].val # None
    /\ LET k == refresh[b].key
       IN cache' = [cache EXCEPT ![k] = NewEntry(k, refresh[b].val)]
    /\ refresh' = [refresh EXCEPT ![b] = None]
    /\ UNCHANGED <<op, graph, inflight, requests, bounds, erred>>

\* Either step fails: a warning is logged.
RefreshFails(b) ==
    /\ refresh[b] # None
    /\ Fault
    /\ refresh' = [refresh EXCEPT ![b] = None]
    /\ UNCHANGED <<op, graph, cache, inflight, requests, updates, drops, erred>>

Invalidate(k) ==
    /\ op[k] # "generic"
    /\ cache[k] # None
    /\ cache' = [cache EXCEPT ![k] = None]
    /\ UNCHANGED <<op, graph, inflight, requests, refresh, bounds, erred>>

\* The graph-writer changes the answer to the query of k.
Update(k) ==
    /\ updates < MaxUpdates
    /\ updates' = updates + 1
    /\ graph' = [graph EXCEPT ![k] = @ + 1]
    /\ UNCHANGED <<op, cache, inflight, requests, refresh, faults, drops, erred>>

\* Time passes; Redis drops an entry whose time to live (SETEX) is over.
Tick ==
    /\ \E k \in Keys : cache[k] # None
    /\ cache' = [k \in Keys |->
                   IF cache[k] = None \/ cache[k].age + 1 >= cache[k].ttl
                   THEN None ELSE [cache[k] EXCEPT !.age = @ + 1]]
    /\ UNCHANGED <<op, graph, inflight, requests, refresh, bounds, erred>>

-----------------------------------------------------------------------------

Look(r) == LookFresh(r) \/ LookStale(r) \/ LookMiss(r) \/ LookFails(r)

\* What a request does once it is under way.
Work(r) ==
    \/ Find(r) \/ Register(r)
    \/ Query(r) \/ QueryFails(r)
    \/ Store(r) \/ StoreFails(r)
    \/ Remove(r)
    \/ Receive(r)

Refresh(b) == RefreshQuery(b) \/ RefreshStore(b) \/ RefreshFails(b)

Next ==
    \/ \E r \in Requests : Look(r) \/ Work(r) \/ Drop(r)
    \/ \E b \in Refreshers : Refresh(b)
    \/ \E k \in Keys : Invalidate(k) \/ Update(k)
    \/ Tick

Spec == Init /\ [][Next]_vars

Fairness ==
    /\ \A r \in Requests : WF_vars(Work(r))
    /\ \A b \in Refreshers : WF_vars(Refresh(b))
    /\ WF_vars(Tick)

FairSpec == Spec /\ Fairness

-----------------------------------------------------------------------------
(* Properties.                                                             *)

Result == Nat \cup {None, Error}

TypeOK ==
    /\ op \in [Keys -> Op]
    /\ graph \in [Keys -> Nat]
    /\ cache \in [Keys -> Entry \cup {None}]
    /\ inflight \in [Keys -> Requests \cup {None}]
    /\ pc \in [Requests -> PC]
    /\ key \in [Requests -> Keys]
    /\ val \in [Requests -> Result]
    /\ chan \in [Requests -> Requests \cup {None}]
    /\ got \in [Requests -> Result]
    /\ refresh \in [Refreshers -> [key : Keys, val : Nat \cup {None}] \cup {None}]
    /\ updates \in 0 .. MaxUpdates
    /\ faults \in 0 .. MaxFaults
    /\ drops \in 0 .. MaxFaults
    /\ erred \in BOOLEAN

\* The in-flight map never outlives a fetch: the request under a key is still
\* fetching it, unless its future was dropped.
EntriesLive ==
    \A k \in Keys : inflight[k] # None =>
        LET r == inflight[k]
        IN pc[r] = "dropped" \/ (key[r] = k /\ pc[r] \in {"query", "store", "remove"})

\* The shape of the state: the types and the in-flight map.
Inv == TypeOK /\ EntriesLive

\* The single flight adds no failures of its own: whoever wins the race to
\* lead, a request fails only if Redis or the database has failed, or a
\* request was dropped.
NoSpuriousError == erred => faults + drops > 0

\* Whatever background refreshes and slow leaders write late, once the graph
\* is at rest the cache comes to hold nothing else.
Converges ==
    <>[](\A k \in Keys : cache[k] # None => cache[k].value = graph[k])

\* Every request is answered; one waits for ever only behind a leader that
\* was dropped with its sender in the map.
Answered ==
    \A r \in Requests :
        pc[r] = "find" ~> \/ pc[r] \in {"idle", "dropped"}
                          \/ pc[r] = "follow" /\ pc[chan[r]] = "dropped"

=============================================================================
