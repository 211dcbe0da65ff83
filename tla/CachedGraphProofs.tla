------------------------- MODULE CachedGraphProofs -------------------------
(***************************************************************************)
(* What TLAPS proves of CachedGraph, for any number of requests, keys and  *)
(* refreshes, any times to live and any number of failures: no entry of    *)
(* the in-flight map outlives its fetch, and the single flight makes no    *)
(* request fail by itself.                                                 *)
(***************************************************************************)
EXTENDS CachedGraph, TLAPS

-----------------------------------------------------------------------------
(* The inductive invariant.                                                *)

\* EntriesLive made inductive: who is under a key takes part in the single
\* flight, and one of get_or_fetch is out of the map when it stores.
Holds(r, k) ==
    /\ key[r] = k /\ op[k] # "package"
    /\ pc[r] \in {"query", "remove"} \/ (pc[r] = "store" /\ op[k] = "rdeps")

Registered ==
    /\ \A k \in Keys : inflight[k] # None =>
          pc[inflight[k]] = "dropped" \/ Holds(inflight[k], k)
    /\ \A r \in Requests : pc[r] \in {"find", "register"} => op[key[r]] # "package"

\* Whoever stores has an answer, whoever cleans up an answer or an error.
Fetched ==
    \A r \in Requests : /\ pc[r] = "store" => val[r] \in Nat
                        /\ pc[r] = "remove" => val[r] \in Nat \cup {Error}

-----------------------------------------------------------------------------
(* The types.                                                               *)

\* A reply keeps the types.
LEMMA ReplyTypes ==
    ASSUME TypeOK, NEW r \in Requests, NEW v \in Result, Reply(r, v)
    PROVE  /\ pc' \in [Requests -> PC] /\ val' \in [Requests -> Result]
           /\ chan' \in [Requests -> Requests \cup {None}] /\ erred' \in BOOLEAN
<1>1. erred' \in BOOLEAN
  BY Zenon DEF Reply
<1> QED
  BY <1>1 DEF Reply, Goto, TypeOK, PC, Result

\* So does an announcement, ...
LEMMA AnnounceTypes ==
    ASSUME TypeOK, NEW r \in Requests, NEW v \in Result, Announce(r, v)
    PROVE  /\ pc' \in [Requests -> PC] /\ val' \in [Requests -> Result]
           /\ chan' \in [Requests -> Requests \cup {None}] /\ erred' \in BOOLEAN
           /\ got' \in [Requests -> Result]
<1>1. got' \in [Requests -> Result]
  BY DEF Announce, TypeOK
<1> QED
  BY <1>1, ReplyTypes DEF Announce

\* ... whatever follows a store, ...
LEMMA AfterStoreTypes ==
    ASSUME TypeOK, NEW r \in Requests, NEW v \in Result, AfterStore(r, v)
    PROVE  /\ pc' \in [Requests -> PC] /\ val' \in [Requests -> Result]
           /\ chan' \in [Requests -> Requests \cup {None}] /\ erred' \in BOOLEAN
           /\ got' \in [Requests -> Result]
<1>1. CASE op[key[r]] = "package"
  <2>1. Reply(r, v) /\ got' = got
    BY <1>1 DEF AfterStore
  <2> QED
    BY <2>1, ReplyTypes DEF TypeOK
<1>2. CASE op[key[r]] = "generic"
  BY <1>2, AnnounceTypes DEF AfterStore
<1>3. CASE op[key[r]] = "rdeps"
  <2>1. /\ val' = [val EXCEPT ![r] = v] /\ Goto(r, "remove")
        /\ chan' = chan /\ got' = got /\ erred' = erred
    BY <1>3 DEF AfterStore
  <2> QED
    BY <2>1 DEF Goto, TypeOK, PC
<1> QED
  BY <1>1, <1>2, <1>3 DEF TypeOK, Op

\* ... every step of a request, ...
LEMMA WorkKeepsTypes ==
    ASSUME TypeOK, Fetched, NEW r \in Requests, Look(r) \/ Work(r) \/ Drop(r)
    PROVE  TypeOK'
<1> USE CachedGraphAssumption DEF CachedGraphAssumption, TypeOK, Result, PC, Op, Fault, Goto, Miss,
        bounds, requests
<1>1. ASSUME Look(r) PROVE TypeOK'
  <2>1. CASE LookFresh(r)
    BY <2>1 DEF LookFresh
  <2>2. CASE LookStale(r)
    <3>1. PICK k \in Keys, b \in Refreshers :
             /\ refresh' = [refresh EXCEPT ![b] = [key |-> k, val |-> None]]
             /\ key' = [key EXCEPT ![r] = k]
      BY <2>2 DEF LookStale
    <3>2. [key |-> k, val |-> None] \in [key : Keys, val : Nat \cup {None}]
      OBVIOUS
    <3> QED
      BY <2>2, <3>1, <3>2 DEF LookStale
  <2>3. CASE LookMiss(r)
    BY <2>3 DEF LookMiss
  <2>4. CASE LookFails(r)
    BY <2>4 DEF LookFails
  <2> QED
    BY <1>1, <2>1, <2>2, <2>3, <2>4 DEF Look
<1>2. CASE Find(r)
  BY <1>2 DEF Find
<1>3. CASE Register(r)
  BY <1>3 DEF Register
<1>4. CASE Query(r)
  <2>1. graph[key[r]] \in Nat /\ AfterQuery(r, graph[key[r]]) \in PC
    BY DEF AfterQuery
  <2> QED
    BY <1>4, <2>1 DEF Query
<1>5. CASE QueryFails(r)
  <2>1. CASE op[key[r]] = "package"
    <3>1. Reply(r, Error)
      BY <1>5, <2>1 DEF QueryFails
    <3>2. /\ op' = op /\ graph' = graph /\ cache' = cache /\ inflight' = inflight
          /\ key' = key /\ got' = got /\ refresh' = refresh
          /\ updates' = updates /\ drops' = drops /\ faults' \in 0 .. MaxFaults
      BY <1>5 DEF QueryFails
    <3>3. /\ pc' \in [Requests -> PC] /\ val' \in [Requests -> Result]
          /\ chan' \in [Requests -> Requests \cup {None}] /\ erred' \in BOOLEAN
      BY <3>1, ReplyTypes
    <3> QED
      BY <3>2, <3>3
  <2>2. CASE op[key[r]] # "package"
    <3>1. AfterQuery(r, Error) \in PC
      BY DEF AfterQuery
    <3>2. /\ val' = [val EXCEPT ![r] = Error] /\ pc' = [pc EXCEPT ![r] = AfterQuery(r, Error)]
          /\ UNCHANGED <<chan, erred>>
      BY <1>5, <2>2, Zenon DEF QueryFails
    <3>3. /\ op' = op /\ graph' = graph /\ cache' = cache /\ inflight' = inflight
          /\ key' = key /\ got' = got /\ refresh' = refresh
          /\ updates' = updates /\ drops' = drops /\ faults' \in 0 .. MaxFaults
      BY <1>5 DEF QueryFails
    <3> QED
      BY <3>1, <3>2, <3>3
  <2> QED
    BY <2>1, <2>2
<1>6. CASE Store(r) \/ StoreFails(r)
  <2>1. PICK v \in Result : AfterStore(r, v)
    BY <1>6 DEF Store, StoreFails
  <2>2. CASE Store(r)
    <3>1. val[r] \in Nat
      BY <2>2 DEF Store, Fetched
    <3>2. NewEntry(key[r], val[r]) \in Entry
      BY <3>1 DEF NewEntry, Ttl, Entry
    <3> QED
      BY <2>1, <2>2, <3>2, AfterStoreTypes DEF Store
  <2>3. CASE StoreFails(r)
    <3>1. /\ op' = op /\ graph' = graph /\ cache' = cache /\ inflight' = inflight
          /\ key' = key /\ refresh' = refresh
          /\ updates' = updates /\ drops' = drops /\ faults' \in 0 .. MaxFaults
      BY <2>3 DEF StoreFails
    <3>2. /\ pc' \in [Requests -> PC] /\ val' \in [Requests -> Result]
          /\ chan' \in [Requests -> Requests \cup {None}] /\ erred' \in BOOLEAN
          /\ got' \in [Requests -> Result]
      BY <2>1, AfterStoreTypes
    <3> QED
      BY <3>1, <3>2
  <2> QED
    BY <1>6, <2>2, <2>3
<1>7. CASE Remove(r)
  <2>1. inflight' \in [Keys -> Requests \cup {None}]
    BY <1>7 DEF Remove
  <2>2. CASE op[key[r]] = "generic" /\ val[r] # Error
    BY <1>7, <2>1, <2>2 DEF Remove
  <2>3. CASE ~(op[key[r]] = "generic" /\ val[r] # Error)
    <3>1. Announce(r, val[r])
      BY <1>7, <2>3 DEF Remove
    <3> QED
      BY <1>7, <2>1, <3>1, AnnounceTypes DEF Remove
  <2> QED
    BY <2>2, <2>3
<1>8. CASE Receive(r)
  <2>1. PICK v \in Result : Reply(r, v)
    BY <1>8 DEF Receive
  <2> QED
    BY <1>8, <2>1, ReplyTypes DEF Receive
<1>9. CASE Drop(r)
  BY <1>9 DEF Drop
<1> QED
  BY <1>1, <1>2, <1>3, <1>4, <1>5, <1>6, <1>7, <1>8, <1>9 DEF Work

\* ... and the refreshes, the invalidations, the database and the clock.
LEMMA OthersKeepTypes ==
    ASSUME TypeOK,
           \/ \E b \in Refreshers : Refresh(b)
           \/ \E k \in Keys : Invalidate(k) \/ Update(k)
           \/ Tick
           \/ UNCHANGED vars
    PROVE  TypeOK'
<1> USE CachedGraphAssumption DEF CachedGraphAssumption, TypeOK, bounds, requests
<1>1. ASSUME NEW b \in Refreshers, Refresh(b) PROVE TypeOK'
  <2>1. CASE RefreshQuery(b)
    <3>1. /\ refresh[b] \in [key : Keys, val : Nat \cup {None}]
          /\ graph[refresh[b].key] \in Nat
      BY <2>1 DEF RefreshQuery
    <3> QED
      BY <2>1, <3>1 DEF RefreshQuery
  <2>2. CASE RefreshStore(b)
    <3>1. refresh[b] \in [key : Keys, val : Nat \cup {None}] /\ refresh[b].val \in Nat
      BY <2>2 DEF RefreshStore
    <3>2. NewEntry(refresh[b].key, refresh[b].val) \in Entry
      BY <3>1 DEF NewEntry, Ttl, Entry
    <3> QED
      BY <2>2, <3>2 DEF RefreshStore
  <2>3. CASE RefreshFails(b)
    BY <2>3 DEF RefreshFails, Fault
  <2> QED
    BY <1>1, <2>1, <2>2, <2>3 DEF Refresh
<1>2. ASSUME NEW k \in Keys, Invalidate(k) \/ Update(k) PROVE TypeOK'
  BY <1>2 DEF Invalidate, Update
<1>3. CASE Tick
  <2>1. \A k \in Keys : cache'[k] \in Entry \cup {None}
    BY <1>3 DEF Tick, Entry
  <2> QED
    BY <1>3, <2>1 DEF Tick
<1>4. CASE UNCHANGED vars
  BY <1>4 DEF vars
<1> QED
  BY <1>1, <1>2, <1>3, <1>4

-----------------------------------------------------------------------------
(* The in-flight map.                                                      *)

\* What is under a key, and what a request has fetched, over a step of that
\* request.
LEMMA AfterStorePlace ==
    ASSUME TypeOK, NEW r \in Requests, NEW v \in Result, AfterStore(r, v)
    PROVE  \/ /\ op[key[r]] = "rdeps"
              /\ pc' = [pc EXCEPT ![r] = "remove"] /\ val' = [val EXCEPT ![r] = v]
           \/ /\ op[key[r]] # "rdeps"
              /\ pc' = [pc EXCEPT ![r] = "idle"] /\ val' = [val EXCEPT ![r] = None]
<1>1. CASE op[key[r]] = "package"
  BY <1>1 DEF AfterStore, Reply, Goto
<1>2. CASE op[key[r]] = "generic"
  BY <1>2 DEF AfterStore, Announce, Reply, Goto
<1>3. CASE op[key[r]] = "rdeps"
  BY <1>3 DEF AfterStore, Goto
<1> QED
  BY <1>1, <1>2, <1>3 DEF TypeOK, Op

\* A request stores an answer of the database only, and cleans up with an
\* answer or an error.
LEMMA WorkKeepsFetched ==
    ASSUME TypeOK, Fetched, NEW r \in Requests, Look(r) \/ Work(r) \/ Drop(r)
    PROVE  Fetched'
<1> USE CachedGraphAssumption DEF CachedGraphAssumption, TypeOK, Fetched
<1>1. CASE Look(r)
  BY <1>1 DEF Look, LookFresh, LookStale, LookMiss, LookFails, Miss, Goto
<1>2. CASE Find(r) \/ Register(r) \/ Drop(r)
  BY <1>2 DEF Find, Register, Drop, Goto
<1>3. CASE Query(r)
  <2>1. graph[key[r]] \in Nat
    OBVIOUS
  <2> QED
    BY <1>3, <2>1 DEF Query, AfterQuery, Goto
<1>4. CASE QueryFails(r)
  <2>1. CASE op[key[r]] = "package"
    <3>1. pc' = [pc EXCEPT ![r] = "idle"] /\ val' = [val EXCEPT ![r] = None]
      BY <1>4, <2>1 DEF QueryFails, Reply, Goto
    <3> QED
      BY <3>1
  <2>2. CASE op[key[r]] # "package"
    <3>1. AfterQuery(r, Error) = "remove"
      BY <2>2 DEF AfterQuery
    <3>2. pc' = [pc EXCEPT ![r] = "remove"] /\ val' = [val EXCEPT ![r] = Error]
      BY <1>4, <2>2, <3>1, Zenon DEF QueryFails, Goto
    <3> QED
      BY <3>2
  <2> QED
    BY <2>1, <2>2
<1>5. CASE Store(r) \/ StoreFails(r)
  <2>1. PICK v \in Nat \cup {Error} : AfterStore(r, v)
    BY <1>5 DEF Store, StoreFails
  <2>2. v \in Result
    BY <2>1 DEF Result
  <2> QED
    BY <2>1, <2>2, AfterStorePlace
<1>6. CASE Remove(r)
  <2>1. CASE op[key[r]] = "generic" /\ val[r] # Error
    <3>1. pc' = [pc EXCEPT ![r] = "store"] /\ val' = val /\ pc[r] = "remove"
      BY <1>6, <2>1 DEF Remove, Goto
    <3> QED
      BY <2>1, <3>1
  <2>2. CASE ~(op[key[r]] = "generic" /\ val[r] # Error)
    <3>1. pc' = [pc EXCEPT ![r] = "idle"] /\ val' = [val EXCEPT ![r] = None]
      BY <1>6, <2>2 DEF Remove, Announce, Reply, Goto
    <3> QED
      BY <3>1
  <2> QED
    BY <2>1, <2>2
<1>7. CASE Receive(r)
  <2>1. pc' = [pc EXCEPT ![r] = "idle"] /\ val' = [val EXCEPT ![r] = None]
    BY <1>7 DEF Receive, Reply, Goto
  <2> QED
    BY <2>1
<1> QED
  BY <1>1, <1>2, <1>3, <1>4, <1>5, <1>6, <1>7 DEF Work

\* The in-flight map names a request only while it fetches, or once it is
\* dropped.
LEMMA WorkKeepsRegistered ==
    ASSUME TypeOK, Fetched, Registered, NEW r \in Requests, Look(r) \/ Work(r) \/ Drop(r)
    PROVE  Registered'
<1> USE CachedGraphAssumption DEF CachedGraphAssumption, TypeOK, Registered, Holds
<1>1. CASE Look(r)
  <2>1. pc[r] = "idle" /\ op' = op /\ inflight' = inflight
    BY <1>1 DEF Look, LookFresh, LookStale, LookMiss, LookFails, Miss
  <2>2. PICK k \in Keys : /\ key' = [key EXCEPT ![r] = k]
                          /\ \/ pc' = pc
                             \/ pc' = [pc EXCEPT ![r] = IF op[k] = "package"
                                                        THEN "query" ELSE "find"]
    BY <1>1 DEF Look, LookFresh, LookStale, LookMiss, LookFails, Miss, Goto
  <2>3. \A j \in Keys : inflight[j] # r
    BY <2>1
  <2> QED
    BY <2>1, <2>2, <2>3
<1>2. CASE Find(r)
  BY <1>2 DEF Find, Goto
<1>3. CASE Register(r)
  BY <1>3 DEF Register, Goto
<1>4. CASE Query(r)
  <2>1. graph[key[r]] # Error
    OBVIOUS
  <2>2. AfterQuery(r, graph[key[r]]) =
          IF op[key[r]] = "generic" THEN "remove" ELSE "store"
    BY <2>1 DEF AfterQuery
  <2>3. /\ pc[r] = "query" /\ op' = op /\ inflight' = inflight /\ key' = key
        /\ pc' = [pc EXCEPT ![r] = IF op[key[r]] = "generic" THEN "remove" ELSE "store"]
    BY <1>4, <2>2 DEF Query, Goto
  <2> QED
    BY <2>3 DEF Op
<1>5. CASE QueryFails(r)
  <2>1. pc[r] = "query" /\ op' = op /\ inflight' = inflight /\ key' = key
    BY <1>5 DEF QueryFails
  <2>2. CASE op[key[r]] = "package"
    <3>1. pc' = [pc EXCEPT ![r] = "idle"]
      BY <1>5, <2>2 DEF QueryFails, Reply, Goto
    <3> QED
      BY <2>1, <2>2, <3>1
  <2>3. CASE op[key[r]] # "package"
    <3>1. AfterQuery(r, Error) = "remove"
      BY <2>3 DEF AfterQuery
    <3>2. pc' = [pc EXCEPT ![r] = "remove"]
      BY <1>5, <2>3, <3>1, Zenon DEF QueryFails, Goto
    <3> QED
      BY <2>1, <2>3, <3>2
  <2> QED
    BY <2>2, <2>3
<1>6. CASE Store(r) \/ StoreFails(r)
  <2>1. pc[r] = "store" /\ op' = op /\ inflight' = inflight /\ key' = key
    BY <1>6 DEF Store, StoreFails
  <2>2. PICK v \in Result : AfterStore(r, v)
    BY <1>6 DEF Store, StoreFails, Result
  <2>3. pc' = [pc EXCEPT ![r] = IF op[key[r]] = "rdeps" THEN "remove" ELSE "idle"]
    BY <2>2, AfterStorePlace
  <2> QED
    BY <2>1, <2>3 DEF Op
<1>7. CASE Remove(r)
  <2>1. /\ pc[r] = "remove" /\ op' = op /\ key' = key
        /\ inflight' = [inflight EXCEPT ![key[r]] = None]
    BY <1>7 DEF Remove
  <2>2. PICK l \in {"store", "idle"} : pc' = [pc EXCEPT ![r] = l]
    BY <1>7 DEF Remove, Announce, Reply, Goto
  <2> QED
    BY <2>1, <2>2
<1>8. CASE Receive(r)
  <2>1. /\ pc[r] = "follow" /\ op' = op /\ inflight' = inflight /\ key' = key
        /\ pc' = [pc EXCEPT ![r] = "idle"]
    BY <1>8 DEF Receive, Reply, Goto
  <2> QED
    BY <2>1
<1>9. CASE Drop(r)
  BY <1>9 DEF Drop, Goto
<1> QED
  BY <1>1, <1>2, <1>3, <1>4, <1>5, <1>6, <1>7, <1>8, <1>9 DEF Work

\* THE IN-FLIGHT MAP (the inductive step): refreshes, invalidations, changes
\* of the graph and the clock touch no request and no entry of the map.
LEMMA StepKeepsInv ==
    ASSUME TypeOK, Fetched, Registered, [Next]_vars
    PROVE  TypeOK' /\ Fetched' /\ Registered'
<1>1. ASSUME NEW r \in Requests, Look(r) \/ Work(r) \/ Drop(r)
      PROVE  TypeOK' /\ Fetched' /\ Registered'
  BY <1>1, WorkKeepsTypes, WorkKeepsFetched, WorkKeepsRegistered
<1>2. ASSUME \/ \E b \in Refreshers : Refresh(b)
             \/ \E k \in Keys : Invalidate(k) \/ Update(k)
             \/ Tick
             \/ UNCHANGED vars
      PROVE  TypeOK' /\ Fetched' /\ Registered'
  <2>1. op' = op /\ inflight' = inflight /\ pc' = pc /\ key' = key /\ val' = val
    BY <1>2 DEF Refresh, RefreshQuery, RefreshStore, RefreshFails, Invalidate,
                Update, Tick, vars, requests
  <2>2. Fetched' /\ Registered'
    BY <2>1 DEF Fetched, Registered, Holds
  <2> QED
    BY <1>2, <2>2, OthersKeepTypes
<1> QED
  BY <1>1, <1>2 DEF Next

\* The inductive invariant holds at first, ...
LEMMA InitInv == Init => TypeOK /\ Fetched /\ Registered
<1> SUFFICES ASSUME Init PROVE TypeOK /\ Fetched /\ Registered
  OBVIOUS
<1>1. TypeOK
  <2>1. erred \in BOOLEAN
    BY Zenon DEF Init
  <2> QED
    BY <2>1, CachedGraphAssumption DEF CachedGraphAssumption, Init, TypeOK, Result, PC
<1>2. Fetched /\ Registered
  BY CachedGraphAssumption DEF CachedGraphAssumption, Init, Fetched, Registered
<1> QED
  BY <1>1, <1>2

\* ... and always.
LEMMA Inductive == Spec => [](TypeOK /\ Fetched /\ Registered)
  BY InitInv, StepKeepsInv, PTL DEF Spec

\* The in-flight map never outlives a fetch, whatever the number of requests
\* and keys, and whatever fails: two requests that lead for one key included.
THEOREM InflightLive == Spec => []Inv
<1>1. TypeOK /\ Registered => Inv
  BY CachedGraphAssumption
     DEF CachedGraphAssumption, TypeOK, Registered, Holds, Inv, EntriesLive
<1> QED
  BY <1>1, Inductive, PTL

-----------------------------------------------------------------------------
(* No error without a failure.                                             *)

\* NoSpuriousError made inductive: until something fails, no answer is an
\* error, and whoever waits for one follows a request that will announce it.
Clean ==
    \A r \in Requests : pc[r] # "dropped" /\ val[r] # Error /\ got[r] # Error

Followed ==
    \A f \in Requests : pc[f] = "follow" /\ got[f] = None => chan[f] \in Leading

Calm == faults + drops = 0

Quiet == Calm => /\ ~erred
                 /\ Clean
                 /\ Followed

\* An answer that is no error keeps the calm, if its request led nobody.
LEMMA ReplyKeepsCalm ==
    ASSUME TypeOK, ~erred, Clean, Followed, NEW r \in Requests, NEW v \in Result,
           v # Error, Reply(r, v), r \notin Leading,
           op' = op, key' = key, got' = got \/ got' = [got EXCEPT ![r] = None]
    PROVE  ~erred' /\ Clean' /\ Followed'
<1>1. ~erred'
  BY Zenon DEF Reply
<1>2. Clean'
  BY CachedGraphAssumption DEF CachedGraphAssumption, Clean, TypeOK, Reply, Goto
<1>3. Followed'
  BY DEF Followed, Leading, TypeOK, Reply, Goto
<1> QED
  BY <1>1, <1>2, <1>3

\* An announced answer reaches every follower, so that a leader leaves nobody
\* behind.
LEMMA AnnounceKeepsCalm ==
    ASSUME TypeOK, ~erred, Clean, Followed, NEW r \in Requests, NEW v \in Nat,
           Announce(r, v), op' = op, key' = key
    PROVE  ~erred' /\ Clean' /\ Followed'
<1>1. ~erred'
  <2>1. v # Error
    BY CachedGraphAssumption DEF CachedGraphAssumption
  <2> QED
    BY <2>1, Zenon DEF Announce, Reply
<1>2. Clean'
  BY CachedGraphAssumption DEF CachedGraphAssumption, Clean, TypeOK, Announce, Reply, Goto
<1>3. Followed'
  BY CachedGraphAssumption
     DEF CachedGraphAssumption, Followed, Followers, Leading, TypeOK, Announce, Reply, Goto
<1> QED
  BY <1>1, <1>2, <1>3

\* As long as nothing fails, no step of a request is answered with an error,
\* nor leaves a follower without a leader.
LEMMA WorkKeepsCalm ==
    ASSUME TypeOK, Fetched, Registered, Calm, ~erred, Clean, Followed, Calm',
           NEW r \in Requests, Look(r) \/ Work(r) \/ Drop(r)
    PROVE  ~erred' /\ Clean' /\ Followed'
<1> USE CachedGraphAssumption DEF CachedGraphAssumption
<1>1. CASE LookFresh(r) \/ LookStale(r) \/ LookMiss(r)
  <2>1. /\ UNCHANGED <<erred>>
        /\ op' = op /\ val' = val /\ got' = got /\ chan' = chan /\ pc[r] = "idle"
    BY <1>1, Zenon DEF LookFresh, LookStale, LookMiss, Miss
  <2>2. PICK k \in Keys : /\ key' = [key EXCEPT ![r] = k]
                          /\ \/ pc' = pc
                             \/ pc' = [pc EXCEPT ![r] = IF op[k] = "package"
                                                        THEN "query" ELSE "find"]
    BY <1>1 DEF LookFresh, LookStale, LookMiss, Miss, Goto
  <2>3. Clean'
    BY <2>1, <2>2 DEF Clean, TypeOK
  <2>4. Followed'
    BY <2>1, <2>2 DEF Followed, Leading, TypeOK
  <2> QED
    BY <2>1, <2>3, <2>4
<1>2. CASE Find(r)
  <2>1. /\ UNCHANGED <<erred>>
        /\ pc[r] = "find" /\ op' = op /\ val' = val /\ got' = got /\ key' = key
    BY <1>2, Zenon DEF Find
  <2>2. Clean'
    BY <1>2, <2>1 DEF Find, Clean, Goto, TypeOK
  <2>3. CASE inflight[key[r]] = None
    <3>1. pc' = [pc EXCEPT ![r] = "register"] /\ chan' = chan
      BY <1>2, <2>3 DEF Find, Goto
    <3>2. Followed'
      BY <2>1, <3>1 DEF Followed, Leading, TypeOK
    <3> QED
      BY <2>1, <2>2, <3>2
  <2>4. CASE inflight[key[r]] # None
    <3>1. /\ pc' = [pc EXCEPT ![r] = "follow"]
          /\ chan' = [chan EXCEPT ![r] = inflight[key[r]]]
      BY <1>2, <2>4 DEF Find, Goto
    <3>2. inflight[key[r]] \in Leading
      BY <2>4 DEF Registered, Holds, Clean, Leading, TypeOK
    <3>3. Followed'
      BY <2>1, <3>1, <3>2 DEF Followed, Leading, TypeOK
    <3> QED
      BY <2>1, <2>2, <3>3
  <2> QED
    BY <2>3, <2>4
<1>3. CASE Register(r)
  <2>1. /\ UNCHANGED <<erred>>
        /\ pc[r] = "register" /\ pc' = [pc EXCEPT ![r] = "query"]
        /\ op' = op /\ val' = val /\ got' = got /\ key' = key /\ chan' = chan
    BY <1>3, Zenon DEF Register, Goto
  <2>2. Clean' /\ Followed'
    BY <2>1 DEF Clean, Followed, Leading, TypeOK
  <2> QED
    BY <2>1, <2>2
<1>4. CASE Query(r)
  <2>1. graph[key[r]] \in Nat /\ AfterQuery(r, graph[key[r]]) \in {"remove", "store"}
    BY DEF TypeOK, AfterQuery
  <2>2. /\ UNCHANGED <<erred>>
        /\ pc[r] = "query" /\ pc' = [pc EXCEPT ![r] = AfterQuery(r, graph[key[r]])]
        /\ val' = [val EXCEPT ![r] = graph[key[r]]]
        /\ op' = op /\ got' = got /\ key' = key /\ chan' = chan
    BY <1>4, Zenon DEF Query, Goto
  <2>3. Clean' /\ Followed'
    BY <2>1, <2>2 DEF Clean, Followed, Leading, TypeOK
  <2> QED
    BY <2>2, <2>3
<1>5. CASE Store(r)
  <2>1. pc[r] = "store" /\ op' = op /\ key' = key /\ val[r] \in Nat
    BY <1>5 DEF Store, Fetched
  <2>2. AfterStore(r, val[r]) /\ val[r] \in Result /\ val[r] # Error
    BY <1>5, <2>1 DEF Store, Result
  <2>3. CASE op[key[r]] = "package"
    <3>1. Reply(r, val[r]) /\ got' = got /\ r \notin Leading
      BY <2>2, <2>3 DEF AfterStore, Leading
    <3> QED
      BY <2>1, <2>2, <3>1, ReplyKeepsCalm
  <2>4. CASE op[key[r]] = "generic"
    BY <2>1, <2>2, <2>4, AnnounceKeepsCalm DEF AfterStore
  <2>5. CASE op[key[r]] = "rdeps"
    <3>1. UNCHANGED <<erred>>
      BY <2>2, <2>5 DEF AfterStore
    <3>2. /\ val' = [val EXCEPT ![r] = val[r]] /\ pc' = [pc EXCEPT ![r] = "remove"]
          /\ chan' = chan /\ got' = got
      BY <2>2, <2>5 DEF AfterStore, Goto
    <3>3. Clean' /\ Followed'
      BY <2>1, <3>2 DEF Clean, Followed, Leading, TypeOK
    <3> QED
      BY <3>1, <3>3
  <2> QED
    BY <2>3, <2>4, <2>5 DEF TypeOK, Op
<1>6. CASE Remove(r)
  <2>1. pc[r] = "remove" /\ op' = op /\ key' = key /\ val[r] \in Nat
    BY <1>6 DEF Remove, Fetched, Clean
  <2>2. CASE op[key[r]] = "generic" /\ val[r] # Error
    <3>1. UNCHANGED <<erred>>
      BY <1>6, <2>2, Zenon DEF Remove
    <3>2. /\ pc' = [pc EXCEPT ![r] = "store"]
          /\ val' = val /\ chan' = chan /\ got' = got
      BY <1>6, <2>2, Zenon DEF Remove, Goto
    <3>3. Clean' /\ Followed'
      BY <2>1, <3>2 DEF Clean, Followed, Leading, TypeOK
    <3> QED
      BY <3>1, <3>3
  <2>3. CASE ~(op[key[r]] = "generic" /\ val[r] # Error)
    BY <1>6, <2>1, <2>3, AnnounceKeepsCalm DEF Remove
  <2> QED
    BY <2>2, <2>3
<1>7. CASE Receive(r)
  <2>1. /\ pc[r] = "follow" /\ op' = op /\ key' = key
        /\ got' = [got EXCEPT ![r] = None] /\ r \notin Leading
    BY <1>7 DEF Receive, Leading
  <2>2. got[r] # None
    BY <1>7, <2>1 DEF Receive, Followed, OpenChannel
  <2>3. Reply(r, got[r]) /\ got[r] \in Result /\ got[r] # Error
    BY <1>7, <2>2 DEF Receive, TypeOK, Clean
  <2> QED
    BY <2>1, <2>3, ReplyKeepsCalm
<1>8. CASE LookFails(r) \/ QueryFails(r) \/ StoreFails(r) \/ Drop(r)
  <2>1. \/ faults' = faults + 1 /\ drops' = drops
        \/ faults' = faults /\ drops' = drops + 1
    BY <1>8 DEF LookFails, QueryFails, StoreFails, Drop, Fault, Miss
  <2> QED
    BY <2>1 DEF Calm, TypeOK
<1> QED
  BY <1>1, <1>2, <1>3, <1>4, <1>5, <1>6, <1>7, <1>8 DEF Look, Work

\* The inductive step: errors come after a failure only.
LEMMA StepKeepsQuiet ==
    ASSUME TypeOK, Fetched, Registered, Quiet, [Next]_vars
    PROVE  Quiet'
<1> SUFFICES ASSUME Calm' PROVE (~erred /\ Clean /\ Followed)'
  BY DEF Quiet
<1>1. Calm
  <2>1. faults \in Nat /\ drops \in Nat
    BY CachedGraphAssumption DEF CachedGraphAssumption, TypeOK
  <2>2. /\ faults' = faults \/ faults' = faults + 1
        /\ drops' = drops \/ drops' = drops + 1
    BY DEF Next, Look, LookFresh, LookStale, LookMiss, LookFails, Miss, Work, Find,
           Register, Query, QueryFails, Store, StoreFails, Remove, Receive, Drop,
           Refresh, RefreshQuery, RefreshStore, RefreshFails, Invalidate, Update,
           Tick, Fault, vars, bounds
  <2>3. faults' + drops' = 0
    BY Zenon DEF Calm
  <2>4. faults = 0 /\ drops = 0
    BY <2>1, <2>2, <2>3
  <2> QED
    BY <2>4 DEF Calm
<1>2. ~erred /\ Clean /\ Followed
  BY <1>1 DEF Quiet
<1>3. ASSUME NEW r \in Requests, Look(r) \/ Work(r) \/ Drop(r)
      PROVE  (~erred /\ Clean /\ Followed)'
  BY <1>1, <1>2, <1>3, WorkKeepsCalm
<1>4. ASSUME \/ \E b \in Refreshers : Refresh(b)
             \/ \E k \in Keys : Invalidate(k) \/ Update(k)
             \/ Tick
             \/ UNCHANGED vars
      PROVE  (~erred /\ Clean /\ Followed)'
  <2>1. UNCHANGED <<erred>>
    BY <1>4, Zenon DEF Refresh, RefreshQuery, RefreshStore, RefreshFails,
                Invalidate, Update, Tick, vars
  <2>2. op' = op /\ pc' = pc /\ key' = key /\ val' = val /\ chan' = chan /\ got' = got
    BY <1>4 DEF Refresh, RefreshQuery, RefreshStore, RefreshFails, Invalidate,
                Update, Tick, vars, requests
  <2>3. Clean' /\ Followed'
    BY <1>2, <2>2 DEF Clean, Followed, Leading
  <2> QED
    BY <1>2, <2>1, <2>3
<1> QED
  BY <1>3, <1>4 DEF Next

\* THE SINGLE FLIGHT ADDS NO FAILURE: with any number of requests, keys and
\* refreshes, until Redis or the database fails or a request is dropped, no
\* request is answered with an error.
THEOREM NoErrorOfItsOwn == Spec => []NoSpuriousError
<1>1. Init => Quiet
  <2>1. Init => ~erred
    BY Zenon DEF Init
  <2>2. Init => Clean /\ Followed
    BY CachedGraphAssumption DEF CachedGraphAssumption, Init, Clean, Followed
  <2> QED
    BY <2>1, <2>2 DEF Quiet
<1>2. TypeOK /\ Quiet => NoSpuriousError
  <2> SUFFICES ASSUME TypeOK, Quiet, erred PROVE faults + drops > 0
    BY DEF NoSpuriousError
  <2>1. faults + drops # 0
    BY Zenon DEF Quiet, Calm
  <2> QED
    BY <2>1, CachedGraphAssumption DEF CachedGraphAssumption, TypeOK
<1> QED
  BY <1>1, <1>2, Inductive, StepKeepsQuiet, PTL DEF Spec
=============================================================================
