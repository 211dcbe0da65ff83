------------------------------ MODULE RateLimit ------------------------------
(***************************************************************************)
(* The rate limiter of the API (middleware/distributed_rate_limit.rs): a   *)
(* sliding window in Redis, shared by the instances, and a fixed window of *)
(* each instance for when Redis fails.  The script of Redis is atomic, and *)
(* the local counters are changed under a write lock, so that a check is   *)
(* one step.  Clients are counted apart from each other: the state is that *)
(* of one of them.  Time is the clock in seconds.                          *)
(***************************************************************************)
EXTENDS Integers, Sequences, FiniteSets

CONSTANTS
    Instances,          \* processes of the API
    Requests,           \* [apiKey, forwarded, realIp] : the headers of a request, or None
    TierOfKey,          \* RATE_LIMIT_API_KEYS: the tier of each configured key
    PerMinute,          \* the limit of each tier
    Window,             \* window_size_secs
    FallbackLimit,
    AllowOnRedisFailure,
    CleanupEvery,       \* seconds between two clean-ups of the local counters
    Draws,              \* the outcomes of math.random that members are told apart by
    MaxTime, MaxCollisions,
    None

LimitsAssumption ==
    /\ Window \in Nat \ {0} /\ FallbackLimit \in Nat /\ CleanupEvery \in Nat
    /\ DOMAIN PerMinute = {"free", "pro", "enterprise"}
    /\ \A t \in DOMAIN PerMinute : PerMinute[t] \in Nat
    /\ \A k \in DOMAIN TierOfKey : TierOfKey[k] \in DOMAIN PerMinute \cup {"unlimited"}
    /\ AllowOnRedisFailure \in BOOLEAN
    /\ MaxTime \in Nat
    /\ "redis" \notin Instances /\ None \notin [count : Nat, start : Nat]

VARIABLES
    client,
    now,
    window,      \* Redis: the sorted set of the client, members <<time, draw>>
    counter,     \* counter[i]: [count, start], or None
    cleaned,     \* last_cleanup of each instance
    granted,     \* granted[s]: when s let requests through
    collided,    \* when a request of Redis replaced a member of the set
    awaited      \* when Redis told the denied client to come back, or None

local == <<counter, cleaned>>
vars == <<client, now, window, counter, cleaned, granted, collided, awaited>>

\* Who is counted: the API key, or the first address of X-Forwarded-For, or X-Real-IP.
ClientKey(r) ==
    CASE r.apiKey # None -> <<"apikey", r.apiKey>>
      [] r.apiKey = None /\ r.forwarded # None -> <<"ip", r.forwarded>>
      [] r.apiKey = None /\ r.forwarded = None /\ r.realIp # None -> <<"ip", r.realIp>>
      [] OTHER -> <<"anonymous", None>>

TierOf(c) ==
    IF c[1] = "apikey" /\ c[2] \in DOMAIN TierOfKey THEN TierOfKey[c[2]] ELSE "free"

\* The limit with the burst of the tier: nothing, a half or as much again.
Burst(t) ==
    CASE t = "free" -> PerMinute[t]
      [] t = "pro" -> (PerMinute[t] * 3) \div 2
      [] t = "enterprise" -> PerMinute[t] * 2

Least(a, b) == IF a < b THEN a ELSE b
Effective == Least(FallbackLimit, PerMinute[TierOf(client)])

\* The clients that are counted: an unlimited one is let through unseen.
Counted == {c \in {ClientKey(r) : r \in Requests} : TierOf(c) # "unlimited"}

Sources == Instances \cup {"redis"}
Times == Window .. MaxTime

Init ==
    /\ client \in Counted
    /\ now = Window
    /\ window = {}
    /\ counter = [i \in Instances |-> None]
    /\ cleaned = [i \in Instances |-> now]
    /\ granted = [s \in Sources |-> <<>>]
    /\ collided = <<>>
    /\ awaited = None

\* The sliding window as it would be if it kept what is Window seconds old.
RecentOrEdge == {e \in window : e[1] >= now - Window}

Recent == {e \in window : e[1] > now - Window}
Earliest(S) == CHOOSE t \in {e[1] : e \in S} : \A e \in S : t <= e[1]

\* The script: what left the window is removed, and the request is added unless
\* the window is full.  A member of the same second and draw is replaced.
CheckRedis(draw) ==
    /\ window' = Recent \cup {<<now, draw>>}
    /\ Cardinality(Recent) < Burst(TierOf(client))
    /\ granted' = [granted EXCEPT !["redis"] = Append(@, now)]
    /\ IF <<now, draw>> \in Recent
       THEN Len(collided) < MaxCollisions /\ collided' = Append(collided, now)
       ELSE UNCHANGED collided
    /\ awaited' = None
    /\ UNCHANGED <<client, now, local>>

\* The window is full: the client is told when its oldest request leaves it.
DeniedByRedis ==
    /\ Cardinality(Recent) >= Burst(TierOf(client))
    /\ window' = Recent
    /\ awaited' = IF Recent = {} THEN now ELSE Earliest(Recent) + Window
    /\ UNCHANGED <<client, now, local, granted, collided>>

Expired(c) == c.start < now - Window

\* Redis fails, or there is none: the counter of the instance, dropped by the
\* clean-up or started anew once its window is over.
CheckLocal(i) ==
    /\ AllowOnRedisFailure
    /\ LET clean == now - cleaned[i] > CleanupEvery
           kept == IF clean /\ counter[i] # None /\ counter[i].start <= now - Window
                   THEN None ELSE counter[i]
           entry == IF kept = None THEN [count |-> 0, start |-> now]
                    ELSE IF Expired(kept) THEN [count |-> 0, start |-> now] ELSE kept
           allowed == entry.count < Effective
       IN /\ cleaned' = [cleaned EXCEPT ![i] = IF clean THEN now ELSE @]
          /\ counter' = [counter EXCEPT ![i] =
                 [entry EXCEPT !.count = IF allowed THEN @ + 1 ELSE @]]
          /\ granted' = IF allowed THEN [granted EXCEPT ![i] = Append(@, now)] ELSE granted
    /\ UNCHANGED <<client, now, window, collided, awaited>>

Tick ==
    /\ now < MaxTime
    /\ now' = now + 1
    /\ UNCHANGED <<client, window, local, granted, collided, awaited>>

Next ==
    \/ Tick
    \/ \E d \in Draws : CheckRedis(d)
    \/ DeniedByRedis
    \/ \E i \in Instances : CheckLocal(i)

Spec == Init /\ [][Next]_vars

-----------------------------------------------------------------------------
\* How many of some times are in the Window seconds up to t.
Within(times, t) ==
    Cardinality({k \in DOMAIN times : t - Window < times[k] /\ times[k] <= t})

\* In no Window seconds does Redis let more requests through than the burst
\* limit and the members it lost, nor an instance more than two windows of its
\* own hold, whatever the order of failures, clean-ups and seconds
\* (check_redis, check_local).
Bounded ==
    \A t \in Times :
        /\ Within(granted["redis"], t) <= Burst(TierOf(client)) + Within(collided, t)
        /\ \A i \in Instances : Within(granted[i], t) <= 2 * Effective

\* A client that Redis denied, and that comes back when it was told to, is let
\* in if it made no request in the meantime (reset_after of the script).
RetryHonoured ==
    awaited # None /\ now >= awaited /\ Burst(TierOf(client)) > 0 =>
        Cardinality(Recent) < Burst(TierOf(client))
=============================================================================
