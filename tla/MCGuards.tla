------------------------------ MODULE MCGuards ------------------------------
(***************************************************************************)
(* The components that guard the API and the databases, side by side: the  *)
(* rate limiter, the limits of WebSockets, the enhanced circuit breaker,   *)
(* the retries with the bulkhead, and the subscriptions.  They share       *)
(* nothing, so a behaviour exercises one of them, the one of guard.        *)
(***************************************************************************)
EXTENDS Integers, Sequences

CONSTANTS
    None,
    \* RateLimit
    RateInstances, Requests, TierOfKey, PerMinute, RateWindow, FallbackLimit,
    AllowOnRedisFailure, CleanupEvery, Draws, MaxTime, MaxCollisions,
    \* WsLimit
    Connections, IpOf, MaxConnectionsPerIp, MaxSubscriptions, MaxMessages,
    MessageWindow, MaxIdle, MaxForgets,
    \* EnhancedBreaker
    BreakerCallers, FailurePercent, BreakerSuccesses, MinRequests, BreakerSlots,
    OpenTime, ErrorWindow, MaxRecent, MaxDropped,
    \* Resilience
    BulkheadCallers, BulkheadPermits, MaxRetries, BaseDelay, MaxDelay,
    \* Subscriptions
    ApiInstances, EventPartitions, EventLog, Subscribers, Filter, Capacity, MaxApiFaults

VARIABLES
    guard,
    client, now, window, counter, cleaned, granted, collided, awaited,
    phase, wsState, connected, subs, forgets,
    breakerState, opened, trials, concurrent, recent, breakerPc, healthy, dropped, leaked,
    permits, waiting, callPc, attempt, delay,
    owner, position, committed, held, sent, at, next, got, since, skipped, active, faults

rateVars == <<client, now, window, counter, cleaned, granted, collided, awaited>>
wsVars == <<phase, wsState, connected, subs, forgets>>
breakerVars == <<breakerState, opened, trials, concurrent, recent, breakerPc, healthy, dropped,
                 leaked>>
callVars == <<permits, waiting, callPc, attempt, delay>>
subscriptionVars == <<owner, position, committed, held, sent, at, next, got, since, skipped,
                      active, faults>>

Rate == INSTANCE RateLimit WITH Instances <- RateInstances, Window <- RateWindow

Ws == INSTANCE WsLimit WITH state <- wsState, Window <- MessageWindow

Breaker == INSTANCE EnhancedBreaker WITH
    Callers <- BreakerCallers, SuccessThreshold <- BreakerSuccesses,
    MaxConcurrent <- BreakerSlots, Timeout <- OpenTime, WindowSize <- ErrorWindow,
    MaxDrops <- MaxDropped, state <- breakerState, successes <- trials, pc <- breakerPc,
    drops <- dropped

Calls == INSTANCE Resilience WITH
    Callers <- BulkheadCallers, MaxConcurrent <- BulkheadPermits, pc <- callPc

Subscription == INSTANCE Subscriptions WITH
    Instances <- ApiInstances, Partitions <- EventPartitions, Log <- EventLog,
    MaxFaults <- MaxApiFaults

\* The sizes that the configuration may have (see each module).
ASSUME GuardsAssumption ==
    /\ Rate!LimitsAssumption /\ Ws!WsLimitsAssumption /\ Breaker!EnhancedAssumption
    /\ Calls!ResilienceAssumption /\ Subscription!SubscriptionsAssumption

GuardsInit ==
    /\ guard \in {"rate", "ws", "breaker", "calls", "subscriptions"}
    /\ Rate!Init /\ Ws!Init /\ Breaker!Init /\ Calls!Init /\ Subscription!Init
    \* Choices of the initial state of a guard that is not exercised.
    /\ guard # "rate" => client = CHOOSE c \in Rate!Counted : TRUE
    /\ guard # "subscriptions" => owner = CHOOSE o \in [EventPartitions -> ApiInstances] : TRUE

RateNext == guard = "rate" /\ Rate!Next
              /\ UNCHANGED <<guard, wsVars, breakerVars, callVars, subscriptionVars>>
WsNext == guard = "ws" /\ Ws!Next
              /\ UNCHANGED <<guard, rateVars, breakerVars, callVars, subscriptionVars>>
BreakerNext == guard = "breaker" /\ Breaker!Next
              /\ UNCHANGED <<guard, rateVars, wsVars, callVars, subscriptionVars>>
CallsNext == guard = "calls" /\ Calls!Next
              /\ UNCHANGED <<guard, rateVars, wsVars, breakerVars, subscriptionVars>>
SubscriptionNext == guard = "subscriptions" /\ Subscription!Next
              /\ UNCHANGED <<guard, rateVars, wsVars, breakerVars, callVars>>

GuardsNext == RateNext \/ WsNext \/ BreakerNext \/ CallsNext \/ SubscriptionNext

guardVars == <<guard, rateVars, wsVars, breakerVars, callVars, subscriptionVars>>

GuardsSpec == GuardsInit /\ [][GuardsNext]_guardVars

\* Tasks are scheduled, timers fire, and the service heals.  Callers that are
\* let in again and again do not for ever meet in the two instructions between
\* which try_acquire counts a call too many.
GuardsFairSpec ==
    /\ GuardsSpec
    /\ \A c \in BreakerCallers : WF_guardVars(BreakerNext /\ Breaker!Step(c))
    /\ \A c \in BreakerCallers :
          /\ SF_guardVars(BreakerNext /\ Breaker!At("giveBack") = {c} /\ Breaker!GiveBack(c))
          /\ SF_guardVars(BreakerNext /\ concurrent = 0 /\ Breaker!Acquire(c))
    /\ WF_guardVars(BreakerNext /\ Breaker!Tick) /\ WF_guardVars(BreakerNext /\ Breaker!Heal)
    /\ \A c \in BulkheadCallers : WF_guardVars(CallsNext /\ Calls!Step(c))

-----------------------------------------------------------------------------
\* What a limiter grants stays within the limit of any window, and whom it
\* denied it lets in when it said so (distributed_rate_limit.rs).
LimitsKept == guard = "rate" => Rate!Bounded /\ Rate!RetryHonoured

\* Every counter and semaphore that bounds what is held counts what is held,
\* through interleavings, time-outs and dropped calls (ws_rate_limit.rs,
\* enhanced_circuit_breaker.rs, bulkhead.rs).
HeldCounted ==
    /\ guard = "ws" => Ws!ConnectionsCounted /\ Ws!SubscriptionsBounded
    /\ guard = "breaker" => Breaker!SlotsCounted /\ Breaker!Dated
    /\ guard = "calls" => Calls!PermitsKept /\ Calls!AttemptsBounded

\* A client of a subscription is given what it wants of what was sent, in order
\* and once, but for what a lag, a rebalance or a restart does to it.
StreamsKept ==
    guard = "subscriptions" =>
        Subscription!Filtered /\ Subscription!SeenOnce /\ Subscription!GuardsCounted

\* Once the service has healed the enhanced breaker closes for good, unless
\* dropped calls took all its slots; and every call of with_resilience returns.
GuardsRecover ==
    /\ guard = "breaker" ~> [](Breaker!Recovered)
    /\ guard = "calls" ~> (\A c \in BulkheadCallers : Calls!Returned(c))

-----------------------------------------------------------------------------
(* The instances of the configuration.                                     *)

Header(apiKey, forwarded, realIp) == [apiKey |-> apiKey, forwarded |-> forwarded, realIp |-> realIp]
Headers == {Header(None, "proxy", None), Header("key", "proxy", None), Header(None, None, None)}
KeyOfPro == [k \in {"key"} |-> "pro"]
LimitsOfTiers == [free |-> 1, pro |-> 2, enterprise |-> 2]

OneAddress == [c \in Connections |-> "address"]

Event(ecosystem, payload) ==
    [type |-> "upserted", topic |-> "versions", payload |-> payload, named |-> TRUE,
     yanked |-> FALSE, ecosystem |-> ecosystem, package |-> "serde", level |-> 0]
Upserts == <<Event("cargo", "protobuf"), Event("npm", "json"), Event("cargo", "json")>>
LogOfUpserts == [q \in EventPartitions |-> Upserts]
NewVersions == [s \in Subscribers |->
                   [field |-> "newVersion", ecosystem |-> "cargo", package |-> "serde", level |-> None]]
=============================================================================
