---------------------------- MODULE Subscriptions ----------------------------
(***************************************************************************)
(* GraphQL subscriptions: the Kafka consumer of each API instance          *)
(* (kafka/consumer.rs), the broadcast channels of the instance             *)
(* (gql/context.rs) and the streams that filter them for the clients       *)
(* (gql/subscription.rs).  The instances share one consumer group, whose   *)
(* offsets are committed automatically; a channel keeps its last Capacity  *)
(* events, and a client that falls further behind skips the rest.          *)
(***************************************************************************)
EXTENDS Integers, Sequences, SequencesExt, FiniteSets

CONSTANTS
    Instances, Partitions,
    Log,            \* Log[p]: events [type, topic, payload, named, yanked, ecosystem, package, level]
    Subscribers,
    Filter,         \* Filter[s]: [field, ecosystem, package, level], None where absent
    Capacity,
    MaxFaults,
    None

Fields == {"newVersion", "packageEvents", "breakingChangeDetected", "dependencyImpact"}

SubscriptionsAssumption ==
    /\ IsFiniteSet(Subscribers) /\ \A s \in Subscribers : Filter[s].field \in Fields
    /\ None \notin Instances /\ None \notin Partitions \X Nat
    /\ Capacity \in Nat \ {0} /\ MaxFaults \in Nat

VARIABLES
    owner, position, committed,   \* of each partition, in the consumer group
    held,        \* the message an instance has received and not yet processed
    sent,        \* sent[i][ch]: what was broadcast on a channel
    at,          \* the instance a client is subscribed at, or None
    next,        \* how much of the channel the client has read or skipped
    got,         \* what the stream of the client has yielded
    since, skipped,   \* how much was sent when it subscribed; what it skipped since
    active,      \* active_subscriptions of each instance
    faults

group == <<owner, position, committed>>
client == <<at, next, got, since, skipped>>
vars == <<group, held, sent, client, active, faults>>

Channels == {"version", "breaking", "impact"}

\* process_message: the channel of an event, or None.  The types decide, and
\* the topic where the type is not known.
Route(e) ==
    CASE e.type = "upserted" -> "version"
      [] e.type = "breaking" -> "breaking"
      [] e.type = "impact" -> "impact"
      [] e.type \in {"yanked", "deleted"} -> None
      [] e.type = "unknown" ->
            IF e.topic = "breaking-changes" THEN "breaking"
            ELSE IF e.topic = "dependency-impact" THEN "impact" ELSE None

Parses(e) == e.payload = "json" \/ (e.payload = "protobuf" /\ Route(e) = "version")

\* What comes of it: payloads that do not parse, events without a name and the
\* yanked versions that protobuf tells are passed over.
VersionEvent(e) == Parses(e) /\ e.named /\ ~(e.payload = "protobuf" /\ e.yanked)
BreakingEvent(e) == Parses(e) /\ e.named
ImpactEvent(e) == Parses(e) /\ e.named

Broadcast(e) ==
    LET told == \/ Route(e) = "version" /\ VersionEvent(e)
                \/ Route(e) = "breaking" /\ BreakingEvent(e)
                \/ Route(e) = "impact" /\ ImpactEvent(e)
    IN IF told THEN Route(e) ELSE None

\* The channel that a field of SubscriptionRoot subscribes to.
ChannelOf(s) ==
    CASE Filter[s].field \in {"newVersion", "packageEvents"} -> "version"
      [] Filter[s].field = "breakingChangeDetected" -> "breaking"
      [] Filter[s].field = "dependencyImpact" -> "impact"

\* The filters of the fields: what the client names must match, and an event
\* of a level must reach the least one that it asks for.
OfEcosystem(s, e) == Filter[s].ecosystem \in {None, e.ecosystem}
OfPackage(s, e) == Filter[s].package \in {None, e.package}
Reaches(s, e) == Filter[s].level = None \/ Filter[s].level <= e.level

WantsVersion(s, e) == OfEcosystem(s, e) /\ OfPackage(s, e)
WantsBreaking(s, e) == OfEcosystem(s, e) /\ OfPackage(s, e) /\ Reaches(s, e)
WantsImpact(s, e) == OfEcosystem(s, e) /\ Reaches(s, e)
WantsOfPackage(s, e) == OfPackage(s, e)

Wants(s, e) ==
    CASE Filter[s].field = "newVersion" -> WantsVersion(s, e)
      [] Filter[s].field = "breakingChangeDetected" -> WantsBreaking(s, e)
      [] Filter[s].field = "dependencyImpact" -> WantsImpact(s, e)
      [] Filter[s].field = "packageEvents" -> WantsOfPackage(s, e)

At(i) == {s \in Subscribers : at[s] = i}
Receivers(i, ch) == {s \in At(i) : ChannelOf(s) = ch}

\* auto.offset.reset is latest: Log holds what comes after the start.
Init ==
    /\ owner \in [Partitions -> Instances]
    /\ position = [p \in Partitions |-> 0] /\ committed = [p \in Partitions |-> 0]
    /\ held = [i \in Instances |-> None]
    /\ sent = [i \in Instances |-> [ch \in Channels |-> <<>>]]
    /\ at = [s \in Subscribers |-> None]
    /\ next = [s \in Subscribers |-> 0] /\ got = [s \in Subscribers |-> <<>>]
    /\ since = [s \in Subscribers |-> 0] /\ skipped = [s \in Subscribers |-> {}]
    /\ active = [i \in Instances |-> 0]
    /\ faults = 0

Subscribe(s, i) ==
    /\ at[s] = None
    /\ at' = [at EXCEPT ![s] = i]
    /\ next' = [next EXCEPT ![s] = Len(sent[i][ChannelOf(s)])]
    /\ since' = [since EXCEPT ![s] = Len(sent[i][ChannelOf(s)])]
    /\ got' = [got EXCEPT ![s] = <<>>] /\ skipped' = [skipped EXCEPT ![s] = {}]
    /\ active' = [active EXCEPT ![i] = @ + 1]
    /\ UNCHANGED <<group, held, sent, faults>>

\* The stream is dropped, and its guard with it.
Unsubscribe(s) ==
    /\ at[s] # None
    /\ active' = [active EXCEPT ![at[s]] = @ - 1]
    /\ at' = [at EXCEPT ![s] = None]
    /\ UNCHANGED <<group, held, sent, next, got, since, skipped, faults>>

\* The consumer takes a message; from here on its offset may be committed.
Receive(i, p) ==
    /\ held[i] = None /\ owner[p] = i /\ position[p] < Len(Log[p])
    /\ position' = [position EXCEPT ![p] = @ + 1]
    /\ held' = [held EXCEPT ![i] = <<p, position[p] + 1>>]
    /\ UNCHANGED <<owner, committed, sent, client, active, faults>>

\* The automatic commit of an instance.
Commit(i) ==
    /\ committed' = [p \in Partitions |-> IF owner[p] = i THEN position[p] ELSE committed[p]]
    /\ committed' # committed
    /\ UNCHANGED <<owner, position, held, sent, client, active, faults>>

\* broadcast_event: an event without receivers is not sent.
Process(i) ==
    /\ held[i] # None
    /\ LET e == Log[held[i][1]][held[i][2]]
           ch == Broadcast(e)
       IN sent' = IF ch = None THEN sent
                  ELSE IF Receivers(i, ch) = {} THEN sent
                  ELSE [sent EXCEPT ![i][ch] = Append(@, held[i])]
    /\ held' = [held EXCEPT ![i] = None]
    /\ UNCHANGED <<group, client, active, faults>>

\* Oldest as it would be if the channel were one event shorter.
OldestLess(i, ch) ==
    IF Len(sent[i][ch]) > Capacity - 1 THEN Len(sent[i][ch]) - Capacity + 1 ELSE 0

\* The oldest event of a channel that is still there.
Oldest(i, ch) == IF Len(sent[i][ch]) > Capacity THEN Len(sent[i][ch]) - Capacity ELSE 0

\* The stream of a client is polled: after a lag it goes on with the oldest event.
Poll(s) ==
    /\ at[s] # None /\ next[s] < Len(sent[at[s]][ChannelOf(s)])
    /\ LET log == sent[at[s]][ChannelOf(s)]
           oldest == Oldest(at[s], ChannelOf(s))
       IN IF next[s] < oldest
          THEN /\ next' = [next EXCEPT ![s] = oldest]
               /\ skipped' = [skipped EXCEPT ![s] = @ \cup (next[s] + 1 .. oldest)]
               /\ UNCHANGED got
          ELSE LET r == log[next[s] + 1]
               IN /\ next' = [next EXCEPT ![s] = @ + 1]
                  /\ got' = IF Wants(s, Log[r[1]][r[2]])
                            THEN [got EXCEPT ![s] = Append(@, r)] ELSE got
                  /\ UNCHANGED skipped
    /\ UNCHANGED <<group, held, sent, at, since, active, faults>>

\* The group is rebalanced: the new owner starts at the committed offset.
Rebalance(p, i) ==
    /\ faults < MaxFaults /\ owner[p] # i
    /\ owner' = [owner EXCEPT ![p] = i]
    /\ position' = [position EXCEPT ![p] = committed[p]]
    /\ faults' = faults + 1
    /\ UNCHANGED <<committed, held, sent, client, active>>

\* An instance restarts: its clients are gone, and what it had not processed.
Restart(i) ==
    /\ faults < MaxFaults
    /\ held' = [held EXCEPT ![i] = None]
    /\ position' = [p \in Partitions |-> IF owner[p] = i THEN committed[p] ELSE position[p]]
    /\ sent' = [sent EXCEPT ![i] = [ch \in Channels |-> <<>>]]
    /\ at' = [s \in Subscribers |-> IF at[s] = i THEN None ELSE at[s]]
    /\ active' = [active EXCEPT ![i] = 0]
    /\ faults' = faults + 1
    /\ UNCHANGED <<owner, committed, next, got, since, skipped>>

Next ==
    \/ \E s \in Subscribers : (\E i \in Instances : Subscribe(s, i)) \/ Unsubscribe(s) \/ Poll(s)
    \/ \E i \in Instances : Commit(i) \/ Process(i) \/ Restart(i)
    \/ \E i \in Instances, p \in Partitions : Receive(i, p) \/ Rebalance(p, i)

Spec == Init /\ [][Next]_vars

-----------------------------------------------------------------------------
\* A client has been given, in order, just the events it wants of those that
\* its instance sent since it subscribed; it skipped some only while Capacity
\* newer ones were sent.
Filtered ==
    \A s \in Subscribers : at[s] # None =>
        LET log == sent[at[s]][ChannelOf(s)]
            read == {n \in since[s] + 1 .. next[s] : n \notin skipped[s]}
            wanted == {n \in read : Wants(s, Log[log[n][1]][log[n][2]])}
        IN /\ got[s] = [k \in 1 .. Cardinality(wanted) |->
                           log[CHOOSE n \in wanted :
                                  Cardinality({m \in wanted : m <= n}) = k]]
           /\ \A n \in skipped[s] : n <= Len(log) - Capacity

\* A client sees an event once, and once more at most for each rebalance or
\* restart, although the offset is committed on its own schedule.
SeenOnce ==
    \A s \in Subscribers : \A r \in ToSet(got[s]) :
        Cardinality({k \in DOMAIN got[s] : got[s][k] = r}) <= 1 + faults

\* active_subscriptions is the number of streams that are open (live_stats
\* reports it), however they end.
GuardsCounted == \A i \in Instances : active[i] = Cardinality(At(i))
=============================================================================
