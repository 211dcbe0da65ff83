---------------------------- MODULE VectorWriter ----------------------------
(***************************************************************************)
(* The vector writer (apps/vector-writer): one task reads the analysis     *)
(* topic, collects the vectors of the embedding events in a batch, commits *)
(* each offset as it goes, and flushes the batch to Qdrant when it is full *)
(* or old; what Qdrant refuses for good goes to the dead letters.          *)
(***************************************************************************)
EXTENDS Integers, Sequences, FiniteSets, SequencesExt, FiniteSetsExt

CONSTANTS
    Topic,       \* the events: the sequence of the symbols in each, None for
                 \* one of another type or that does not parse
    Symbols,     \* point ids: package, version and symbol
    None,
    BatchSize,   \* batch_size of the consumer
    MaxRetries,  \* qdrant.max_retries: attempts of an upsert
    MaxFaults    \* bound on refused upserts and dead letters, crashes, shutdowns

ASSUME VectorWriterAssumption ==
    /\ Topic \in Seq(Seq(Symbols) \cup {None})
    /\ BatchSize \in Nat \ {0} /\ MaxRetries \in Nat \ {0} /\ MaxFaults \in Nat

VARIABLES
    mode,      \* "up", "stopping" (flushes and ends) or "down"
    pos,       \* messages received
    asked,     \* offset asked to commit, asynchronously
    since,     \* offset the process started at
    batch,     \* points in memory: symbol and message
    due,       \* the flush interval has elapsed
    flight,    \* the points of the flush under way
    attempt,   \* its failed attempts, MaxRetries once they go to the dead letters
    stored,    \* Qdrant: the message whose vector a symbol has, 0 if none
    kept,      \* points upserted so far
    dead,      \* points in the dead letters
    lost,      \* points that neither Qdrant nor the dead letters have
    crashes,
    refused,   \* dead letters that could not be sent
    faults

service == <<batch, due, flight, attempt>>
outcome == <<stored, kept, dead, lost>>
failures == <<crashes, refused>>
vars == <<mode, pos, asked, since, service, outcome, failures, faults>>

\* The vectors that a message adds to the batch, none if it has no symbols.
PointsOf(i) ==
    IF Topic[i] = None THEN <<>>
    ELSE [k \in DOMAIN Topic[i] |-> [symbol |-> Topic[i][k], msg |-> i]]
Points == [symbol : Symbols, msg : DOMAIN Topic]
WidestEvent == Max({0} \cup {Len(PointsOf(i)) : i \in DOMAIN Topic})

Init ==
    /\ mode = "up"
    /\ pos = 0 /\ asked = 0 /\ since = 0
    /\ batch = <<>> /\ due = FALSE /\ flight = <<>> /\ attempt = 0
    /\ stored = [s \in Symbols |-> 0]
    /\ kept = {} /\ dead = {} /\ lost = {}
    /\ crashes = 0 /\ refused = 0 /\ faults = 0

Fault == faults < MaxFaults /\ faults' = faults + 1
Flushing == flight # <<>>

-----------------------------------------------------------------------------
\* The commit is asked for whatever the message was; a refused one is logged.
Receive ==
    /\ mode = "up" /\ ~Flushing /\ pos < Len(Topic) /\ Len(batch) < BatchSize
    /\ pos' = pos + 1
    /\ \/ asked' = pos + 1 /\ UNCHANGED faults
       \/ Fault /\ UNCHANGED asked
    /\ batch' = batch \o PointsOf(pos + 1)
    /\ UNCHANGED <<mode, since, due, flight, attempt, outcome, failures>>

FlushIntervalElapsed ==
    /\ mode = "up" /\ ~due
    /\ due' = TRUE
    /\ UNCHANGED <<mode, pos, asked, since, batch, flight, attempt, outcome, failures,
                   faults>>

FlushFull ==
    /\ mode # "down" /\ ~Flushing /\ batch # <<>>
    /\ Len(batch) >= BatchSize \/ mode = "stopping"
    /\ flight' = batch /\ batch' = <<>> /\ attempt' = 0
    /\ UNCHANGED <<mode, pos, asked, since, due, outcome, failures, faults>>

\* The batch is full, or old, or the service stops.
Flush ==
    /\ mode # "down" /\ ~Flushing /\ batch # <<>>
    /\ Len(batch) >= BatchSize \/ due \/ mode = "stopping"
    /\ flight' = batch /\ batch' = <<>> /\ attempt' = 0
    /\ UNCHANGED <<mode, pos, asked, since, due, outcome, failures, faults>>

\* The last point of each id in the batch is the one that Qdrant has.
Written(s) == {k \in DOMAIN flight : flight[k].symbol = s}

FlushDone == flight' = <<>> /\ attempt' = 0 /\ due' = FALSE

\* Upsert as it would be if the first point of each id were kept.
UpsertFirst ==
    /\ Flushing /\ attempt < MaxRetries
    /\ stored' = [s \in Symbols |-> IF Written(s) = {} THEN stored[s]
                                    ELSE flight[Min(Written(s))].msg]
    /\ kept' = kept \cup ToSet(flight)
    /\ FlushDone
    /\ UNCHANGED <<mode, pos, asked, since, batch, dead, lost, failures, faults>>

Upsert ==
    /\ Flushing /\ attempt < MaxRetries
    /\ stored' = [s \in Symbols |-> IF Written(s) = {} THEN stored[s]
                                    ELSE flight[Max(Written(s))].msg]
    /\ kept' = kept \cup ToSet(flight)
    /\ FlushDone
    /\ UNCHANGED <<mode, pos, asked, since, batch, dead, lost, failures, faults>>

\* A refused attempt is repeated after a delay, up to max_retries in all.
UpsertFails ==
    /\ Flushing /\ attempt < MaxRetries
    /\ Fault
    /\ attempt' = attempt + 1
    /\ UNCHANGED <<mode, pos, asked, since, batch, due, flight, outcome, failures>>

\* DeadLetter as it would be if the first refusal ended the loop.
DeadLetterAborts ==
    /\ Flushing /\ attempt = MaxRetries
    /\ \/ /\ dead' = dead \cup ToSet(flight)
          /\ UNCHANGED <<lost, refused, faults>>
       \/ /\ Fault
          /\ lost' = lost \cup ToSet(flight)
          /\ refused' = refused + 1
          /\ UNCHANGED dead
    /\ FlushDone
    /\ UNCHANGED <<mode, pos, asked, since, batch, stored, kept, crashes>>

\* The points go to the dead letters one by one; a refused one is lost.
DeadLetter ==
    /\ Flushing /\ attempt = MaxRetries
    /\ \/ /\ dead' = dead \cup {Head(flight)}
          /\ UNCHANGED <<lost, refused, faults>>
       \/ /\ Fault
          /\ lost' = lost \cup {Head(flight)}
          /\ refused' = refused + 1
          /\ UNCHANGED dead
    /\ IF Len(flight) = 1 THEN FlushDone
       ELSE flight' = Tail(flight) /\ UNCHANGED <<attempt, due>>
    /\ UNCHANGED <<mode, pos, asked, since, batch, stored, kept, crashes>>

-----------------------------------------------------------------------------
Shutdown ==
    /\ mode = "up"
    /\ Fault
    /\ mode' = "stopping"
    /\ UNCHANGED <<pos, asked, since, service, outcome, failures>>

\* Memory is gone; the group goes on from the offset the broker has.
Halt(offset) ==
    /\ mode' = "down"
    /\ pos' = offset /\ asked' = offset /\ since' = offset
    /\ lost' = lost \cup {q \in ToSet(batch \o flight) : q.msg <= offset}
    /\ batch' = <<>> /\ due' = FALSE /\ flight' = <<>> /\ attempt' = 0
    /\ UNCHANGED <<stored, kept, dead>>

\* The consumer ended.
Stop ==
    /\ mode = "stopping" /\ batch = <<>> /\ ~Flushing
    /\ Halt(asked)
    /\ UNCHANGED <<failures, faults>>

\* A crash, or a flush longer than the 30 s that a shutdown waits; the broker
\* has any of the offsets asked for.
Crash ==
    /\ mode # "down"
    /\ Fault
    /\ \E offset \in since .. asked : Halt(offset)
    /\ crashes' = crashes + 1
    /\ UNCHANGED refused

Restart ==
    /\ mode = "down"
    /\ mode' = "up"
    /\ UNCHANGED <<pos, asked, since, service, outcome, failures, faults>>

Next ==
    \/ Receive \/ FlushIntervalElapsed \/ Flush \/ Upsert \/ UpsertFails \/ DeadLetter
    \/ Shutdown \/ Stop \/ Crash \/ Restart

Spec == Init /\ [][Next]_vars

\* The loop of the task, its timer, Qdrant's answers and the supervisor.
FairSpec ==
    /\ Spec
    /\ WF_vars(Receive) /\ WF_vars(FlushIntervalElapsed) /\ WF_vars(Flush)
    /\ WF_vars(Upsert \/ DeadLetter) /\ WF_vars(Stop) /\ WF_vars(Restart)

-----------------------------------------------------------------------------
\* The variables have their types; a batch exceeds its size by one event.
TypeOK ==
    /\ mode \in {"up", "stopping", "down"}
    /\ since \in 0 .. asked /\ asked \in 0 .. pos /\ pos \in 0 .. Len(Topic)
    /\ ToSet(batch) \cup ToSet(flight) \subseteq Points
    /\ Len(batch) <= BatchSize - 1 + WidestEvent
    /\ due \in BOOLEAN /\ attempt \in 0 .. MaxRetries
    /\ stored \in [Symbols -> 0 .. Len(Topic)]
    /\ kept \cup dead \cup lost \subseteq Points
    /\ crashes \in 0 .. MaxFaults /\ refused \in 0 .. MaxFaults /\ faults \in 0 .. MaxFaults

\* Every vector received is in the batch, being flushed, upserted, a dead letter
\* or lost to a crash or a refused dead letter (consumer.rs: flush_batch).
Accounted ==
    \A i \in 1 .. pos :
        ToSet(PointsOf(i)) \subseteq ToSet(batch \o flight) \cup kept \cup dead \cup lost

\* The offset is committed before the flush, so a crash loses vectors: one
\* batch at most for each crash, and one vector for each dead letter refused
\* (consumer.rs: the commit follows the push).
OneBatchLost ==
    Cardinality(lost) <= crashes * (BatchSize - 1 + WidestEvent) + refused

\* The types, and the account of the vectors.
Inv == TypeOK /\ Accounted /\ OneBatchLost

\* A symbol goes back to an older vector only when that was read again after a
\* restart, and the process has not come to the newer one again yet
\* (writer.rs: the flushes, and the points in one, keep the topic's order).
NeverBackwards ==
    [][\A s \in Symbols : stored'[s] < stored[s] =>
                            since < stored'[s] /\ pos < stored[s]]_vars

\* In the end Qdrant has the last vector of each symbol, or that one is a dead
\* letter or lost.
Delivered ==
    <>[](\A s \in Symbols :
            LET latest == Max({0} \cup {i \in DOMAIN Topic : s \in {q.symbol : q \in ToSet(PointsOf(i))}})
            IN stored[s] = latest \/ [symbol |-> s, msg |-> latest] \in dead \cup lost)
=============================================================================
