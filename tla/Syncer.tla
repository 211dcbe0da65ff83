------------------------------- MODULE Syncer -------------------------------
(***************************************************************************)
(* The syncer (apps/syncer): one task polls the views of RisingWave for    *)
(* the rows updated since its cursors, another collects them in batches    *)
(* and writes them to Memgraph (packages, then dependencies) and Qdrant    *)
(* (embeddings).  Nothing is persisted: a process that ends, as it does on *)
(* any error of a query, starts again from the first row.                  *)
(*                                                                         *)
(* A row is told apart from its earlier contents by its updated_at.  The   *)
(* capacity of the channel (10000) only delays the polling task and is     *)
(* left out.                                                               *)
(***************************************************************************)
EXTENDS Integers, Sequences, FiniteSets, SequencesExt, FiniteSetsExt

CONSTANTS
    Packages,
    Dependents,    \* packages that depend on all the others
    Embedded,      \* packages with an embedding
    Limit,         \* LIMIT of the queries
    BatchSize,     \* memgraph.batch_size
    MaxRetries,    \* sync.max_retries: attempts of a flush
    MaxClock,      \* bound on updated_at
    MaxChanges,    \* bound on the changes of a row
    MaxFaults      \* bound on failed writes, missing views and crashes

ASSUME SyncerAssumption ==
    /\ Dependents \subseteq Packages /\ Embedded \subseteq Packages
    /\ Limit \in Nat \ {0} /\ BatchSize \in Nat \ {0} /\ MaxRetries \in Nat \ {0}
    /\ MaxClock \in Nat \ {0} /\ MaxChanges \in Nat /\ MaxFaults \in Nat

VARIABLES
    clock, changes,
    view,     \* updated_at of each row of the views, 0 while it has none
    cursor,   \* last_package_sync, last_dependency_sync, last_embedding_sync
    stage,    \* the view to fetch next, "complete" after the last one
    some,     \* the poll under way has fetched something
    channel,  \* rows, and the ends of polls
    batch,    \* what each sink is to be sent, in order
    sink,     \* updated_at of each row as Memgraph and Qdrant have it
    writing,  \* the sink that is being flushed, or "none"
    attempt,
    missed,   \* rows the cursor passed without fetching them
    dropped,  \* rows given up after the last attempt, or without their packages
    faults

source == <<clock, changes, view>>
stream == <<cursor, stage, some>>
flushing == <<writing, attempt>>
vars == <<source, stream, channel, batch, sink, flushing, missed, dropped, faults>>

Dependencies == {d \in Dependents \X Packages : d[1] # d[2]}

Streams == {"packages", "dependencies", "embeddings"}
Rows == ({"packages"} \X Packages) \cup ({"dependencies"} \X Dependencies)
            \cup ({"embeddings"} \X Embedded)
Sinks == {"graph", "vector"}
SinkOf(r) == IF r[1] = "embeddings" THEN "vector" ELSE "graph"
EndOfPoll == <<<<"end">>, 0>>

Init ==
    /\ clock = 1 /\ changes = 0
    /\ view = [r \in Rows |-> 0]
    /\ cursor = [s \in Streams |-> 0]
    /\ stage = "packages" /\ some = FALSE
    /\ channel = <<>>
    /\ batch = [k \in Sinks |-> <<>>]
    /\ sink = [r \in Rows |-> 0]
    /\ writing = "none" /\ attempt = 0
    /\ missed = {} /\ dropped = {}
    /\ faults = 0

Fault == faults < MaxFaults /\ faults' = faults + 1

-----------------------------------------------------------------------------
(* The views.                                                              *)

Tick ==
    /\ clock < MaxClock
    /\ clock' = clock + 1
    /\ UNCHANGED <<changes, view, stream, channel, batch, sink, flushing, missed,
                   dropped, faults>>

\* A row is written at the time of the cursor when that was reached already.
Change(r) ==
    /\ changes < MaxChanges /\ view[r] < clock
    /\ view' = [view EXCEPT ![r] = clock]
    /\ changes' = changes + 1
    /\ missed' = IF clock <= cursor[r[1]] THEN missed \cup {r} ELSE missed \ {r}
    /\ UNCHANGED <<clock, stream, channel, batch, sink, flushing, dropped, faults>>

-----------------------------------------------------------------------------
(* The polling task: fetch_updated_packages, _dependencies, _embeddings.   *)

After == [packages |-> "dependencies", dependencies |-> "embeddings",
          embeddings |-> "complete"]

Updated(s) == {r \in Rows : r[1] = s /\ view[r] > cursor[s]}

\* ORDER BY updated_at LIMIT n: none that is left out is older; ties in no order.
Fetched(s) ==
    {rows \in UNION {[1 .. n -> Updated(s)] : n \in 0 .. Limit} :
        /\ \A j, k \in DOMAIN rows :
              j < k => rows[j] # rows[k] /\ view[rows[j]] <= view[rows[k]]
        /\ \A r \in Updated(s) \ ToSet(rows) :
              Len(rows) = Limit /\ view[r] >= view[Last(rows)]}

Fetch(s) ==
    /\ stage = s
    /\ \E rows \in Fetched(s) :
        LET upto == IF rows = <<>> THEN cursor[s] ELSE view[Last(rows)]
        IN /\ channel' = channel \o [k \in DOMAIN rows |-> <<rows[k], view[rows[k]]>>]
           /\ cursor' = [cursor EXCEPT ![s] = upto]
           /\ some' = (some \/ rows # <<>>)
           /\ missed' = (missed \ ToSet(rows)) \cup
                        {r \in Updated(s) \ ToSet(rows) : view[r] <= upto}
    /\ stage' = After[s]
    /\ UNCHANGED <<source, batch, sink, flushing, dropped, faults>>

\* A view that does not exist yet has no rows.
Unavailable ==
    /\ stage # "complete"
    /\ Fault
    /\ stage' = After[stage]
    /\ UNCHANGED <<source, cursor, some, channel, batch, sink, flushing, missed, dropped>>

\* EndPoll as it would be without BatchComplete.
EndPollQuiet ==
    /\ stage = "complete"
    /\ stage' = "packages" /\ some' = FALSE
    /\ UNCHANGED <<source, cursor, channel, batch, sink, flushing, missed, dropped, faults>>

EndPoll ==
    /\ stage = "complete"
    /\ channel' = IF some THEN Append(channel, EndOfPoll) ELSE channel
    /\ stage' = "packages" /\ some' = FALSE
    /\ UNCHANGED <<source, cursor, batch, sink, flushing, missed, dropped, faults>>

-----------------------------------------------------------------------------
(* The sync task.                                                          *)

\* A full batch is flushed before anything else is received.
Receive ==
    /\ writing = "none" /\ channel # <<>> /\ Head(channel) # EndOfPoll
    /\ LET k == SinkOf(Head(channel)[1])
       IN /\ batch' = [batch EXCEPT ![k] = Append(@, Head(channel))]
          /\ writing' = IF Len(batch[k]) + 1 >= BatchSize THEN k ELSE "none"
    /\ channel' = Tail(channel)
    /\ UNCHANGED <<source, stream, sink, attempt, missed, dropped, faults>>

\* The end of a poll flushes the graph, then the vectors.
ReceiveEnd ==
    /\ writing = "none" /\ channel # <<>> /\ Head(channel) = EndOfPoll
    /\ IF \A k \in Sinks : batch[k] = <<>>
       THEN channel' = Tail(channel) /\ UNCHANGED writing
       ELSE /\ writing' = IF batch["graph"] # <<>> THEN "graph" ELSE "vector"
            /\ UNCHANGED channel
    /\ UNCHANGED <<source, stream, batch, sink, attempt, missed, dropped, faults>>

\* The writes of a flush in order: the packages, then the dependencies.
Before(b, i, j) ==
    \/ b[i][1][1] = "packages" /\ b[j][1][1] = "dependencies"
    \/ b[i][1][1] = b[j][1][1] /\ i < j

\* What a flush has written at any moment: with a write, all before it.
Written(b) ==
    {D \in SUBSET DOMAIN b : \A j \in D, i \in DOMAIN b : Before(b, i, j) => i \in D}

\* MATCH: a dependency whose packages are not in the graph is not written.
Applies(r, now) ==
    r[1] = "dependencies" =>
        \A p \in {r[2][1], r[2][2]} : now[<<"packages", p>>] # 0

\* The last of the writes D of the batch b to the row r.
LastOf(b, D, r) == Max({i \in D : b[i][1] = r})

\* The sinks after the writes D of the batch b: the packages are there first.
Apply(b, D) ==
    LET now == [r \in Rows |-> IF \E i \in D : b[i][1] = r
                               THEN b[LastOf(b, D, r)][2] ELSE sink[r]]
    IN [r \in Rows |-> IF Applies(r, now) THEN now[r] ELSE sink[r]]

Flush ==
    /\ writing # "none"
    /\ sink' = Apply(batch[writing], DOMAIN batch[writing])
    /\ dropped' = (dropped \ {w[1] : w \in ToSet(batch[writing])}) \cup
                  {r \in Rows : \E w \in ToSet(batch[writing]) :
                                    w[1] = r /\ ~Applies(r, sink')}
    /\ batch' = [batch EXCEPT ![writing] = <<>>]
    /\ writing' = "none" /\ attempt' = 0
    /\ UNCHANGED <<source, stream, channel, missed, faults>>

\* FlushFails as it would be if what could not be written were queued again.
FlushRequeues ==
    /\ writing # "none"
    /\ Fault
    /\ channel' = channel \o batch[writing]
    /\ batch' = [batch EXCEPT ![writing] = <<>>]
    /\ writing' = "none" /\ attempt' = 0
    /\ UNCHANGED <<source, stream, sink, missed, dropped>>

\* The writes up to the one that fails are made; after the last attempt the
\* batch is cleared all the same.
FlushFails ==
    /\ writing # "none"
    /\ Fault
    /\ \E D \in Written(batch[writing]) \ {DOMAIN batch[writing]} :
          sink' = Apply(batch[writing], D)
    /\ IF attempt + 1 < MaxRetries
       THEN attempt' = attempt + 1 /\ UNCHANGED <<batch, writing, dropped>>
       ELSE /\ dropped' = dropped \cup {w[1] : w \in ToSet(batch[writing])}
            /\ batch' = [batch EXCEPT ![writing] = <<>>]
            /\ writing' = "none" /\ attempt' = 0
    /\ UNCHANGED <<source, stream, channel, missed>>

-----------------------------------------------------------------------------
\* Restart as it would be if the cursors were persisted when rows are fetched.
RestartResumes ==
    /\ Fault
    /\ stage' = "packages" /\ some' = FALSE
    /\ channel' = <<>> /\ batch' = [k \in Sinks |-> <<>>]
    /\ writing' = "none" /\ attempt' = 0
    /\ UNCHANGED <<source, cursor, sink, missed, dropped>>

\* A failed query ends the polling task and with it the process; the next one
\* starts from DateTime::MIN_UTC.
Restart ==
    /\ Fault
    /\ cursor' = [s \in Streams |-> 0]
    /\ stage' = "packages" /\ some' = FALSE
    /\ channel' = <<>> /\ batch' = [k \in Sinks |-> <<>>]
    /\ writing' = "none" /\ attempt' = 0
    /\ missed' = {} /\ dropped' = {}
    /\ UNCHANGED <<source, sink>>

Next ==
    \/ Tick \/ \E r \in Rows : Change(r)
    \/ (\E s \in Streams : Fetch(s)) \/ Unavailable \/ EndPoll
    \/ Receive \/ ReceiveEnd \/ Flush \/ FlushFails
    \/ Restart

Spec == Init /\ [][Next]_vars

\* The two tasks run, and Memgraph and Qdrant answer.
FairSpec ==
    /\ Spec
    /\ WF_vars((\E s \in Streams : Fetch(s)) \/ EndPoll)
    /\ WF_vars(Receive \/ ReceiveEnd \/ Flush)

-----------------------------------------------------------------------------
\* The rows on their way, with what they are to become.
Pending == (UNION {ToSet(batch[k]) : k \in Sinks}) \cup (ToSet(channel) \ {EndOfPoll})
Waiting == {w[1] : w \in Pending}

\* The variables have their types; a batch holds less than its size but while
\* it is flushed.
TypeOK ==
    /\ clock \in 1 .. MaxClock /\ changes \in 0 .. MaxChanges
    /\ view \in [Rows -> 0 .. clock] /\ sink \in [Rows -> 0 .. clock]
    /\ cursor \in [Streams -> 0 .. clock]
    /\ stage \in Streams \cup {"complete"} /\ some \in BOOLEAN
    /\ channel \in Seq((Rows \X (1 .. clock)) \cup {EndOfPoll})
    /\ batch \in [Sinks -> Seq(Rows \X (1 .. clock))]
    /\ \A k \in Sinks : /\ Len(batch[k]) < BatchSize \/ writing = k
                        /\ Len(batch[k]) <= BatchSize
    /\ writing \in Sinks \cup {"none"} /\ attempt \in 0 .. MaxRetries - 1
    /\ missed \cup dropped \subseteq Rows
    /\ faults \in 0 .. MaxFaults

\* A row that the cursor has passed is in the sink as the view has it, on its
\* way, missed (same updated_at as the cursor: risingwave_source.rs) or dropped
\* by a flush (main.rs, memgraph_sink.rs); after a restart the polls start anew.
CursorCovered ==
    \A r \in Rows : 0 < view[r] /\ view[r] <= cursor[r[1]] =>
        sink[r] = view[r] \/ r \in Waiting \cup missed \cup dropped

\* The types, and the rows that the cursor has passed.
Inv == TypeOK /\ CursorCovered

\* A sink never goes back to an older content, through batches, partial flushes,
\* retries and restarts.
NeverBackwards == [][\A r \in Rows : sink'[r] >= sink[r]]_vars

\* Once the views are at rest every row reaches its sink, but for those missed
\* or dropped since the last restart.
Follows ==
    <>[](\A r \in Rows : sink[r] = view[r] \/ r \in missed \cup dropped)
=============================================================================
