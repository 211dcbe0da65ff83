----------------------------- MODULE ServiceWork -----------------------------
(***************************************************************************)
(* What the services take in, hand on and keep in small stores, side by    *)
(* side: a behaviour exercises one of them, the one of area.  The analysis *)
(* service reads archives, compares dependencies and embeds texts; the API *)
(* keeps an audit trail, converses with a model, embeds searches and       *)
(* streams results; and the crate models keeps an audit log in memory.     *)
(***************************************************************************)
EXTENDS Integers, Sequences, FiniteSets

CONSTANTS
    None,
    \* archives (see Archive)
    PackedFiles, SourceExtensions, MaxBytes, MaxFileSize, MaxFiles, MaxUnpackedSize, MaxPacked,
    \* releases (Prediction)
    Releases, DependencyVersions, MaxReleaseChanges,
    \* embeddings (Embedder)
    EmbedTasks, EmbedTexts, EmbedBatches, EmbedBatchSize, EmbedCacheSize, MaxEmbedCalls,
    TextTokens, ModelNames, Junk, MaxLength, MaxTexts, MaxTokens,
    \* the audit trail (AuditTrail) and its pages
    LoggedEntries, BufferSize, InsertSize, MaxLogged, MaxResults,
    \* the security agent (SecurityAgent)
    Answers, Outcomes, MaxSteps,
    \* searches (QueryEmbedder)
    Searches, SearchTexts, Providers, Dimension, Dimensions, SearchRetries, SearchCacheSize,
    CacheTtl, MaxSearches, MaxSearchTime,
    \* streams (ResultStream)
    StreamRows, Maxima, BatchItems, ChannelSize,
    \* the audit log (AuditLog)
    AuditTasks, EventTypes, Levels, MaxSize, MaxEvents

VARIABLES
    area,
    entries, read, inspected, results, reading,
    release, changes,
    vectors, calls,
    batch, models, default, stats,
    queue, pending, inserting, audit_log, clock, metrics, restarts,
    phase, step, calls_left, responses, conversation, taken, analyzed, found, result,
    embeddings, asking, time,
    rows, maximum, fetching, channel, received, listening,
    counter, building, events, recorded

archiveVars == <<entries, read, inspected, results, reading>>
predictionVars == <<release, changes>>
embedderVars == <<vectors, calls>>
modelVars == <<batch, models, default, stats>>
trailVars == <<queue, pending, inserting, audit_log, clock, metrics, restarts>>
agentVars == <<phase, step, calls_left, responses, conversation, taken, analyzed, found, result>>
queryVars == <<embeddings, asking, time>>
streamVars == <<rows, maximum, fetching, channel, received, listening>>
auditVars == <<counter, building, events, recorded>>

-----------------------------------------------------------------------------
Archived == INSTANCE Archive WITH Entries <- PackedFiles, MaxEntries <- MaxPacked
Predictions == INSTANCE Prediction WITH
    Versions <- DependencyVersions, MaxChanges <- MaxReleaseChanges
Embedders == INSTANCE Embedder WITH
    Tasks <- EmbedTasks, Texts <- EmbedTexts, Batches <- EmbedBatches, BatchSize <- EmbedBatchSize,
    MaxCacheSize <- EmbedCacheSize, MaxCalls <- MaxEmbedCalls, Names <- ModelNames,
    Tokens <- TextTokens
Trail == INSTANCE AuditTrail WITH
    Entries <- LoggedEntries, BatchSize <- InsertSize, MaxEntries <- MaxLogged
Agent == INSTANCE SecurityAgent
Query == INSTANCE QueryEmbedder WITH
    Requests <- Searches, Texts <- SearchTexts, MaxRetries <- SearchRetries,
    MaxCacheSize <- SearchCacheSize, MaxCalls <- MaxSearches, MaxTime <- MaxSearchTime
Streams == INSTANCE ResultStream WITH Rows <- StreamRows
Audit == INSTANCE AuditLog WITH Tasks <- AuditTasks

\* The sizes that the configuration may have, and what the inputs are made of
\* (see each module).
ASSUME WorkAssumption ==
    /\ Archived!LimitsAssumption /\ Predictions!VersionsAssumption /\ Embedders!TextsAssumption
    /\ Trail!MaxResultsAssumption /\ Trail!SizesAssumption /\ Agent!AnswersAssumption
    /\ Query!SizesAssumption /\ Streams!SizesAssumption /\ Audit!SizeAssumption

-----------------------------------------------------------------------------
\* Of which area is not said here.
WorkInit ==
    /\ Archived!Init /\ Predictions!Init /\ Embedders!Init /\ Embedders!ModelInit
    /\ Trail!Init /\ Agent!Init /\ Query!Init /\ Streams!Init /\ Audit!Init

\* The variables of the areas but one.
OthersUnchanged(one) ==
    /\ one = "archive" \/ UNCHANGED archiveVars
    /\ one = "prediction" \/ UNCHANGED predictionVars
    /\ one = "embedder" \/ UNCHANGED embedderVars
    /\ one = "model" \/ UNCHANGED modelVars
    /\ one = "trail" \/ UNCHANGED trailVars
    /\ one = "agent" \/ UNCHANGED agentVars
    /\ one = "query" \/ UNCHANGED queryVars
    /\ one = "stream" \/ UNCHANGED streamVars
    /\ one = "audit" \/ UNCHANGED auditVars

WorkNext ==
    /\ UNCHANGED area
    /\ OthersUnchanged(area)
    /\ \/ area = "archive" /\ Archived!Next
       \/ area = "prediction" /\ Predictions!Change
       \/ area = "embedder" /\ Embedders!Next
       \/ area = "model" /\ Embedders!ModelNext
       \/ area = "trail" /\ Trail!Next
       \/ area = "agent" /\ Agent!Next
       \/ area = "query" /\ Query!Next
       \/ area = "stream" /\ Streams!Next
       \/ area = "audit" /\ Audit!Next

WorkAreas ==
    {"archive", "prediction", "embedder", "model", "trail", "agent", "query", "stream", "audit"}

workVars ==
    <<area, archiveVars, predictionVars, embedderVars, modelVars, trailVars, agentVars, queryVars,
      streamVars, auditVars>>

WorkSpec == WorkInit /\ [][WorkNext]_workVars

-----------------------------------------------------------------------------
\* Whatever goes in is accounted for: the files of an archive within all the
\* limits, the dependencies that changed, each vector with its text and
\* without regard to the batch (main.rs, feature_extraction.rs, embeddings.rs,
\* onnx_model.rs); the agent tells the model what every call returned, the
\* audit trail knows where every entry went, a search has the vector of its own
\* text or asked every provider in vain, a stream that is read to its end had
\* every row up to the maximum (gemini_agent.rs, middleware/audit.rs, the API's
\* embeddings.rs, streaming/mod.rs); the audit log has the last events that
\* were recorded (audit.rs).
WorkAccounted ==
    /\ Archived!WithinBudget
    /\ Predictions!DiffPartitions
    /\ Embedders!VectorsAlign
    /\ Embedders!BatchIndependent /\ Embedders!DefaultRegistered
    /\ Trail!EntriesAccounted
    /\ Agent!CallsAnswered
    /\ Query!QueriesAnswered
    /\ Streams!StreamComplete
    /\ Audit!LastRecorded
=============================================================================
