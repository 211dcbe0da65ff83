------------------------------ MODULE Embedder ------------------------------
(***************************************************************************)
(* The generation of embeddings (apps/analysis/src/embeddings.rs): tasks   *)
(* ask for the vectors of their texts, of which a cache shared by all      *)
(* knows some; the others are asked of a remote model in chunks, with      *)
(* retries.  The vector of a text stands for the text itself.              *)
(*                                                                         *)
(* And the local models (onnx_model.rs), in the second half: a batch of    *)
(* texts is cut and padded to one length, run through the model and        *)
(* pooled; a registry holds the models.  Their texts are sequences of      *)
(* token numbers; a pooled vector of one dimension is <<sum, count>>, and  *)
(* its normalisation, which depends on the vector only, is left out.       *)
(***************************************************************************)
EXTENDS Integers, Sequences, SequencesExt, FiniteSets, FiniteSetsExt, Functions

CONSTANTS Tasks, Texts,
          BatchSize,       \* batch_size
          MaxCacheSize,    \* max_cache_size
          Batches,         \* lists of texts that are asked for at once
          MaxCalls,        \* bound: calls of a task
          Tokens,          \* of the local models: numbers
          Names,           \* of models
          Junk,            \* what a model makes of padding
          MaxLength,       \* max_length
          MaxTexts, MaxTokens,      \* bounds of a batch
          None

MaxRetries == 3
Empty == <<>>              \* unwrap_or_default

TextsAssumption ==
    /\ Batches \subseteq Seq(Texts) /\ None \notin Texts \cup {Empty}
    /\ BatchSize \in Nat \ {0} /\ MaxLength \in Nat \ {0} /\ MaxTokens \in Nat \ {0}

VARIABLES vectors,         \* [text |-> vector]
          calls,           \* what each task asks for
          batch,           \* the texts given to a local model
          models,          \* names of the registered models
          default,         \* default_model
          stats            \* [inferences, tokens]

Idle(n) == [stage |-> "idle", texts |-> <<>>, results |-> <<>>, pending |-> {}, attempt |-> 0,
            single |-> FALSE, count |-> n]

Init ==
    /\ vectors = [t \in {} |-> None]
    /\ calls = [c \in Tasks |-> Idle(0)]

Become(c, call) == calls' = [calls EXCEPT ![c] = call]

\* generate and generate_batch: what the cache knows, and what it does not.
Ask(c, texts, single) ==
    LET call == calls[c]
        unknown == {i \in DOMAIN texts : texts[i] \notin DOMAIN vectors}
    IN /\ call.stage # "asked" /\ call.count < MaxCalls
       /\ Become(c, [stage |-> IF unknown = {} THEN "done" ELSE "asked", texts |-> texts,
                     results |-> [i \in DOMAIN texts |->
                        IF texts[i] \in DOMAIN vectors THEN vectors[texts[i]] ELSE None],
                     pending |-> unknown, attempt |-> 0, single |-> single, count |-> call.count + 1])
       /\ UNCHANGED vectors

\* The first n of some places of the batch; the chunk that is asked for.
First(n, places) == {i \in places : Cardinality({j \in places : j <= i}) <= n}
Chunk(call) == First(BatchSize, call.pending)

\* embed_batch of OpenAIEmbedder: too many requests, and errors of the network
\* but the last, are tried again.
Retry(c) ==
    LET call == calls[c]
    IN /\ call.stage = "asked" /\ call.attempt < MaxRetries
       /\ Become(c, [call EXCEPT !.attempt = @ + 1])
       /\ UNCHANGED vectors

Fail(c) ==
    /\ calls[c].stage = "asked"
    /\ Become(c, [calls[c] EXCEPT !.stage = "failed"])
    /\ UNCHANGED vectors

\* The vectors that came are those of the first places of the chunk.
Insert(call, n) ==
    [call EXCEPT !.results = [i \in DOMAIN @ |->
        IF i \in First(n, Chunk(call)) THEN call.texts[i] ELSE @[i]]]

\* The first half of a full cache, in any order, makes room in generate; a
\* batch makes none.
Evicted(call) ==
    IF call.single /\ Cardinality(DOMAIN vectors) >= MaxCacheSize
    THEN {Restrict(vectors, DOMAIN vectors \ gone) :
             gone \in {s \in SUBSET DOMAIN vectors : Cardinality(s) = MaxCacheSize \div 2}}
    ELSE {vectors}

\* The model answers with the vectors of the chunk, or of its first texts only,
\* of which one is enough for generate.
Answer(c, n) ==
    LET call == calls[c]
        chunk == Chunk(call)
        rest == call.pending \ chunk
        answered == {call.texts[i] : i \in First(n, chunk)}
        known == Insert(call, n)
    IN /\ call.stage = "asked" /\ call.attempt < MaxRetries /\ n <= Cardinality(chunk)
       /\ call.single => n = 1
       /\ \E kept \in Evicted(call) :
             vectors' = [t \in answered \cup DOMAIN kept |-> IF t \in answered THEN t ELSE kept[t]]
       /\ Become(c, [known EXCEPT !.pending = rest, !.attempt = 0,
                     !.stage = IF rest = {} THEN "done" ELSE "asked",
                     !.results = [i \in DOMAIN @ |->
                         IF rest = {} /\ @[i] = None THEN Empty ELSE @[i]]])

\* Of the local models nothing changes, nor do the calls in ModelNext.
Next ==
    \E c \in Tasks :
        \/ \E t \in Texts : Ask(c, <<t>>, TRUE)
        \/ \E texts \in Batches : Ask(c, texts, FALSE)
        \/ Retry(c) \/ Fail(c)
        \/ \E n \in 0 .. BatchSize : Answer(c, n)

-----------------------------------------------------------------------------
\* Whatever the tasks ask for at the same time, however the texts are repeated,
\* cut in chunks, retried or answered in part: a vector is that of the text in
\* its place, and one that the cache holds that of its text; only what the model
\* did not answer is empty; a task that asked for one text has its vector.
VectorsAlign ==
    /\ \A t \in DOMAIN vectors : vectors[t] = t
    /\ \A c \in Tasks : LET call == calls[c] IN
          /\ \A i \in DOMAIN call.texts : call.results[i] \in {call.texts[i], None, Empty}
          /\ call.stage = "done" => None \notin ToSet(call.results)
          /\ call.stage = "done" /\ call.single => call.results = call.texts
          /\ call.stage = "asked" =>
                \A i \in call.pending : call.results[i] = None

-----------------------------------------------------------------------------
(* The local models.                                                       *)

Strategies == {"mean", "cls", "max", "last1", "last2"}

Smaller(a, b) == IF a < b THEN a ELSE b

Cut(text, length) == SubSeq(text, 1, Smaller(Len(text), length))

\* The length that a batch is brought to.
MaxLen(texts) == Smaller(Max({Len(t) : t \in ToSet(texts)}), MaxLength)
AttentionMask(text, length) == [j \in 1 .. length |-> j <= Len(text)]

\* The hidden states of a text: that of a token depends on the tokens that are
\* attended to.  (External: the network.)
Context(attended) == FoldSeq(LAMBDA x, y : x + y, 0, attended)
Hidden(text, length) ==
    LET attended == Cut(text, length)
    IN [j \in 1 .. length |->
           IF j <= Len(attended) THEN 10 * attended[j] + Context(attended) ELSE Junk]

Mean(h, js) == <<SumFunction([j \in js |-> h[j]]), Cardinality(js)>>

\* apply_pooling, of one text; the last n tokens are those that are attended to.
ApplyPooling(strategy, h, mask) ==
    LET attended == {j \in DOMAIN h : mask[j]}
        last(n) == {j \in attended : Cardinality({k \in attended : k >= j}) <= n}
    IN CASE strategy = "mean" -> Mean(h, attended)
         [] strategy = "cls" -> <<h[1], 1>>
         [] strategy = "max" -> <<Max({h[j] : j \in attended}), 1>>
         [] strategy = "last1" -> Mean(h, last(1))
         [] strategy = "last2" -> Mean(h, last(2))

\* embed_batch
EmbedBatch(strategy, texts) ==
    LET length == MaxLen(texts)
    IN [i \in DOMAIN texts |->
           ApplyPooling(strategy, Hidden(texts[i], length), AttentionMask(texts[i], length))]

\* embed
Embed(strategy, text) == EmbedBatch(strategy, <<text>>)[1]

-----------------------------------------------------------------------------
ModelInit == batch = <<>> /\ models = {} /\ default = None /\ stats = [inferences |-> 0, tokens |-> 0]

\* A text is added to the batch, or a token to its last text.
Prepare ==
    /\ \/ \E x \in Tokens : Len(batch) < MaxTexts /\ batch' = Append(batch, <<x>>)
       \/ \E x \in Tokens :
             /\ batch # <<>> /\ Len(Last(batch)) < MaxTokens
             /\ batch' = [batch EXCEPT ![Len(batch)] = Append(@, x)]
    /\ stats.inferences = 0
    /\ UNCHANGED <<models, default, stats>>

\* ModelRegistry::register; the model warms up with a text of its own first.
Register(name, loads) ==
    /\ batch = <<>>
    /\ IF loads
       THEN /\ models' = models \cup {name}
            /\ default' = IF models = {} THEN name ELSE default
       ELSE UNCHANGED <<models, default>>
    /\ UNCHANGED <<batch, stats>>

\* embed_batch, once for each batch, and its statistics.
Run ==
    /\ batch # <<>> /\ stats.inferences < 2
    /\ stats' = [inferences |-> stats.inferences + 1,
                 tokens |-> stats.tokens + Len(batch) * MaxLen(batch)]
    /\ UNCHANGED <<batch, models, default>>

ModelNext ==
    \/ Prepare \/ Run
    \/ \E name \in Names, loads \in BOOLEAN : Register(name, loads)

-----------------------------------------------------------------------------
\* The embedding of a text does not depend on the batch it is in: neither the
\* padding nor the other texts count; and of two texts that differ only beyond
\* the greatest length, it is the same.
BatchIndependent ==
    \A strategy \in Strategies : batch # <<>> =>
        LET embeddings == EmbedBatch(strategy, batch)
        IN \A i, j \in DOMAIN batch :
              /\ embeddings[i] = Embed(strategy, batch[i])
              /\ Cut(batch[i], MaxLength) = Cut(batch[j], MaxLength) =>
                    embeddings[i] = embeddings[j]

\* The default model is a registered one as soon as there is any.
DefaultRegistered == (models = {} /\ default = None) \/ default \in models
=============================================================================
