--------------------------- MODULE QueryEmbedder ---------------------------
(***************************************************************************)
(* The embeddings of the searches (apps/api/src/embeddings.rs): requests   *)
(* that run at the same time read a cache with a time to live and, when it *)
(* does not know their text, ask a provider, with retries, and the next    *)
(* one when it gives up.  A vector is told apart by its text, its provider *)
(* and its length.  Waiting for the limiter or for a back-off is time that *)
(* passes.                                                                 *)
(***************************************************************************)
EXTENDS Integers, Sequences, FiniteSets, Functions

CONSTANTS
    Requests, Texts,
    Providers,      \* the primary and its fallback, or a provider alone
    Dimension, Dimensions,  \* the configured length, and those of the answers
    MaxRetries, CacheTtl,   \* max_retries, cache_ttl
    MaxCacheSize,   \* at least 2: half of one is none and would make no room
    MaxCalls, MaxTime,      \* bounds: calls of a request, time
    None

SizesAssumption ==
    /\ MaxCacheSize \in Nat /\ MaxCacheSize > 1 /\ MaxRetries \in Nat
    /\ Providers # <<>> /\ Providers \in Seq({Providers[p] : p \in DOMAIN Providers})
    /\ None # "provider"

VARIABLES
    embeddings,    \* the cache: text |-> [vector, inserted]
    asking,   \* of each request
    time

vars == <<embeddings, asking, time>>

Answered == {"idle", "done", "failed"}
Idle(n) == [stage |-> "idle", text |-> None, provider |-> 1, attempt |-> 0, vector |-> None,
            sent |-> [p \in DOMAIN Providers |-> 0], hit |-> FALSE, reason |-> None, calls |-> n]

Init ==
    /\ embeddings = [t \in {} |-> None]
    /\ asking = [r \in Requests |-> Idle(0)]
    /\ time = 0

Fresh(t) == t \in DOMAIN embeddings /\ time - embeddings[t].inserted <= CacheTtl

Generate(r, t) ==
    /\ asking[r].stage \in Answered /\ asking[r].calls < MaxCalls
    /\ asking' = [asking EXCEPT ![r] =
         IF Fresh(t)
         THEN [Idle(@.calls + 1) EXCEPT !.stage = "done", !.text = t, !.vector = embeddings[t].vector,
                                        !.hit = TRUE]
         ELSE [Idle(@.calls + 1) EXCEPT !.stage = "asking", !.text = t]]
    /\ UNCHANGED <<embeddings, time>>

Sent(call) == [call EXCEPT !.sent[call.provider] = @ + 1]

\* An answer with one of 429, 500, 502, 503 and 504, a timeout or an error of
\* the network may be tried again; any other status, or a body that cannot be
\* read or is empty, may not.
ProviderFails(r, retriable) ==
    LET call == Sent(asking[r])
    IN  /\ asking[r].stage = "asking"
        /\ asking' = [asking EXCEPT ![r] =
             IF retriable /\ call.attempt < MaxRetries THEN [call EXCEPT !.attempt = @ + 1]
             ELSE IF call.provider < Len(Providers)
             THEN [call EXCEPT !.provider = @ + 1, !.attempt = 0]
             ELSE [call EXCEPT !.stage = "failed", !.reason = "provider"]]
        /\ UNCHANGED <<embeddings, time>>

\* A vector of another length is an error, and not one for the fallback.
ProviderAnswers(r, n) ==
    LET call == Sent(asking[r])
    IN  /\ asking[r].stage = "asking"
        /\ asking' = [asking EXCEPT ![r] =
             IF n = Dimension
             THEN [call EXCEPT !.stage = "storing",
                               !.vector = [text |-> call.text, by |-> call.provider, dimension |-> n]]
             ELSE [call EXCEPT !.stage = "failed", !.reason = "dimension"]]
        /\ UNCHANGED <<embeddings, time>>

\* A full cache loses half of its entries, in the order of a hash map.
Kept ==
    IF Cardinality(DOMAIN embeddings) < MaxCacheSize THEN {embeddings}
    ELSE {Restrict(embeddings, DOMAIN embeddings \ gone) :
             gone \in {s \in SUBSET DOMAIN embeddings : Cardinality(s) = MaxCacheSize \div 2}}

Store(r) ==
    LET call == asking[r]
    IN  /\ call.stage = "storing"
        /\ \E kept \in Kept :
              embeddings' = [t \in DOMAIN kept \cup {call.text} |->
                          IF t = call.text THEN [vector |-> call.vector, inserted |-> time] ELSE kept[t]]
        /\ asking' = [asking EXCEPT ![r].stage = "done"]
        /\ UNCHANGED time

\* The client of a request goes away while it waits.
Cancel(r) ==
    /\ asking[r].stage \in {"asking", "storing"}
    /\ asking' = [asking EXCEPT ![r] = Idle(@.calls)]
    /\ UNCHANGED <<embeddings, time>>

Pass == time < MaxTime /\ time' = time + 1 /\ UNCHANGED <<embeddings, asking>>

Next ==
    \/ \E r \in Requests :
          \/ \E t \in Texts : Generate(r, t)
          \/ \E retriable \in BOOLEAN : ProviderFails(r, retriable)
          \/ \E n \in Dimensions : ProviderAnswers(r, n)
          \/ Store(r) \/ Cancel(r)
    \/ Pass

-----------------------------------------------------------------------------
\* The cache stays within its size whatever requests meet in it, and holds of a
\* text a vector of that text and of the configured length; a request is given
\* such a vector, asks a provider no more often than its retries allow, the
\* fallback only when the primary was asked, and fails for want of a provider
\* only when it asked all of them; a request that the cache answered asked none.
QueriesAnswered ==
    LET OfText(vector, t) == vector.text = t /\ vector.dimension = Dimension
    IN  /\ Cardinality(DOMAIN embeddings) <= MaxCacheSize
        /\ \A t \in DOMAIN embeddings : OfText(embeddings[t].vector, t)
        /\ \A r \in Requests : LET call == asking[r] IN
              /\ call.stage \in {"storing", "done"} => OfText(call.vector, call.text)
              /\ \A p \in DOMAIN Providers :
                    /\ call.sent[p] <= MaxRetries + 1
                    /\ p < call.provider => call.sent[p] > 0
                    /\ p > call.provider \/ call.hit => call.sent[p] = 0
              /\ call.reason = "provider" => \A p \in DOMAIN Providers : call.sent[p] > 0
=============================================================================
