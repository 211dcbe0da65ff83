---------------------------- MODULE ResultStream ----------------------------
(***************************************************************************)
(* Streams of results (apps/api/src/streaming/mod.rs): a task fetches rows *)
(* in batches, up to a maximum, and sends them through a channel that the  *)
(* client reads, or leaves.  The rows are numbered and do not change while *)
(* they are streamed.                                                      *)
(***************************************************************************)
EXTENDS Connections

CONSTANTS
    Rows,         \* how many rows there may be
    Maxima,       \* the values of max_items
    BatchItems, ChannelSize  \* batch_size, buffer_size

SizesAssumption ==
    Rows \subseteq Nat /\ Maxima \subseteq Nat /\ BatchItems \in Nat \ {0} /\ ChannelSize \in Nat

VARIABLES
    rows, maximum,  \* what this stream is of
    fetching,       \* the task: [number, total, state, batch]
    channel,        \* what was sent
    received,       \* what the client read
    listening       \* whether it still does

vars == <<rows, maximum, fetching, channel, received, listening>>

Init ==
    /\ rows \in Rows /\ maximum \in Maxima
    /\ fetching = [number |-> 0, total |-> 0, state |-> "fetch", batch |-> None]
    /\ channel = <<>> /\ received = <<>> /\ listening = TRUE

Fetched(n, limit) == Sequential([i \in 1 .. rows |-> i], n * BatchItems, limit)

\* stream_results: the next batch.
Fetch ==
    LET limit == Least(BatchItems, maximum - fetching.total)
        items == Fetched(fetching.number, limit)
    IN  /\ fetching.state = "fetch"
        /\ fetching' = IF fetching.total >= maximum THEN [fetching EXCEPT !.state = "ended"]
                       ELSE [fetching EXCEPT !.state = "send", !.total = @ + Len(items),
                               !.batch = [items |-> items, number |-> fetching.number,
                                          hasMore |-> Len(items) = BatchItems, ok |-> TRUE]]
        /\ UNCHANGED <<rows, maximum, channel, received, listening>>

FetchFails ==
    /\ fetching.state = "fetch" /\ fetching.total < maximum
    /\ fetching' = [fetching EXCEPT !.state = "send", !.batch = [ok |-> FALSE]]
    /\ UNCHANGED <<rows, maximum, channel, received, listening>>

\* send waits for room, and fails when nobody listens.
Send ==
    LET batch == fetching.batch
    IN  /\ fetching.state = "send"
        /\ IF ~listening
           THEN fetching' = [fetching EXCEPT !.state = "ended"] /\ UNCHANGED channel
           ELSE /\ Len(channel) < ChannelSize
                /\ channel' = Append(channel, batch)
                /\ fetching' = IF batch.ok /\ batch.hasMore
                               THEN [fetching EXCEPT !.number = @ + 1, !.state = "fetch"]
                               ELSE [fetching EXCEPT !.state = "ended"]
        /\ UNCHANGED <<rows, maximum, received, listening>>

Read ==
    /\ listening /\ channel # <<>>
    /\ channel' = Tail(channel) /\ received' = Append(received, Head(channel))
    /\ UNCHANGED <<rows, maximum, fetching, listening>>

Leave ==
    /\ listening /\ listening' = FALSE /\ channel' = <<>>
    /\ UNCHANGED <<rows, maximum, fetching, received>>

Next == Fetch \/ FetchFails \/ Send \/ Read \/ Leave

-----------------------------------------------------------------------------
\* How many rows the first n batches hold that the client has read.
RowsRead(n) ==
    Cardinality(UNION {{i} \X DOMAIN received[i].items : i \in {j \in 1 .. n : received[j].ok}})

\* What a client has read are the first rows, in order and each once, never
\* more than the maximum; one that reads a stream to its end without an error
\* has all of them, and is told that there are more only at the maximum.
StreamComplete ==
    LET read == RowsRead(Len(received))
        ended == fetching.state = "ended" /\ channel = <<>> /\ listening
    IN  /\ read <= Least(rows, maximum)
        /\ \A i \in DOMAIN received : received[i].ok =>
              /\ received[i].number = i - 1
              /\ \A j \in DOMAIN received[i].items : received[i].items[j] = RowsRead(i - 1) + j
        /\ ended /\ (\A i \in DOMAIN received : received[i].ok) =>
              /\ read = Least(rows, maximum)
              /\ received # <<>> /\ Last(received).hasMore => read = maximum
=============================================================================
