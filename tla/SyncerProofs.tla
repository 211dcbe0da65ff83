---------------------------- MODULE SyncerProofs ----------------------------
(***************************************************************************)
(* The invariant Inv of Syncer and its action property NeverBackwards, for *)
(* any tables, limit, batch size, attempts and number of failures.         *)
(***************************************************************************)
EXTENDS Syncer, SequenceTheorems, TLAPS

\* The stages of a poll in their order.
Rank == [packages |-> 1, dependencies |-> 2, embeddings |-> 3, complete |-> 4]

StreamOf(w) == w[1][1]

\* The entry w was fetched by the poll under way.
OfThisPoll(w) == some /\ Rank[StreamOf(w)] < Rank[stage]

EndBetween(i, j) == \E m \in DOMAIN channel : i < m /\ m < j /\ channel[m] = EndOfPoll
EndBehind(i) == \E m \in DOMAIN channel : i < m /\ channel[m] = EndOfPoll

\* What is not of the poll under way has the end of its poll behind it.
PollsEnd ==
    /\ \A i \in DOMAIN channel : channel[i] # EndOfPoll =>
          EndBehind(i) \/ OfThisPoll(channel[i])
    /\ \A k \in Sinks : \A i \in DOMAIN batch[k] :
          EndBehind(0) \/ OfThisPoll(batch[k][i])

\* A poll fetches a row once: the contents of a row are in the channel in their
\* order, each in another poll; and of a poll that has not ended, or whose end is
\* not received yet, a batch has a row once.
InOrder ==
    /\ \A i, j \in DOMAIN channel :
          i < j /\ channel[i] # EndOfPoll /\ channel[j] # EndOfPoll
                /\ channel[i][1] = channel[j][1] =>
              channel[i][2] <= channel[j][2] /\ EndBetween(i, j)
    /\ \A k \in Sinks : \A i \in DOMAIN batch[k], j \in DOMAIN channel :
          channel[j] # EndOfPoll /\ batch[k][i][1] = channel[j][1] =>
              batch[k][i][2] <= channel[j][2] /\ EndBetween(0, j)
    /\ \A k \in Sinks : \A i, j \in DOMAIN batch[k] :
          batch[k][i][1] = batch[k][j][1] => i = j

\* What is on its way is no older than what the sink has, and no newer than the
\* view; and it is in the batch of its sink.
Between ==
    /\ \A r \in Rows : sink[r] <= view[r]
    /\ \A w \in Pending : sink[w[1]] <= w[2] /\ w[2] <= view[w[1]]
    /\ \A k \in Sinks : \A i \in DOMAIN batch[k] : SinkOf(batch[k][i][1]) = k

\* A row that the cursor has passed and that is not missed is on its way as the
\* view has it; or none of its contents is, and the sink has the last, or it was
\* dropped.
Passed ==
    \A r \in Rows : 0 < view[r] /\ view[r] <= cursor[r[1]] /\ r \notin missed =>
        \/ <<r, view[r]>> \in Pending
        \/ r \notin Waiting /\ (sink[r] = view[r] \/ r \in dropped)

SyncInv == TypeOK /\ PollsEnd /\ InOrder /\ Between /\ Passed

-----------------------------------------------------------------------------
(* The pieces of the state.                                                *)

LEMMA RowFacts ==
    ASSUME NEW r \in Rows
    PROVE  /\ r[1] \in Streams /\ SinkOf(r) \in Sinks
           /\ r[1] = "dependencies" =>
                 /\ <<"packages", r[2][1]>> \in Rows
                 /\ <<"packages", r[2][2]>> \in Rows
<1>1. CASE r \in {"packages"} \X Packages
  BY <1>1 DEF Streams, Sinks, SinkOf
<1>2. CASE r \in {"dependencies"} \X Dependencies
  <2>1. r[1] = "dependencies" /\ r[2] \in Dependents \X Packages
    BY <1>2 DEF Dependencies
  <2>2. r[2][1] \in Packages /\ r[2][2] \in Packages
    BY <2>1, SyncerAssumption DEF SyncerAssumption
  <2>3. \A p \in Packages : <<"packages", p>> \in Rows
    BY DEF Rows
  <2> QED
    BY <2>1, <2>2, <2>3 DEF Streams, Sinks, SinkOf
<1>3. CASE r \in {"embeddings"} \X Embedded
  BY <1>3 DEF Streams, Sinks, SinkOf
<1> QED
  BY <1>1, <1>2, <1>3 DEF Rows

LEMMA RankFacts ==
    /\ \A s \in Streams : /\ Rank[s] \in 1 .. 3
                          /\ After[s] \in Streams \cup {"complete"}
                          /\ Rank[After[s]] = Rank[s] + 1
    /\ Rank["complete"] = 4 /\ Rank["packages"] = 1
BY DEF Rank, After, Streams

\* An entry is told from the end of a poll by its time.
LEMMA EntryFacts ==
    ASSUME NEW t \in Nat, NEW w \in Rows \X (1 .. t)
    PROVE  /\ w # EndOfPoll
           /\ w = <<w[1], w[2]>> /\ w[1] \in Rows /\ w[2] \in 1 .. t
BY DEF EndOfPoll

InBatch(v) == \E k \in Sinks : \E i \in DOMAIN batch[k] : v = batch[k][i]
InChannel(v) == v # EndOfPoll /\ \E i \in DOMAIN channel : v = channel[i]

LEMMA PendingIs ==
    /\ \A v : v \in Pending <=> InBatch(v) \/ InChannel(v)
    /\ \A v : v \in Pending' <=> InBatch(v)' \/ InChannel(v)'
    /\ \A r : r \in Waiting <=> \E v \in Pending : v[1] = r
    /\ \A r : r \in Waiting' <=> \E v \in Pending' : v[1] = r
<1>1. /\ \A v : v \in Pending <=> InBatch(v) \/ InChannel(v)
      /\ \A v : v \in Pending' <=> InBatch(v)' \/ InChannel(v)'
  BY DEF Pending, InBatch, InChannel, ToSet
<1>2. /\ \A r : r \in Waiting <=> \E v \in Pending : v[1] = r
      /\ \A r : r \in Waiting' <=> \E v \in Pending' : v[1] = r
  BY DEF Waiting
<1> QED
  BY <1>1, <1>2

\* The types in the form that the proofs use.
LEMMA Typed ==
    ASSUME TypeOK
    PROVE  /\ clock \in Nat \ {0}
           /\ \A r \in Rows : view[r] \in 0 .. clock /\ sink[r] \in 0 .. clock
           /\ \A s \in Streams : cursor[s] \in 0 .. clock
           /\ channel \in Seq((Rows \X (1 .. clock)) \cup {EndOfPoll})
           /\ DOMAIN channel = 1 .. Len(channel) /\ Len(channel) \in Nat
           /\ \A i \in DOMAIN channel :
                 channel[i] # EndOfPoll => channel[i] \in Rows \X (1 .. clock)
           /\ \A k \in Sinks :
                 /\ batch[k] \in Seq(Rows \X (1 .. clock))
                 /\ DOMAIN batch[k] = 1 .. Len(batch[k]) /\ Len(batch[k]) \in Nat
                 /\ \A i \in DOMAIN batch[k] : batch[k][i] \in Rows \X (1 .. clock)
           /\ \A w \in Pending : w \in Rows \X (1 .. clock)
<1>1. /\ clock \in Nat \ {0}
      /\ \A r \in Rows : view[r] \in 0 .. clock /\ sink[r] \in 0 .. clock
      /\ \A s \in Streams : cursor[s] \in 0 .. clock
  BY SyncerAssumption DEF TypeOK, SyncerAssumption
<1>2. /\ channel \in Seq((Rows \X (1 .. clock)) \cup {EndOfPoll})
      /\ \A k \in Sinks : batch[k] \in Seq(Rows \X (1 .. clock))
  BY DEF TypeOK
<1> DEFINE Items == Rows \X (1 .. clock)
<1>3. ASSUME NEW S, NEW q \in Seq(S)
      PROVE  DOMAIN q = 1 .. Len(q) /\ Len(q) \in Nat /\ \A i \in DOMAIN q : q[i] \in S
  OBVIOUS
<1> HIDE DEF Items
<1>4. /\ DOMAIN channel = 1 .. Len(channel) /\ Len(channel) \in Nat
      /\ \A i \in DOMAIN channel : channel[i] # EndOfPoll => channel[i] \in Items
  BY <1>2, <1>3 DEF Items
<1>5. \A k \in Sinks :
        /\ DOMAIN batch[k] = 1 .. Len(batch[k]) /\ Len(batch[k]) \in Nat
        /\ \A i \in DOMAIN batch[k] : batch[k][i] \in Items
  BY <1>2, <1>3 DEF Items
<1>6. \A w \in Pending : w \in Items
  BY <1>4, <1>5, PendingIs DEF InBatch, InChannel
<1> QED
  BY <1>1, <1>2, <1>4, <1>5, <1>6 DEF Items

\* What the writes D of a batch make of a row: its content in the batch, unless
\* nothing was written.
LEMMA ApplyFacts ==
    ASSUME TypeOK, InOrder, NEW k \in Sinks, NEW D \in SUBSET DOMAIN batch[k]
    PROVE  /\ Apply(batch[k], D) \in [Rows -> 0 .. clock]
           /\ \A r \in Rows :
                 \/ Apply(batch[k], D)[r] = sink[r]
                 \/ \E i \in D : batch[k][i] = <<r, Apply(batch[k], D)[r]>>
           /\ \A i \in D : Applies(batch[k][i][1], Apply(batch[k], D)) =>
                 Apply(batch[k], D)[batch[k][i][1]] = batch[k][i][2]
<1> DEFINE b == batch[k]
           now == [r \in Rows |-> IF \E i \in D : b[i][1] = r
                                  THEN b[LastOf(b, D, r)][2] ELSE sink[r]]
           new == Apply(b, D)
<1>1. /\ clock \in Nat /\ \A r \in Rows : sink[r] \in 0 .. clock
      /\ \A i \in D : b[i] \in Rows \X (1 .. clock)
  BY Typed
<1>2. \A i, j \in D : b[i][1] = b[j][1] => i = j
  BY DEF InOrder
<1>d. D \subseteq Nat
  BY Typed
<1>3. ASSUME NEW i \in D PROVE LastOf(b, D, b[i][1]) = i
  <2>1. {j \in D : b[j][1] = b[i][1]} = {i}
    BY <1>2
  <2>2. i \in Nat
    BY <1>d
  <2> HIDE DEF b
  <2>3. Max({i}) = i
    BY <2>2 DEF Max
  <2> QED
    BY <2>1, <2>3 DEF LastOf
<1>4. new = [r \in Rows |-> IF Applies(r, now) THEN now[r] ELSE sink[r]]
  BY DEF Apply
<1>5. \A r \in Rows : now[r] = sink[r] \/ \E i \in D : b[i][1] = r /\ now[r] = b[i][2]
  <2> TAKE r \in Rows
  <2>1. CASE \E i \in D : b[i][1] = r
    <3>1. PICK i \in D : b[i][1] = r
      BY <2>1
    <3> QED
      BY <1>3, <3>1
  <2>2. CASE ~ \E i \in D : b[i][1] = r
    BY <2>2
  <2> QED
    BY <2>1, <2>2
<1>6. \A i \in D : now[b[i][1]] = b[i][2]
  <2> TAKE i \in D
  <2>1. b[i][1] \in Rows
    BY <1>1
  <2> QED
    BY <1>3, <2>1
<1> HIDE DEF now, new, b
\* The packages are in place before a dependency asks for them.
<1>7. \A r \in Rows : Applies(r, new) <=> Applies(r, now)
  <2> TAKE r \in Rows
  <2>1. \A q \in Rows : q[1] = "packages" => new[q] = now[q]
    BY <1>4 DEF Applies
  <2>2. CASE r[1] = "dependencies"
    <3>1. /\ <<"packages", r[2][1]>> \in Rows
          /\ <<"packages", r[2][2]>> \in Rows
      BY <2>2, RowFacts
    <3>2. /\ new[<<"packages", r[2][1]>>] = now[<<"packages", r[2][1]>>]
          /\ new[<<"packages", r[2][2]>>] = now[<<"packages", r[2][2]>>]
      BY <2>1, <3>1
    <3> QED
      BY <3>2 DEF Applies
  <2> QED
    BY <2>2 DEF Applies
<1>8. \A r \in Rows : new[r] = sink[r] \/ \E i \in D : b[i] = <<r, new[r]>>
  <2> TAKE r \in Rows
  <2>1. new[r] = sink[r] \/ new[r] = now[r]
    BY <1>4
  <2>2. CASE new[r] = now[r] /\ now[r] # sink[r]
    <3>1. PICK i \in D : b[i][1] = r /\ now[r] = b[i][2]
      BY <1>5, <2>2
    <3>2. b[i] = <<b[i][1], b[i][2]>>
      BY <1>1, EntryFacts
    <3> QED
      BY <2>2, <3>1, <3>2
  <2> QED
    BY <2>1, <2>2
<1>9. new \in [Rows -> 0 .. clock]
  <2>1. \A r \in Rows : new[r] \in 0 .. clock
    BY <1>1, <1>8
  <2> QED
    BY <1>4, <2>1
<1>10. \A i \in D : Applies(b[i][1], new) => new[b[i][1]] = b[i][2]
  <2> TAKE i \in D
  <2>1. b[i][1] \in Rows
    BY <1>1
  <2> QED
    BY <1>4, <1>6, <1>7, <2>1
<1> QED
  BY <1>8, <1>9, <1>10 DEF new, b

-----------------------------------------------------------------------------
(* What the steps do to the sequences.                                     *)

\* A poll appends rows of its view that are newer than the cursor, each once;
\* the cursor moves to the last of them, and what it passes is missed.
LEMMA FetchFacts ==
    ASSUME TypeOK, NEW s \in Streams, Fetch(s)
    PROVE  \E rows \in Seq(Rows) :
              /\ DOMAIN rows = 1 .. Len(rows) /\ Len(rows) \in Nat
              /\ \A j \in DOMAIN rows : /\ rows[j] \in Rows /\ rows[j][1] = s
                                        /\ view[rows[j]] > cursor[s]
                                        /\ view[rows[j]] <= cursor'[s]
              /\ \A j, k \in DOMAIN rows : j < k => rows[j] # rows[k]
              /\ channel' \in Seq((Rows \X (1 .. clock)) \cup {EndOfPoll})
              /\ DOMAIN channel' = 1 .. Len(channel) + Len(rows)
              /\ \A i \in DOMAIN channel : channel'[i] = channel[i]
              /\ \A j \in DOMAIN rows :
                    channel'[Len(channel) + j] = <<rows[j], view[rows[j]]>>
              /\ some' = (some \/ rows # <<>>)
              /\ \A r \in Rows : r[1] = s /\ (\A j \in DOMAIN rows : rows[j] # r) =>
                    /\ r \in missed => r \in missed'
                    /\ cursor[s] < view[r] /\ view[r] <= cursor'[s] => r \in missed'
              /\ \A r \in Rows : r[1] # s => (r \in missed' <=> r \in missed)
              /\ missed' \subseteq missed \cup Rows
              /\ cursor' \in [Streams -> 0 .. clock]
              /\ \A z \in Streams \ {s} : cursor'[z] = cursor[z]
<1>t. /\ clock \in Nat \ {0} /\ cursor \in [Streams -> 0 .. clock]
      /\ \A r \in Rows : view[r] \in 0 .. clock
      /\ channel \in Seq((Rows \X (1 .. clock)) \cup {EndOfPoll})
      /\ DOMAIN channel = 1 .. Len(channel) /\ Len(channel) \in Nat
  BY Typed DEF TypeOK
<1>u. /\ Updated(s) \subseteq Rows
      /\ \A r \in Updated(s) : r[1] = s /\ view[r] > cursor[s]
      /\ \A r \in Rows : r[1] = s /\ view[r] > cursor[s] => r \in Updated(s)
  BY DEF Updated
<1> HIDE DEF Updated
<1>1. PICK rows \in Fetched(s) :
        LET upto == IF rows = <<>> THEN cursor[s] ELSE view[Last(rows)]
        IN /\ channel' = channel \o [k \in DOMAIN rows |-> <<rows[k], view[rows[k]]>>]
           /\ cursor' = [cursor EXCEPT ![s] = upto]
           /\ some' = (some \/ rows # <<>>)
           /\ missed' = (missed \ ToSet(rows)) \cup
                        {r \in Updated(s) \ ToSet(rows) : view[r] <= upto}
  BY DEF Fetch
<1>2. PICK n \in 0 .. Limit : rows \in [1 .. n -> Updated(s)]
  BY DEF Fetched
<1>3. \A j, k \in DOMAIN rows :
         j < k => rows[j] # rows[k] /\ view[rows[j]] <= view[rows[k]]
  BY DEF Fetched
<1>n. n \in Nat
  BY SyncerAssumption DEF SyncerAssumption
<1>4. /\ rows \in Seq(Rows) /\ DOMAIN rows = 1 .. Len(rows) /\ Len(rows) = n
      /\ \A j \in DOMAIN rows : rows[j] \in Updated(s)
  <2>1. rows \in Seq(Updated(s)) /\ Len(rows) = n
    BY <1>2, <1>n
  <2> QED
    BY <1>2, <1>u, <2>1
<1> DEFINE upto == IF rows = <<>> THEN cursor[s] ELSE view[Last(rows)]
           new == [k \in DOMAIN rows |-> <<rows[k], view[rows[k]]>>]
<1>5. /\ channel' = channel \o new
      /\ cursor' = [cursor EXCEPT ![s] = upto]
      /\ some' = (some \/ rows # <<>>)
      /\ missed' = (missed \ ToSet(rows)) \cup
                   {r \in Updated(s) \ ToSet(rows) : view[r] <= upto}
  BY <1>1
<1>6. upto \in 0 .. clock /\ \A j \in DOMAIN rows : view[rows[j]] <= upto
  <2>1. CASE n = 0
    BY <1>4, <1>t, <2>1
  <2>2. CASE n # 0
    <3>1. n \in DOMAIN rows /\ upto = view[rows[n]]
      BY <1>4, <1>n, <2>2 DEF Last
    <3>2. \A j \in DOMAIN rows : j = n \/ j < n
      BY <1>4, <1>n
    <3>3. \A j \in DOMAIN rows : view[rows[j]] \in 0 .. clock
      BY <1>4, <1>t, <1>u
    <3> QED
      BY <1>3, <3>1, <3>2, <3>3
  <2> QED
    BY <2>1, <2>2
<1>7. /\ new \in Seq(Rows \X (1 .. clock)) /\ Len(new) = n
      /\ \A j \in DOMAIN rows : new[j] = <<rows[j], view[rows[j]]>>
  <2>1. \A j \in DOMAIN rows : <<rows[j], view[rows[j]]>> \in Rows \X (1 .. clock)
    <3> TAKE j \in DOMAIN rows
    <3>1. /\ rows[j] \in Rows /\ view[rows[j]] > cursor[s] /\ cursor[s] \in 0 .. clock
          /\ view[rows[j]] \in 0 .. clock
      BY <1>4, <1>t, <1>u
    <3> QED
      BY <1>t, <3>1
  <2>2. new \in [1 .. n -> Rows \X (1 .. clock)]
    BY <1>4, <2>1
  <2> QED
    BY <1>4, <1>n, <2>2
<1> HIDE DEF new
<1>8. /\ channel' \in Seq((Rows \X (1 .. clock)) \cup {EndOfPoll})
      /\ DOMAIN channel' = 1 .. Len(channel) + n
      /\ \A i \in DOMAIN channel : channel'[i] = channel[i]
      /\ \A j \in 1 .. n : channel'[Len(channel) + j] = new[j]
  <2> DEFINE Items == Rows \X (1 .. clock)
  <2>1. channel \in Seq(Items \cup {EndOfPoll}) /\ new \in Seq(Items \cup {EndOfPoll})
    <3>1. \A j \in 1 .. n : new[j] \in Items \cup {EndOfPoll}
      BY <1>7
    <3> HIDE DEF Items
    <3>2. new \in Seq(Items \cup {EndOfPoll})
      BY <1>7, <3>1
    <3> QED
      BY <1>t, <3>2 DEF Items
  <2> HIDE DEF Items
  <2>2. /\ channel' \in Seq(Items \cup {EndOfPoll}) /\ Len(channel') = Len(channel) + n
        /\ \A i \in 1 .. Len(channel) + n :
              channel'[i] = IF i <= Len(channel) THEN channel[i] ELSE new[i - Len(channel)]
    BY <1>5, <1>7, <2>1, ConcatProperties
  <2>3. DOMAIN channel' = 1 .. Len(channel) + n
    BY <2>2
  <2>4. \A i \in DOMAIN channel : channel'[i] = channel[i]
    BY <1>n, <1>t, <2>2
  <2>5. \A j \in 1 .. n : channel'[Len(channel) + j] = new[j]
    BY <1>n, <1>t, <2>2
  <2> QED
    BY <2>2, <2>3, <2>4, <2>5 DEF Items
<1> HIDE DEF upto
<1>9. cursor'[s] = upto /\ cursor' \in [Streams -> 0 .. clock]
      /\ \A z \in Streams \ {s} : cursor'[z] = cursor[z]
  BY <1>5, <1>6, <1>t
<1>10. \A r \in Rows : r \in ToSet(rows) <=> \E j \in DOMAIN rows : rows[j] = r
  BY DEF ToSet
<1>11. \A r \in Rows : r[1] = s /\ (\A j \in DOMAIN rows : rows[j] # r) =>
          /\ r \in missed => r \in missed'
          /\ cursor[s] < view[r] /\ view[r] <= cursor'[s] => r \in missed'
  <2> SUFFICES ASSUME NEW r \in Rows, r[1] = s, \A j \in DOMAIN rows : rows[j] # r
               PROVE  /\ r \in missed => r \in missed'
                      /\ cursor[s] < view[r] /\ view[r] <= cursor'[s] => r \in missed'
    OBVIOUS
  <2>1. r \notin ToSet(rows)
    BY <1>10
  <2>2. cursor[s] < view[r] => r \in Updated(s)
    BY <1>t, <1>u
  <2> QED
    BY <1>5, <1>9, <2>1, <2>2
<1>12. \A r \in Rows : r[1] # s => (r \in missed' <=> r \in missed)
  <2> SUFFICES ASSUME NEW r \in Rows, r[1] # s PROVE r \in missed' <=> r \in missed
    OBVIOUS
  <2>1. r \notin Updated(s) /\ r \notin ToSet(rows)
    BY <1>10, <1>4, <1>u
  <2> QED
    BY <1>5, <2>1
<1>13. missed' \subseteq missed \cup Rows
  BY <1>5, <1>u
<1>14. \A j \in DOMAIN rows : /\ rows[j] \in Rows /\ rows[j][1] = s
                              /\ view[rows[j]] > cursor[s]
                              /\ view[rows[j]] <= cursor'[s]
  BY <1>4, <1>6, <1>9, <1>u
<1>15. \A j, k \in DOMAIN rows : j < k => rows[j] # rows[k]
  BY <1>3
<1>16. \A j \in DOMAIN rows : channel'[Len(channel) + j] = <<rows[j], view[rows[j]]>>
  BY <1>4, <1>7, <1>8
<1> QED
  BY <1>4, <1>5, <1>8, <1>9, <1>11, <1>12, <1>13, <1>14, <1>15, <1>16, <1>n

\* What is received goes to the end of the batch of its sink.
LEMMA ReceiveFacts ==
    ASSUME TypeOK, Receive
    PROVE  \E w \in Rows \X (1 .. clock), k \in Sinks :
              /\ Len(channel) >= 1 /\ w = channel[1] /\ k = SinkOf(w[1])
              /\ w # EndOfPoll
              /\ batch' \in [Sinks -> Seq(Rows \X (1 .. clock))]
              /\ \A z \in Sinks \ {k} : batch'[z] = batch[z]
              /\ Len(batch'[k]) = Len(batch[k]) + 1
              /\ DOMAIN batch'[k] = 1 .. Len(batch[k]) + 1
              /\ \A i \in DOMAIN batch[k] : batch'[k][i] = batch[k][i]
              /\ batch'[k][Len(batch[k]) + 1] = w
              /\ writing' = IF Len(batch[k]) + 1 >= BatchSize THEN k ELSE "none"
              /\ channel' \in Seq((Rows \X (1 .. clock)) \cup {EndOfPoll})
              /\ DOMAIN channel' = 1 .. Len(channel) - 1
              /\ \A i \in DOMAIN channel' : channel'[i] = channel[i + 1]
<1> DEFINE w == Head(channel)
           k == SinkOf(w[1])
           Items == Rows \X (1 .. clock)
<1>1. /\ channel \in Seq(Items \cup {EndOfPoll}) /\ Len(channel) \in Nat
      /\ batch \in [Sinks -> Seq(Items)]
  BY Typed DEF TypeOK
<1>2. channel # <<>> /\ w # EndOfPoll /\ channel' = Tail(channel)
  BY DEF Receive
<1>3. /\ batch' = [batch EXCEPT ![k] = Append(batch[k], w)]
      /\ writing' = IF Len(batch[k]) + 1 >= BatchSize THEN k ELSE "none"
  BY DEF Receive
<1>i. ASSUME NEW S, NEW q \in Seq(S), q # <<>>
      PROVE  /\ Len(q) >= 1 /\ Head(q) = q[1] /\ Head(q) \in S
             /\ Tail(q) \in Seq(S) /\ DOMAIN Tail(q) = 1 .. Len(q) - 1
             /\ \A i \in DOMAIN Tail(q) : Tail(q)[i] = q[i + 1]
  <2>1. Len(q) \in Nat \ {0} /\ q \in [1 .. Len(q) -> S]
    BY <1>i, EmptySeq
  <2>2. Head(q) = q[1] /\ Tail(q) \in Seq(S) /\ Len(Tail(q)) = Len(q) - 1
    BY <1>i
  <2>3. DOMAIN Tail(q) = 1 .. Len(q) - 1
    BY <2>2
  <2>4. \A i \in 1 .. Len(q) - 1 : Tail(q)[i] = q[i + 1]
    BY <1>i, <2>1
  <2> QED
    BY <2>1, <2>2, <2>3, <2>4
<1>j. ASSUME NEW S, NEW q \in Seq(S), NEW x \in S
      PROVE  /\ Append(q, x) \in Seq(S) /\ Len(Append(q, x)) = Len(q) + 1
             /\ DOMAIN Append(q, x) = 1 .. Len(q) + 1
             /\ \A i \in DOMAIN q : Append(q, x)[i] = q[i]
             /\ Append(q, x)[Len(q) + 1] = x
  BY <1>j, AppendProperties
<1> HIDE DEF Items
<1>4. /\ Len(channel) >= 1 /\ w = channel[1] /\ w \in Items \cup {EndOfPoll}
      /\ channel' \in Seq(Items \cup {EndOfPoll})
      /\ DOMAIN channel' = 1 .. Len(channel) - 1
      /\ \A i \in DOMAIN channel' : channel'[i] = channel[i + 1]
  BY <1>1, <1>2, <1>i
<1>5. w \in Items
  BY <1>2, <1>4
<1>6. w[1] \in Rows
  BY <1>5 DEF Items
<1>7. k \in Sinks
  BY <1>6, RowFacts
<1> HIDE DEF w, k
<1>8. batch[k] \in Seq(Items)
  BY <1>1, <1>7
<1>9. /\ batch'[k] = Append(batch[k], w) /\ batch'[k] \in Seq(Items)
      /\ \A z \in Sinks \ {k} : batch'[z] = batch[z]
      /\ batch' \in [Sinks -> Seq(Items)]
  <2>1. Append(batch[k], w) \in Seq(Items)
    BY <1>5, <1>8, <1>j
  <2> QED
    BY <1>1, <1>3, <1>7, <2>1
<1>10. /\ Len(batch'[k]) = Len(batch[k]) + 1
       /\ DOMAIN batch'[k] = 1 .. Len(batch[k]) + 1
       /\ \A i \in DOMAIN batch[k] : batch'[k][i] = batch[k][i]
       /\ batch'[k][Len(batch[k]) + 1] = w
  BY <1>5, <1>8, <1>9, <1>j
<1>11. k = SinkOf(w[1])
  BY DEF k
<1>12. \E v \in Items, z \in Sinks :
              /\ Len(channel) >= 1 /\ v = channel[1] /\ z = SinkOf(v[1])
              /\ v # EndOfPoll
              /\ batch' \in [Sinks -> Seq(Items)]
              /\ \A y \in Sinks \ {z} : batch'[y] = batch[y]
              /\ Len(batch'[z]) = Len(batch[z]) + 1
              /\ DOMAIN batch'[z] = 1 .. Len(batch[z]) + 1
              /\ \A i \in DOMAIN batch[z] : batch'[z][i] = batch[z][i]
              /\ batch'[z][Len(batch[z]) + 1] = v
              /\ writing' = IF Len(batch[z]) + 1 >= BatchSize THEN z ELSE "none"
              /\ channel' \in Seq(Items \cup {EndOfPoll})
              /\ DOMAIN channel' = 1 .. Len(channel) - 1
              /\ \A i \in DOMAIN channel' : channel'[i] = channel[i + 1]
  <2> WITNESS w \in Items, k \in Sinks
  <2> QED
    BY <1>2, <1>3, <1>4, <1>9, <1>10, <1>11
<1> QED
  BY <1>12 DEF Items

LEMMA ReceiveEndFacts ==
    ASSUME TypeOK, ReceiveEnd
    PROVE  /\ Len(channel) >= 1 /\ channel[1] = EndOfPoll
           /\ \/ /\ \A k \in Sinks : batch[k] = <<>>
                 /\ writing' = writing
                 /\ channel' \in Seq((Rows \X (1 .. clock)) \cup {EndOfPoll})
                 /\ DOMAIN channel' = 1 .. Len(channel) - 1
                 /\ \A i \in DOMAIN channel' : channel'[i] = channel[i + 1]
              \/ channel' = channel /\ writing' \in Sinks
<1> DEFINE Items == (Rows \X (1 .. clock)) \cup {EndOfPoll}
<1>1. channel \in Seq(Items) /\ channel # <<>> /\ Head(channel) = EndOfPoll
  BY Typed DEF ReceiveEnd
<1> HIDE DEF Items
<1>2. Len(channel) \in Nat \ {0} /\ channel[1] = EndOfPoll
  BY <1>1, EmptySeq
<1>3. /\ Tail(channel) \in Seq(Items) /\ DOMAIN Tail(channel) = 1 .. Len(channel) - 1
      /\ \A i \in DOMAIN Tail(channel) : Tail(channel)[i] = channel[i + 1]
  <2>1. Tail(channel) \in Seq(Items) /\ Len(Tail(channel)) = Len(channel) - 1
    BY <1>1
  <2>2. DOMAIN Tail(channel) = 1 .. Len(channel) - 1
    BY <2>1
  <2> QED
    BY <1>1, <1>2, <2>1, <2>2
<1>4. CASE \A k \in Sinks : batch[k] = <<>>
  BY <1>2, <1>3, <1>4 DEF ReceiveEnd, Items
<1>5. CASE ~ \A k \in Sinks : batch[k] = <<>>
  <2>1. channel' = channel /\ writing' \in Sinks
    BY <1>5 DEF ReceiveEnd, Sinks
  <2> QED
    BY <1>2, <2>1
<1> QED
  BY <1>4, <1>5

\* A flush changes the rows of its batch to their contents in it; when it clears
\* the batch, each of them has its content or is dropped.
LEMMA FlushFacts ==
    ASSUME TypeOK, InOrder, Flush \/ FlushFails
    PROVE  /\ writing \in Sinks
           /\ sink' \in [Rows -> 0 .. clock]
           /\ \A r \in Rows :
                 \/ sink'[r] = sink[r]
                 \/ \E i \in DOMAIN batch[writing] : batch[writing][i] = <<r, sink'[r]>>
           /\ UNCHANGED <<source, stream, channel, missed>>
           /\ dropped' \subseteq Rows \cup dropped
           /\ \/ batch' = batch /\ writing' = writing /\ dropped' = dropped
              \/ /\ batch' = [batch EXCEPT ![writing] = <<>>]
                 /\ writing' = "none"
                 /\ \A i \in DOMAIN batch[writing] :
                       \/ sink'[batch[writing][i][1]] = batch[writing][i][2]
                       \/ batch[writing][i][1] \in dropped'
                 /\ \A r \in dropped :
                       (\A i \in DOMAIN batch[writing] : batch[writing][i][1] # r) =>
                           r \in dropped'
<1>1. writing \in Sinks
  BY DEF TypeOK, Flush, FlushFails
<1> DEFINE b == batch[writing]
<1>2. \A i \in DOMAIN b : b[i][1] \in Rows
  BY <1>1, Typed
<1>3. \A r : r \in {w[1] : w \in ToSet(b)} <=> \E i \in DOMAIN b : b[i][1] = r
  BY DEF ToSet
<1>4. CASE Flush
  <2>1. /\ sink' = Apply(b, DOMAIN b)
        /\ dropped' = (dropped \ {w[1] : w \in ToSet(b)}) \cup
                  {r \in Rows : \E w \in ToSet(b) : w[1] = r /\ ~Applies(r, sink')}
        /\ batch' = [batch EXCEPT ![writing] = <<>>] /\ writing' = "none"
        /\ UNCHANGED <<source, stream, channel, missed>>
    BY <1>4 DEF Flush
  <2>2. /\ sink' \in [Rows -> 0 .. clock]
        /\ \A r \in Rows : sink'[r] = sink[r] \/ \E i \in DOMAIN b : b[i] = <<r, sink'[r]>>
        /\ \A i \in DOMAIN b : Applies(b[i][1], sink') => sink'[b[i][1]] = b[i][2]
    BY <1>1, <2>1, ApplyFacts
  <2>3. ASSUME NEW i \in DOMAIN b, ~Applies(b[i][1], sink') PROVE b[i][1] \in dropped'
    <3>1. b[i] \in ToSet(b)
      BY DEF ToSet
    <3> HIDE DEF b
    <3> QED
      BY <1>2, <2>1, <2>3, <3>1
  <2>4. \A r \in dropped : (\A i \in DOMAIN b : b[i][1] # r) => r \in dropped'
    BY <1>3, <2>1
  <2>5. dropped' \subseteq Rows \cup dropped
    BY <2>1
  <2> HIDE DEF b
  <2>6. \A i \in DOMAIN b : sink'[b[i][1]] = b[i][2] \/ b[i][1] \in dropped'
    BY <2>2, <2>3
  <2> QED
    BY <1>1, <2>1, <2>2, <2>4, <2>5, <2>6 DEF b
<1>5. CASE FlushFails
  <2>1. /\ UNCHANGED <<source, stream, channel, missed>>
        /\ \/ batch' = batch /\ writing' = writing /\ dropped' = dropped
           \/ /\ dropped' = dropped \cup {w[1] : w \in ToSet(b)}
              /\ batch' = [batch EXCEPT ![writing] = <<>>] /\ writing' = "none"
    BY <1>5 DEF FlushFails
  <2>2. PICK D \in SUBSET DOMAIN b : sink' = Apply(b, D)
    BY <1>5 DEF FlushFails, Written
  <2>3. /\ sink' \in [Rows -> 0 .. clock]
        /\ \A r \in Rows : sink'[r] = sink[r] \/ \E i \in DOMAIN b : b[i] = <<r, sink'[r]>>
    BY <1>1, <2>2, ApplyFacts
  <2>4. dropped' \subseteq Rows \cup dropped
    BY <1>2, <1>3, <2>1
  <2>5. CASE /\ dropped' = dropped \cup {w[1] : w \in ToSet(b)}
             /\ batch' = [batch EXCEPT ![writing] = <<>>] /\ writing' = "none"
    <3>1. \A i \in DOMAIN b : b[i][1] \in dropped'
      BY <1>3, <2>5
    <3>2. \A r \in dropped : r \in dropped'
      BY <2>5
    <3> QED
      BY <1>1, <2>1, <2>3, <2>4, <2>5, <3>1, <3>2
  <2>6. CASE batch' = batch /\ writing' = writing /\ dropped' = dropped
    BY <1>1, <2>1, <2>3, <2>4, <2>6
  <2> QED
    BY <2>1, <2>5, <2>6
<1> QED
  BY <1>4, <1>5

-----------------------------------------------------------------------------
(* Types.                                                                  *)

LEMMA TypeInit == Init => TypeOK
<1> SUFFICES ASSUME Init PROVE TypeOK
  OBVIOUS
<1>1. some \in BOOLEAN /\ stage \in Streams \cup {"complete"}
  BY DEF Init, Streams
<1>2. /\ \A k \in Sinks : Len(batch[k]) = 0
      /\ channel \in Seq((Rows \X (1 .. clock)) \cup {EndOfPoll})
      /\ batch \in [Sinks -> Seq(Rows \X (1 .. clock))]
  BY DEF Init
<1>3. 1 \in 1 .. MaxClock
  BY SyncerAssumption DEF SyncerAssumption
<1> QED
  BY <1>1, <1>2, <1>3, SyncerAssumption DEF Init, TypeOK, SyncerAssumption

LEMMA TypeStep == TypeOK /\ InOrder /\ [Next]_vars => TypeOK'
<1> SUFFICES ASSUME TypeOK, InOrder, [Next]_vars PROVE TypeOK'
  OBVIOUS
<1>t. /\ clock \in 1 .. MaxClock /\ changes \in 0 .. MaxChanges
      /\ view \in [Rows -> 0 .. clock] /\ sink \in [Rows -> 0 .. clock]
      /\ cursor \in [Streams -> 0 .. clock]
      /\ stage \in Streams \cup {"complete"} /\ some \in BOOLEAN
      /\ channel \in Seq((Rows \X (1 .. clock)) \cup {EndOfPoll})
      /\ batch \in [Sinks -> Seq(Rows \X (1 .. clock))]
      /\ \A k \in Sinks : /\ Len(batch[k]) < BatchSize \/ writing = k
                          /\ Len(batch[k]) <= BatchSize
      /\ writing \in Sinks \cup {"none"} /\ attempt \in 0 .. MaxRetries - 1
      /\ missed \cup dropped \subseteq Rows
      /\ faults \in 0 .. MaxFaults
  BY DEF TypeOK
<1>a. /\ MaxRetries \in Nat \ {0} /\ BatchSize \in Nat \ {0} /\ MaxFaults \in Nat
      /\ MaxClock \in Nat \ {0} /\ MaxChanges \in Nat
  BY SyncerAssumption DEF SyncerAssumption
<1>s. stage \in Streams => After[stage] \in Streams \cup {"complete"}
  BY RankFacts
<1>f. faults < MaxFaults /\ faults' = faults + 1 => faults' \in 0 .. MaxFaults
  BY <1>a, <1>t
<1>n. "none" \notin Sinks
  BY DEF Sinks
\* The sinks and the batches after an empty batch took the place of one.
<1>e. ASSUME NEW k \in Sinks, writing = k, writing' = "none",
             batch' = [batch EXCEPT ![k] = <<>>]
      PROVE  /\ batch' \in [Sinks -> Seq(Rows \X (1 .. clock))]
             /\ \A z \in Sinks : /\ Len(batch'[z]) < BatchSize \/ writing' = z
                                 /\ Len(batch'[z]) <= BatchSize
  <2> DEFINE Items == Rows \X (1 .. clock)
  <2>1. batch \in [Sinks -> Seq(Items)] /\ <<>> \in Seq(Items)
    BY <1>t
  <2> HIDE DEF Items
  <2>2. batch' \in [Sinks -> Seq(Items)] /\ batch'[k] = <<>>
        /\ \A z \in Sinks \ {k} : batch'[z] = batch[z]
    BY <1>e, <2>1
  <2>3. \A z \in Sinks \ {k} : Len(batch[z]) < BatchSize /\ Len(batch[z]) <= BatchSize
    BY <1>e, <1>t
  <2>4. Len(batch'[k]) = 0
    BY <2>2
  <2>5. \A z \in Sinks : Len(batch'[z]) < BatchSize /\ Len(batch'[z]) <= BatchSize
    BY <1>a, <2>2, <2>3, <2>4
  <2> QED
    BY <2>2, <2>5 DEF Items
<1>1. CASE Tick
  <2>1. /\ clock' = clock + 1 /\ clock' \in 1 .. MaxClock
        /\ UNCHANGED <<changes, view, cursor, stage, some, channel, batch, sink, writing,
                       attempt, missed, dropped, faults>>
    BY <1>1, <1>a, <1>t DEF Tick, stream, flushing
  <2>2. 0 .. clock \subseteq 0 .. clock' /\ 1 .. clock \subseteq 1 .. clock'
    BY <1>a, <1>t, <2>1
  <2> DEFINE Items(c) == Rows \X (1 .. c)
  <2>3. Items(clock) \subseteq Items(clock')
    BY <2>2
  <2>4. /\ channel' \in Seq(Items(clock') \cup {EndOfPoll})
        /\ batch' \in [Sinks -> Seq(Items(clock'))]
    <3>1. channel \in Seq(Items(clock) \cup {EndOfPoll}) /\ batch \in [Sinks -> Seq(Items(clock))]
      BY <1>t
    <3> HIDE DEF Items
    <3>2. ASSUME NEW S, NEW T, S \subseteq T, NEW q \in Seq(S) PROVE q \in Seq(T)
      BY <3>2
    <3>3. channel \in Seq(Items(clock') \cup {EndOfPoll})
      BY <2>3, <3>1, <3>2
    <3>4. \A k \in Sinks : batch[k] \in Seq(Items(clock'))
      BY <2>3, <3>1, <3>2
    <3>5. batch \in [Sinks -> Seq(Items(clock'))]
      BY <3>1, <3>4
    <3> QED
      BY <2>1, <3>3, <3>5
  <2>5. /\ view' \in [Rows -> 0 .. clock'] /\ sink' \in [Rows -> 0 .. clock']
        /\ cursor' \in [Streams -> 0 .. clock']
    BY <1>t, <2>1, <2>2
  <2>6. /\ changes' \in 0 .. MaxChanges /\ stage' \in Streams \cup {"complete"}
        /\ writing' \in Sinks \cup {"none"} /\ attempt' \in 0 .. MaxRetries - 1
        /\ missed' \cup dropped' \subseteq Rows /\ faults' \in 0 .. MaxFaults
        /\ \A k \in Sinks : /\ Len(batch'[k]) < BatchSize \/ writing' = k
                            /\ Len(batch'[k]) <= BatchSize
    BY <1>t, <2>1
  <2>7. some' \in BOOLEAN
    BY <1>t, <2>1
  <2> QED
    BY <2>1, <2>4, <2>5, <2>6, <2>7 DEF TypeOK
<1>2. ASSUME NEW r \in Rows, Change(r) PROVE TypeOK'
  <2>1. /\ changes' \in 0 .. MaxChanges /\ view' \in [Rows -> 0 .. clock]
        /\ missed' \subseteq Rows
    BY <1>2, <1>a, <1>t DEF Change
  <2>2. UNCHANGED <<clock, cursor, stage, some, channel, batch, sink, writing, attempt,
                    dropped, faults>>
    BY <1>2 DEF Change, stream, flushing
  <2> QED
    BY <1>t, <2>1, <2>2 DEF TypeOK
<1>3. ASSUME NEW s \in Streams, Fetch(s) PROVE TypeOK'
  <2>1. /\ channel' \in Seq((Rows \X (1 .. clock)) \cup {EndOfPoll})
        /\ missed' \subseteq missed \cup Rows
        /\ cursor' \in [Streams -> 0 .. clock]
    BY <1>3, FetchFacts
  <2>2. /\ stage' \in Streams \cup {"complete"}
        /\ UNCHANGED <<clock, changes, view, batch, sink, writing, attempt, dropped, faults>>
    BY <1>3, <1>s DEF Fetch, source, flushing
  <2>3. some' \in BOOLEAN
    <3>1. \E rows : some' = (some \/ rows # <<>>)
      BY <1>3, FetchFacts
    <3> QED
      BY <3>1
  <2>4. missed' \cup dropped' \subseteq Rows
    BY <1>t, <2>1, <2>2
  <2> QED
    BY <1>t, <2>1, <2>2, <2>3, <2>4 DEF TypeOK
<1>4. CASE Unavailable
  <2>1. /\ stage' \in Streams \cup {"complete"} /\ faults' \in 0 .. MaxFaults
        /\ UNCHANGED <<clock, changes, view, cursor, some, channel, batch, sink, writing, attempt,
                       missed, dropped>>
    BY <1>4, <1>f, <1>s, <1>t DEF Unavailable, Fault, source, flushing
  <2> QED
    BY <1>t, <2>1 DEF TypeOK
<1>5. CASE EndPoll
  <2>1. /\ stage' \in Streams \cup {"complete"} /\ some' \in BOOLEAN
        /\ UNCHANGED <<clock, changes, view, cursor, batch, sink, writing, attempt,
                       missed, dropped, faults>>
    BY <1>5 DEF EndPoll, source, flushing, Streams
  <2>2. channel' \in Seq((Rows \X (1 .. clock)) \cup {EndOfPoll})
    <3> DEFINE Items == (Rows \X (1 .. clock)) \cup {EndOfPoll}
    <3>1. channel \in Seq(Items) /\ EndOfPoll \in Items
      BY <1>t
    <3> HIDE DEF Items
    <3>2. channel' = Append(channel, EndOfPoll) \/ channel' = channel
      BY <1>5 DEF EndPoll
    <3>3. channel' \in Seq(Items)
      BY <3>1, <3>2
    <3> QED
      BY <3>3 DEF Items
  <2> QED
    BY <1>t, <2>1, <2>2 DEF TypeOK
<1>6. CASE Receive
  <2>1. PICK w \in Rows \X (1 .. clock), k \in Sinks :
           /\ batch' \in [Sinks -> Seq(Rows \X (1 .. clock))]
           /\ \A z \in Sinks \ {k} : batch'[z] = batch[z]
           /\ Len(batch'[k]) = Len(batch[k]) + 1
           /\ writing' = IF Len(batch[k]) + 1 >= BatchSize THEN k ELSE "none"
           /\ channel' \in Seq((Rows \X (1 .. clock)) \cup {EndOfPoll})
    BY <1>6, ReceiveFacts
  <2>2. writing = "none"
        /\ UNCHANGED <<clock, changes, view, cursor, stage, some, sink, attempt, missed,
                       dropped, faults>>
    BY <1>6 DEF Receive, source, stream
  <2>3. \A z \in Sinks : Len(batch[z]) < BatchSize /\ Len(batch[z]) \in Nat
    BY <1>n, <1>t, <2>2, Typed
  <2>4. \A z \in Sinks : /\ Len(batch'[z]) < BatchSize \/ writing' = z
                         /\ Len(batch'[z]) <= BatchSize
    <3> DEFINE old(z) == Len(batch[z])
               new(z) == Len(batch'[z])
    <3>1. /\ \A z \in Sinks : old(z) < BatchSize /\ old(z) \in Nat
          /\ \A z \in Sinks \ {k} : new(z) = old(z)
          /\ new(k) = old(k) + 1
          /\ old(k) + 1 >= BatchSize => writing' = k
      BY <2>1, <2>3
    <3> HIDE DEF old, new
    <3>2. \A z \in Sinks : (new(z) < BatchSize \/ writing' = z) /\ new(z) <= BatchSize
      BY <1>a, <3>1
    <3> QED
      BY <3>2 DEF new
  <2>5. writing' \in Sinks \cup {"none"}
    BY <2>1
  <2> QED
    BY <1>t, <2>1, <2>2, <2>4, <2>5 DEF TypeOK
<1>7. CASE ReceiveEnd
  <2>1. /\ channel' \in Seq((Rows \X (1 .. clock)) \cup {EndOfPoll})
        /\ writing' \in Sinks \cup {"none"}
    BY <1>7, <1>t, ReceiveEndFacts
  <2>2. writing = "none"
        /\ UNCHANGED <<clock, changes, view, cursor, stage, some, batch, sink, attempt, missed,
                       dropped, faults>>
    BY <1>7 DEF ReceiveEnd, source, stream
  <2>3. \A k \in Sinks : /\ Len(batch'[k]) < BatchSize \/ writing' = k
                         /\ Len(batch'[k]) <= BatchSize
    BY <1>n, <1>t, <2>2
  <2> QED
    BY <1>t, <2>1, <2>2, <2>3 DEF TypeOK
<1>8. CASE Flush \/ FlushFails
  <2>1. /\ writing \in Sinks /\ sink' \in [Rows -> 0 .. clock]
        /\ UNCHANGED <<clock, changes, view, cursor, stage, some, channel, missed>>
        /\ dropped' \subseteq Rows \cup dropped
        /\ \/ batch' = batch /\ writing' = writing
           \/ batch' = [batch EXCEPT ![writing] = <<>>] /\ writing' = "none"
    BY <1>8, FlushFacts DEF source, stream
  <2>2. faults' \in 0 .. MaxFaults /\ attempt' \in 0 .. MaxRetries - 1
    <3>1. faults' = faults \/ (faults < MaxFaults /\ faults' = faults + 1)
      BY <1>8 DEF Flush, FlushFails, Fault
    <3>2. attempt' = 0 \/ (attempt + 1 < MaxRetries /\ attempt' = attempt + 1)
      BY <1>8 DEF Flush, FlushFails
    <3> QED
      BY <1>a, <1>f, <1>t, <3>1, <3>2
  <2>3. /\ batch' \in [Sinks -> Seq(Rows \X (1 .. clock))]
        /\ \A k \in Sinks : /\ Len(batch'[k]) < BatchSize \/ writing' = k
                            /\ Len(batch'[k]) <= BatchSize
    BY <1>e, <1>t, <2>1
  <2>4. missed' \cup dropped' \subseteq Rows
    BY <1>t, <2>1
  <2> QED
    BY <1>t, <2>1, <2>2, <2>3, <2>4 DEF TypeOK
<1>9. CASE Restart
  <2>1. /\ faults' \in 0 .. MaxFaults
        /\ UNCHANGED <<clock, changes, view, sink>>
        /\ cursor' \in [Streams -> 0 .. clock]
        /\ stage' \in Streams \cup {"complete"}
        /\ writing' = "none" /\ attempt' \in 0 .. MaxRetries - 1
        /\ missed' \cup dropped' \subseteq Rows
    BY <1>9, <1>a, <1>f, <1>t DEF Restart, Fault, source, Streams
  <2>2. some' \in BOOLEAN
    BY <1>9 DEF Restart
  <2>3. /\ channel' \in Seq((Rows \X (1 .. clock)) \cup {EndOfPoll})
        /\ batch' \in [Sinks -> Seq(Rows \X (1 .. clock))]
        /\ \A k \in Sinks : Len(batch'[k]) = 0
    BY <1>9 DEF Restart
  <2> QED
    BY <1>a, <1>t, <2>1, <2>2, <2>3 DEF TypeOK
<1>10. CASE UNCHANGED vars
  BY <1>10, <1>t DEF vars, source, stream, flushing, TypeOK
<1> QED
  BY <1>1, <1>2, <1>3, <1>4, <1>5, <1>6, <1>7, <1>8, <1>9, <1>10 DEF Next

-----------------------------------------------------------------------------
(* The order of what is on its way.                                        *)

LEMMA SyncInit == Init => SyncInv
<1> SUFFICES ASSUME Init PROVE SyncInv
  OBVIOUS
<1>1. DOMAIN channel = {} /\ \A k \in Sinks : DOMAIN batch[k] = {}
  BY DEF Init
<1>2. PollsEnd /\ InOrder
  BY <1>1 DEF PollsEnd, InOrder
<1>3. \A v : v \notin Pending
  BY <1>1, PendingIs DEF InBatch, InChannel
<1>4. \A r \in Rows : sink[r] = 0 /\ view[r] = 0
  BY DEF Init
<1>5. Between
  BY <1>1, <1>3, <1>4 DEF Between
<1>6. Passed
  BY <1>4 DEF Passed
<1> QED
  BY <1>2, <1>5, <1>6, TypeInit DEF SyncInv

\* A poll appends what is newer than all that is on its way, in an order that
\* does not matter: no row twice.
LEMMA FetchStep ==
    ASSUME SyncInv, NEW s \in Streams, Fetch(s)
    PROVE  PollsEnd' /\ InOrder' /\ Between' /\ Passed'
<1>i. TypeOK /\ PollsEnd /\ InOrder /\ Between /\ Passed
  BY DEF SyncInv
<1>1. PICK rows \in Seq(Rows) :
              /\ DOMAIN rows = 1 .. Len(rows) /\ Len(rows) \in Nat
              /\ \A j \in DOMAIN rows : /\ rows[j] \in Rows /\ rows[j][1] = s
                                        /\ view[rows[j]] > cursor[s]
                                        /\ view[rows[j]] <= cursor'[s]
              /\ \A j, k \in DOMAIN rows : j < k => rows[j] # rows[k]
              /\ channel' \in Seq((Rows \X (1 .. clock)) \cup {EndOfPoll})
              /\ DOMAIN channel' = 1 .. Len(channel) + Len(rows)
              /\ \A i \in DOMAIN channel : channel'[i] = channel[i]
              /\ \A j \in DOMAIN rows :
                    channel'[Len(channel) + j] = <<rows[j], view[rows[j]]>>
              /\ some' = (some \/ rows # <<>>)
              /\ \A r \in Rows : r[1] = s /\ (\A j \in DOMAIN rows : rows[j] # r) =>
                    /\ r \in missed => r \in missed'
                    /\ cursor[s] < view[r] /\ view[r] <= cursor'[s] => r \in missed'
              /\ \A r \in Rows : r[1] # s => (r \in missed' <=> r \in missed)
              /\ missed' \subseteq missed \cup Rows
              /\ cursor' \in [Streams -> 0 .. clock]
              /\ \A z \in Streams \ {s} : cursor'[z] = cursor[z]
  BY <1>i, FetchFacts
<1>2. /\ stage = s /\ stage' = After[s]
      /\ batch' = batch /\ view' = view /\ sink' = sink /\ dropped' = dropped
  BY DEF Fetch, source
<1>n. PICK n \in Nat : n = Len(channel)
  BY <1>i, Typed
<1>t. /\ n \in Nat /\ DOMAIN channel = 1 .. n
      /\ \A i \in DOMAIN channel : channel[i] # EndOfPoll => channel[i] \in Rows \X (1 .. clock)
      /\ \A k \in Sinks : \A i \in DOMAIN batch[k] : batch[k][i] \in Rows \X (1 .. clock)
      /\ \A r \in Rows : view[r] \in 0 .. clock /\ sink[r] \in 0 .. clock
      /\ \A z \in Streams : cursor[z] \in 0 .. clock
      /\ \A w \in Pending : w \in Rows \X (1 .. clock)
      /\ clock \in Nat
  BY <1>i, <1>n, Typed
\* The new entries.
<1>3. \A j \in DOMAIN rows :
        /\ n + j \in DOMAIN channel' /\ channel'[n + j] = <<rows[j], view[rows[j]]>>
        /\ channel'[n + j] # EndOfPoll
        /\ channel'[n + j][1] = rows[j] /\ channel'[n + j][2] = view[rows[j]]
        /\ rows[j] \in Rows /\ rows[j][1] = s /\ view[rows[j]] \in 1 .. clock
  <2> TAKE j \in DOMAIN rows
  <2>1. view[rows[j]] > cursor[s] /\ cursor[s] \in Nat /\ view[rows[j]] \in 0 .. clock
    BY <1>1, <1>t
  <2>2. n + j \in DOMAIN channel' /\ channel'[n + j] = <<rows[j], view[rows[j]]>>
    BY <1>1, <1>n, <1>t
  <2>3. view[rows[j]] # 0
    BY <2>1
  <2>4. channel'[n + j] # EndOfPoll
    BY <2>2, <2>3 DEF EndOfPoll
  <2> QED
    BY <1>1, <1>t, <2>1, <2>2, <2>3, <2>4
<1>4. \A i \in DOMAIN channel' : i \in DOMAIN channel \/ \E j \in DOMAIN rows : i = n + j
  <2> TAKE i \in DOMAIN channel'
  <2>1. i \in 1 .. n + Len(rows)
    BY <1>1, <1>n
  <2>2. CASE i > n
    <3>1. i - n \in DOMAIN rows /\ i = n + (i - n)
      BY <1>1, <1>t, <2>1, <2>2
    <3> QED
      BY <3>1
  <2> QED
    BY <1>t, <2>1, <2>2
<1>5. \A i \in DOMAIN channel : i \in DOMAIN channel' /\ channel'[i] = channel[i] /\ i <= n
  BY <1>1, <1>n, <1>t
<1>6. /\ \A i, j : EndBetween(i, j) => EndBetween(i, j)'
      /\ \A i : EndBehind(i) => EndBehind(i)'
  BY <1>5 DEF EndBetween, EndBehind
<1>7. ASSUME NEW i, EndBehind(i), NEW j \in DOMAIN rows PROVE EndBetween(i, n + j)'
  <2>1. PICK m \in DOMAIN channel : i < m /\ channel[m] = EndOfPoll
    BY <1>7 DEF EndBehind
  <2>2. m < n + j
    BY <1>1, <1>t, <2>1
  <2>3. m \in DOMAIN channel' /\ channel'[m] = EndOfPoll
    BY <1>5, <2>1
  <2> QED
    BY <2>1, <2>2, <2>3 DEF EndBetween
<1>8. ASSUME NEW w \in Rows \X (1 .. clock), OfThisPoll(w)
      PROVE  some' /\ Rank[StreamOf(w)] < Rank[stage'] /\ StreamOf(w) # s
  <2>1. StreamOf(w) \in Streams
    BY RowFacts DEF StreamOf
  <2>2. some /\ Rank[StreamOf(w)] < Rank[s]
    BY <1>2, <1>8, Zenon DEF OfThisPoll
  <2>3. some'
    BY <1>1, <2>2, Zenon
  <2>4. Rank[stage'] = Rank[s] + 1
    BY <1>2, RankFacts
  <2>5. Rank[StreamOf(w)] \in 1 .. 3 /\ Rank[s] \in 1 .. 3
    BY <2>1, RankFacts
  <2> QED
    BY <2>2, <2>3, <2>4, <2>5
<1>9. PollsEnd'
  <2>1. ASSUME NEW i \in DOMAIN channel', channel'[i] # EndOfPoll
        PROVE  EndBehind(i)' \/ (some' /\ Rank[channel'[i][1][1]] < Rank[stage'])
    <3>1. CASE i \in DOMAIN channel
      <4>1. channel[i] # EndOfPoll /\ channel[i] \in Rows \X (1 .. clock)
        BY <1>5, <1>t, <2>1, <3>1
      <4>2. EndBehind(i) \/ OfThisPoll(channel[i])
        BY <1>i, <3>1, <4>1 DEF PollsEnd
      <4> QED
        BY <1>5, <1>6, <1>8, <3>1, <4>1, <4>2 DEF StreamOf
    <3>2. ASSUME NEW j \in DOMAIN rows, i = n + j
          PROVE  some' /\ Rank[channel'[i][1][1]] < Rank[stage']
      <4>1. rows # <<>>
        BY <1>1
      <4>2. some'
        BY <1>1, <4>1, Zenon
      <4>3. channel'[i][1][1] = s
        BY <1>3, <3>2
      <4>4. Rank[stage'] = Rank[s] + 1 /\ Rank[s] \in 1 .. 3
        BY <1>2, RankFacts
      <4> QED
        BY <4>2, <4>3, <4>4
    <3> QED
      BY <1>4, <3>1, <3>2
  <2>2. ASSUME NEW k \in Sinks, NEW i \in DOMAIN batch[k]
        PROVE  EndBehind(0)' \/ (some' /\ Rank[batch[k][i][1][1]] < Rank[stage'])
    <3>1. EndBehind(0) \/ OfThisPoll(batch[k][i])
      BY <1>i DEF PollsEnd
    <3> QED
      BY <1>6, <1>8, <1>t, <3>1 DEF StreamOf
  <2> QED
    BY <1>2, <2>1, <2>2 DEF PollsEnd, OfThisPoll, StreamOf
\* Who has the row of a new entry was fetched before the last end of a poll.
<1>10. ASSUME NEW w \in Rows \X (1 .. clock), NEW j \in DOMAIN rows, w[1] = rows[j]
       PROVE  ~OfThisPoll(w) /\ (w \in Pending => w[2] <= view[rows[j]])
  <2>1. StreamOf(w) = s
    BY <1>1, <1>10 DEF StreamOf
  <2> QED
    BY <1>8, <1>10, <1>i, <2>1 DEF Between
<1>11. InOrder'
  <2>1. ASSUME NEW i \in DOMAIN channel', NEW j \in DOMAIN channel', i < j,
               channel'[i] # EndOfPoll, channel'[j] # EndOfPoll,
               channel'[i][1] = channel'[j][1]
        PROVE  channel'[i][2] <= channel'[j][2] /\ EndBetween(i, j)'
    <3>1. CASE i \in DOMAIN channel /\ j \in DOMAIN channel
      <4>1. /\ channel[i] # EndOfPoll /\ channel[j] # EndOfPoll
            /\ channel[i][1] = channel[j][1]
        BY <1>5, <2>1, <3>1
      <4>2. channel[i][2] <= channel[j][2] /\ EndBetween(i, j)
        BY <1>i, <2>1, <3>1, <4>1 DEF InOrder
      <4> QED
        BY <1>5, <1>6, <3>1, <4>2
    <3>2. ASSUME i \in DOMAIN channel, NEW jj \in DOMAIN rows, j = n + jj
          PROVE  channel'[i][2] <= channel'[j][2] /\ EndBetween(i, j)'
      <4>1. channel[i] \in Rows \X (1 .. clock) /\ channel[i] # EndOfPoll
        BY <1>5, <1>t, <2>1, <3>2
      <4>2. channel[i][1] = rows[jj]
        BY <1>3, <1>5, <2>1, <3>2
      <4>3. channel[i] \in Pending
        BY <3>2, <4>1, PendingIs DEF InChannel
      <4>4. EndBehind(i) /\ channel[i][2] <= view[rows[jj]]
        BY <1>10, <1>i, <3>2, <4>1, <4>2, <4>3 DEF PollsEnd
      <4> QED
        BY <1>3, <1>5, <1>7, <3>2, <4>4
    <3>3. ASSUME NEW ii \in DOMAIN rows, i = n + ii
          PROVE  FALSE
      <4>1. j \notin DOMAIN channel
        BY <1>1, <1>t, <2>1, <3>3
      <4>2. PICK jj \in DOMAIN rows : j = n + jj
        BY <1>4, <4>1
      <4>3. ii < jj /\ rows[ii] = rows[jj]
        BY <1>1, <1>3, <1>t, <2>1, <3>3, <4>2
      <4> QED
        BY <1>1, <4>3
    <3> QED
      BY <1>4, <3>1, <3>2, <3>3
  <2>2. ASSUME NEW k \in Sinks, NEW i \in DOMAIN batch[k], NEW j \in DOMAIN channel',
               channel'[j] # EndOfPoll, batch[k][i][1] = channel'[j][1]
        PROVE  batch[k][i][2] <= channel'[j][2] /\ EndBetween(0, j)'
    <3>1. CASE j \in DOMAIN channel
      <4>1. batch[k][i][2] <= channel[j][2] /\ EndBetween(0, j)
        BY <1>5, <1>i, <2>2, <3>1 DEF InOrder
      <4> QED
        BY <1>5, <1>6, <3>1, <4>1
    <3>2. ASSUME NEW jj \in DOMAIN rows, j = n + jj
          PROVE  batch[k][i][2] <= channel'[j][2] /\ EndBetween(0, j)'
      <4>1. batch[k][i] \in Rows \X (1 .. clock) /\ batch[k][i][1] = rows[jj]
        BY <1>3, <1>t, <2>2, <3>2
      <4>2. batch[k][i] \in Pending
        BY PendingIs DEF InBatch
      <4>3. EndBehind(0) /\ batch[k][i][2] <= view[rows[jj]]
        BY <1>10, <1>i, <4>1, <4>2 DEF PollsEnd
      <4> QED
        BY <1>3, <1>7, <3>2, <4>3
    <3> QED
      BY <1>4, <3>1, <3>2
  <2>3. \A k \in Sinks : \A i, j \in DOMAIN batch[k] :
          batch[k][i][1] = batch[k][j][1] => i = j
    BY <1>i DEF InOrder
  <2> QED
    BY <1>2, <2>1, <2>2, <2>3 DEF InOrder
\* What is on its way: the old entries and the new ones.
<1>12. \A v : v \in Pending' <=>
          v \in Pending \/ \E j \in DOMAIN rows : v = <<rows[j], view[rows[j]]>>
  <2> TAKE v
  <2>1. InBatch(v)' <=> InBatch(v)
    BY <1>2 DEF InBatch
  <2>2. InChannel(v) => InChannel(v)'
    BY <1>5 DEF InChannel
  <2>3. ASSUME NEW j \in DOMAIN rows, v = <<rows[j], view[rows[j]]>>
        PROVE  InChannel(v)'
    <3>1. n + j \in DOMAIN channel' /\ channel'[n + j] = v /\ v # EndOfPoll
      BY <1>3, <2>3
    <3> QED
      BY <3>1 DEF InChannel
  <2>4. ASSUME InChannel(v)', ~InChannel(v)
        PROVE  \E j \in DOMAIN rows : v = <<rows[j], view[rows[j]]>>
    <3>1. PICK i \in DOMAIN channel' : v = channel'[i] /\ v # EndOfPoll
      BY <2>4 DEF InChannel
    <3>2. i \notin DOMAIN channel
      BY <1>5, <2>4, <3>1 DEF InChannel
    <3> QED
      BY <1>3, <1>4, <3>1, <3>2
  <2> QED
    BY <2>1, <2>2, <2>3, <2>4, PendingIs
<1>13. Between'
  <2>1. ASSUME NEW v \in Pending' PROVE sink[v[1]] <= v[2] /\ v[2] <= view[v[1]]
    <3>1. CASE v \in Pending
      BY <1>i, <3>1 DEF Between
    <3>2. ASSUME NEW j \in DOMAIN rows, v = <<rows[j], view[rows[j]]>>
          PROVE  sink[v[1]] <= v[2] /\ v[2] <= view[v[1]]
      <4>1. rows[j] \in Rows
        BY <1>1
      <4>2. sink[rows[j]] <= view[rows[j]] /\ view[rows[j]] \in Nat
        BY <1>i, <1>t, <4>1 DEF Between
      <4> QED
        BY <3>2, <4>2
    <3> QED
      BY <1>12, <3>1, <3>2
  <2> QED
    BY <1>2, <1>i, <2>1 DEF Between
<1>14. Passed'
  <2>1. SUFFICES ASSUME NEW r \in Rows, 0 < view[r], view[r] <= cursor'[r[1]], r \notin missed'
                 PROVE  \/ <<r, view[r]>> \in Pending'
                        \/ r \notin Waiting' /\ (sink[r] = view[r] \/ r \in dropped)
    BY <1>2 DEF Passed
  <2>2. CASE \E j \in DOMAIN rows : rows[j] = r
    BY <1>12, <2>2
  <2>3. CASE ~ \E j \in DOMAIN rows : rows[j] = r
    <3>1. r \notin missed /\ view[r] <= cursor[r[1]]
      <4>1. CASE r[1] = s
        <5>1. r \notin missed /\ ~(cursor[s] < view[r])
          BY <1>1, <2>1, <2>3, <4>1
        <5> QED
          BY <1>t, <4>1, <5>1
      <4>2. CASE r[1] # s
        <5>1. r[1] \in Streams
          BY RowFacts
        <5> QED
          BY <1>1, <2>1, <4>2, <5>1
      <4> QED
        BY <4>1, <4>2
    <3>2. \/ <<r, view[r]>> \in Pending
          \/ r \notin Waiting /\ (sink[r] = view[r] \/ r \in dropped)
      BY <1>i, <2>1, <3>1 DEF Passed
    <3>3. r \in Waiting' => r \in Waiting
      BY <1>12, <2>3, PendingIs
    <3> QED
      BY <1>12, <3>2, <3>3
  <2> QED
    BY <2>2, <2>3
<1> QED
  BY <1>9, <1>11, <1>13, <1>14

\* The views only get newer; a row that is written at the time of its cursor, or
\* before it, is missed.
LEMMA ViewStep ==
    ASSUME SyncInv, Tick \/ (\E r \in Rows : Change(r)) \/ UNCHANGED vars
    PROVE  PollsEnd' /\ InOrder' /\ Between' /\ Passed'
<1>i. TypeOK /\ PollsEnd /\ InOrder /\ Between /\ Passed
  BY DEF SyncInv
<1>1. UNCHANGED <<cursor, stage, some, channel, batch, sink, dropped>>
  BY DEF Tick, Change, vars, stream, flushing
<1>2. \A r \in Rows : \/ view'[r] = view[r] /\ (r \in missed => r \in missed')
                      \/ view'[r] \in Nat /\ view'[r] >= view[r] /\ (view'[r] > cursor[r[1]] \/ r \in missed')
  <2>1. CASE Tick \/ UNCHANGED vars
    BY <2>1 DEF Tick, vars, source
  <2>2. ASSUME NEW q \in Rows, Change(q)
        PROVE  \A r \in Rows :
                  \/ view'[r] = view[r] /\ (r \in missed => r \in missed')
                  \/ view'[r] \in Nat /\ view'[r] >= view[r] /\ (view'[r] > cursor[r[1]] \/ r \in missed')
    <3> TAKE r \in Rows
    <3>1. clock \in Nat /\ view \in [Rows -> 0 .. clock] /\ cursor[r[1]] \in 0 .. clock
      BY <1>i, RowFacts, Typed DEF TypeOK
    <3>2. CASE r = q
      <4>1. view'[q] = clock /\ view[q] < clock
        BY <2>2, <3>1 DEF Change
      <4>2. clock <= cursor[q[1]] => q \in missed'
        BY <2>2 DEF Change
      <4>3. view[q] \in 0 .. clock
        BY <3>1
      <4> QED
        BY <3>1, <3>2, <4>1, <4>2, <4>3
    <3>3. CASE r # q
      BY <2>2, <3>1, <3>3 DEF Change
    <3> QED
      BY <3>2, <3>3
  <2> QED
    BY <2>1, <2>2
<1>3. PollsEnd'
  BY <1>1, <1>i DEF PollsEnd, EndBehind, OfThisPoll
<1>4. InOrder'
  BY <1>1, <1>i DEF InOrder, EndBetween
<1>5. (\A v : v \in Pending' <=> v \in Pending) /\ (\A r : r \in Waiting' <=> r \in Waiting)
  BY <1>1, PendingIs DEF InBatch, InChannel
<1>6. \A r \in Rows : view'[r] >= view[r] /\ view[r] \in Nat /\ sink[r] \in Nat
  <2>1. \A r \in Rows : view[r] \in Nat /\ sink[r] \in Nat
    BY <1>i, Typed
  <2> QED
    BY <1>2, <2>1
<1>t. clock \in Nat /\ \A w \in Pending : w[1] \in Rows /\ w[2] \in Nat
  BY <1>i, EntryFacts, Typed
<1>v. \A r \in Rows : view'[r] \in Nat
  BY <1>2, <1>6
<1>7. Between'
  <2>1. \A r \in Rows : sink[r] <= view'[r]
    BY <1>6, <1>i, <1>v DEF Between
  <2>2. \A w \in Pending : sink[w[1]] <= w[2] /\ w[2] <= view'[w[1]]
    <3> TAKE w \in Pending
    <3>1. sink[w[1]] <= w[2] /\ w[2] <= view[w[1]]
      BY <1>i DEF Between
    <3> QED
      BY <1>6, <1>t, <1>v, <3>1
  <2> QED
    BY <1>1, <1>5, <1>i, <2>1, <2>2 DEF Between
<1>8. Passed'
  <2>1. SUFFICES ASSUME NEW r \in Rows, 0 < view'[r], view'[r] <= cursor[r[1]],
                        r \notin missed'
                 PROVE  \/ <<r, view'[r]>> \in Pending
                        \/ r \notin Waiting /\ (sink[r] = view'[r] \/ r \in dropped)
    BY <1>1, <1>5 DEF Passed
  <2>2. cursor[r[1]] \in Nat
    <3>1. cursor[r[1]] \in 0 .. clock
      BY <1>i, RowFacts, Typed
    <3> QED
      BY <1>t, <3>1
  <2>3. view'[r] = view[r] /\ r \notin missed
    BY <1>2, <1>v, <2>1, <2>2
  <2> QED
    BY <1>i, <2>1, <2>3 DEF Passed
<1> QED
  BY <1>3, <1>4, <1>7, <1>8

\* A poll that ends says so behind all that it fetched.
LEMMA PollStep ==
    ASSUME SyncInv, Unavailable \/ EndPoll
    PROVE  PollsEnd' /\ InOrder' /\ Between' /\ Passed'
<1>i. TypeOK /\ PollsEnd /\ InOrder /\ Between /\ Passed
  BY DEF SyncInv
<1>1. UNCHANGED <<view, cursor, batch, sink, missed, dropped>>
  BY DEF Unavailable, EndPoll, source
<1>t. /\ Len(channel) \in Nat /\ DOMAIN channel = 1 .. Len(channel)
      /\ \A i \in DOMAIN channel : channel[i] # EndOfPoll => channel[i] \in Rows \X (1 .. clock)
      /\ \A k \in Sinks : \A i \in DOMAIN batch[k] : batch[k][i] \in Rows \X (1 .. clock)
  BY <1>i, Typed
<1>2. \/ channel' = channel
      \/ /\ DOMAIN channel' = 1 .. Len(channel) + 1
         /\ \A i \in DOMAIN channel : channel'[i] = channel[i]
         /\ channel'[Len(channel) + 1] = EndOfPoll
  <2>1. CASE channel' = Append(channel, EndOfPoll)
    <3>1. ASSUME NEW S, NEW q \in Seq(S), NEW e \in S
          PROVE  /\ DOMAIN Append(q, e) = 1 .. Len(q) + 1
                 /\ \A i \in DOMAIN q : Append(q, e)[i] = q[i]
                 /\ Append(q, e)[Len(q) + 1] = e
      OBVIOUS
    <3>2. channel \in Seq((Rows \X (1 .. clock)) \cup {EndOfPoll})
      BY <1>i, Typed
    <3> QED
      BY <2>1, <3>1, <3>2
  <2>2. CASE channel' # Append(channel, EndOfPoll)
    BY <2>2 DEF Unavailable, EndPoll
  <2> QED
    BY <2>1, <2>2
<1>3. /\ \A i \in DOMAIN channel : i \in DOMAIN channel' /\ channel'[i] = channel[i]
      /\ \A i \in DOMAIN channel' : channel'[i] # EndOfPoll => i \in DOMAIN channel
  <2>1. \A i \in 1 .. Len(channel) + 1 : i \in 1 .. Len(channel) \/ i = Len(channel) + 1
    BY <1>t
  <2>2. 1 .. Len(channel) \subseteq 1 .. Len(channel) + 1
    BY <1>t
  <2> QED
    BY <1>2, <1>t, <2>1, <2>2
<1>4. /\ \A i, j : EndBetween(i, j) => EndBetween(i, j)'
      /\ \A i : EndBehind(i) => EndBehind(i)'
  BY <1>3 DEF EndBetween, EndBehind
<1>5. ASSUME NEW w \in Rows \X (1 .. clock), OfThisPoll(w),
             NEW i \in DOMAIN channel \cup {0}
      PROVE  EndBehind(i)' \/ OfThisPoll(w)'
  <2>1. StreamOf(w) \in Streams
    BY RowFacts DEF StreamOf
  <2>2. some /\ Rank[StreamOf(w)] < Rank[stage]
    BY <1>5, Zenon DEF OfThisPoll
  <2>3. CASE Unavailable
    <3>1. stage \in Streams /\ stage' = After[stage] /\ Rank[stage'] = Rank[stage] + 1
      BY <1>i, <2>3, RankFacts DEF Unavailable, TypeOK
    <3>2. some'
      BY <2>2, <2>3, Zenon DEF Unavailable
    <3>3. Rank[StreamOf(w)] < Rank[stage']
      BY <2>1, <2>2, <3>1, RankFacts
    <3> QED
      BY <3>2, <3>3, Zenon DEF OfThisPoll, StreamOf
  <2>4. CASE EndPoll
    <3>1. channel' = Append(channel, EndOfPoll)
      BY <2>2, <2>4, Zenon DEF EndPoll
    <3>2. Len(channel') = Len(channel) + 1
      <4>1. ASSUME NEW S, NEW q \in Seq(S), NEW e \in S PROVE Len(Append(q, e)) = Len(q) + 1
        OBVIOUS
      <4>2. channel \in Seq((Rows \X (1 .. clock)) \cup {EndOfPoll})
        BY <1>i, Typed
      <4> QED
        BY <3>1, <4>1, <4>2
    <3>3. channel' # channel
      BY <1>t, <3>2
    <3>4. /\ Len(channel) + 1 \in DOMAIN channel' /\ i < Len(channel) + 1
          /\ channel'[Len(channel) + 1] = EndOfPoll
      BY <1>2, <1>t, <3>3
    <3> QED
      BY <3>4 DEF EndBehind
  <2> QED
    BY <2>3, <2>4
<1>6. PollsEnd'
  <2>1. ASSUME NEW i \in DOMAIN channel', channel'[i] # EndOfPoll
        PROVE  EndBehind(i)' \/ OfThisPoll(channel[i])'
    <3>1. i \in DOMAIN channel /\ channel[i] # EndOfPoll
      BY <1>3, <2>1
    <3>2. EndBehind(i) \/ OfThisPoll(channel[i])
      BY <1>i, <3>1 DEF PollsEnd
    <3>3. channel[i] \in Rows \X (1 .. clock) /\ channel'[i] = channel[i]
      BY <1>3, <1>t, <3>1
    <3>4. OfThisPoll(channel[i]) => EndBehind(i)' \/ (some' /\ Rank[channel[i][1][1]] < Rank[stage'])
      BY <1>5, <3>1, <3>3 DEF OfThisPoll, StreamOf
    <3> QED
      BY <1>4, <3>2, <3>3, <3>4 DEF OfThisPoll, StreamOf
  <2>2. ASSUME NEW k \in Sinks, NEW i \in DOMAIN batch[k]
        PROVE  EndBehind(0)' \/ (some' /\ Rank[batch[k][i][1][1]] < Rank[stage'])
    <3>1. EndBehind(0) \/ OfThisPoll(batch[k][i])
      BY <1>i DEF PollsEnd
    <3>2. OfThisPoll(batch[k][i]) =>
             EndBehind(0)' \/ (some' /\ Rank[batch[k][i][1][1]] < Rank[stage'])
      BY <1>5, <1>t DEF OfThisPoll, StreamOf
    <3> QED
      BY <1>4, <3>1, <3>2
  <2> QED
    BY <1>1, <2>1, <2>2 DEF PollsEnd, OfThisPoll, StreamOf
<1>7. InOrder'
  <2>1. ASSUME NEW i \in DOMAIN channel', NEW j \in DOMAIN channel', i < j,
               channel'[i] # EndOfPoll, channel'[j] # EndOfPoll,
               channel'[i][1] = channel'[j][1]
        PROVE  channel'[i][2] <= channel'[j][2] /\ EndBetween(i, j)'
    <3>1. /\ i \in DOMAIN channel /\ j \in DOMAIN channel
          /\ channel'[i] = channel[i] /\ channel'[j] = channel[j]
      BY <1>3, <2>1
    <3>2. channel[i][2] <= channel[j][2] /\ EndBetween(i, j)
      BY <1>i, <2>1, <3>1 DEF InOrder
    <3> QED
      BY <1>4, <3>1, <3>2
  <2>2. ASSUME NEW k \in Sinks, NEW i \in DOMAIN batch[k], NEW j \in DOMAIN channel',
               channel'[j] # EndOfPoll, batch[k][i][1] = channel'[j][1]
        PROVE  batch[k][i][2] <= channel'[j][2] /\ EndBetween(0, j)'
    <3>1. j \in DOMAIN channel /\ channel'[j] = channel[j]
      BY <1>3, <2>2
    <3>2. batch[k][i][2] <= channel[j][2] /\ EndBetween(0, j)
      BY <1>i, <2>2, <3>1 DEF InOrder
    <3> QED
      BY <1>4, <3>1, <3>2
  <2>3. \A k \in Sinks : \A i, j \in DOMAIN batch[k] :
          batch[k][i][1] = batch[k][j][1] => i = j
    BY <1>i DEF InOrder
  <2> QED
    BY <1>1, <2>1, <2>2, <2>3 DEF InOrder
<1>8. (\A v : v \in Pending' <=> v \in Pending) /\ (\A r : r \in Waiting' <=> r \in Waiting)
  <2>1. \A v : InBatch(v)' <=> InBatch(v)
    BY <1>1 DEF InBatch
  <2>2. \A v : InChannel(v)' <=> InChannel(v)
    BY <1>3 DEF InChannel
  <2> QED
    BY <2>1, <2>2, PendingIs
<1>9. Between' /\ Passed'
  BY <1>1, <1>8, <1>i DEF Between, Passed
<1> QED
  BY <1>6, <1>7, <1>9

\* The places in the channel when its head is received.
LEMMA Shift ==
    ASSUME TypeOK, Len(channel) >= 1,
           DOMAIN channel' = 1 .. Len(channel) - 1,
           \A i \in DOMAIN channel' : channel'[i] = channel[i + 1]
    PROVE  /\ 1 \in DOMAIN channel
           /\ \A i \in DOMAIN channel' : i \in Nat /\ i + 1 \in DOMAIN channel
           /\ \A i \in DOMAIN channel : i = 1 \/ \E j \in DOMAIN channel' : i = j + 1
           /\ \A i \in Nat : EndBehind(i + 1) => EndBehind(i)'
           /\ \A i, j \in Nat : EndBetween(i + 1, j + 1) => EndBetween(i, j)'
           /\ channel[1] # EndOfPoll =>
                 /\ EndBehind(0) => EndBehind(0)'
                 /\ \A j \in Nat : EndBetween(0, j + 1) => EndBetween(0, j)'
           /\ ~EndBetween(0, 1)
<1>n. PICK n \in Nat : n = Len(channel)
  BY Typed
<1>1. DOMAIN channel = 1 .. n /\ DOMAIN channel' = 1 .. n - 1 /\ n >= 1
  BY <1>n, Typed
<1>2. /\ 1 \in DOMAIN channel
      /\ \A i \in DOMAIN channel' : i \in Nat /\ i + 1 \in DOMAIN channel
  BY <1>1
<1>3. ASSUME NEW i \in DOMAIN channel, i # 1
      PROVE  \E j \in DOMAIN channel' : i = j + 1 /\ channel'[j] = channel[i]
  <2>1. i - 1 \in DOMAIN channel' /\ i = (i - 1) + 1
    BY <1>1, <1>3
  <2> QED
    BY <2>1
<1>4. ASSUME NEW i \in Nat, EndBehind(i + 1) PROVE EndBehind(i)'
  <2>1. PICK m \in DOMAIN channel : i + 1 < m /\ channel[m] = EndOfPoll
    BY <1>4 DEF EndBehind
  <2>2. PICK l \in DOMAIN channel' : m = l + 1 /\ channel'[l] = channel[m]
    BY <1>3, <2>1
  <2>3. i < l
    BY <1>1, <2>1, <2>2
  <2> QED
    BY <2>1, <2>2, <2>3 DEF EndBehind
<1>5. ASSUME NEW i \in Nat, NEW j \in Nat, EndBetween(i + 1, j + 1) PROVE EndBetween(i, j)'
  <2>1. PICK m \in DOMAIN channel : i + 1 < m /\ m < j + 1 /\ channel[m] = EndOfPoll
    BY <1>5 DEF EndBetween
  <2>2. PICK l \in DOMAIN channel' : m = l + 1 /\ channel'[l] = channel[m]
    BY <1>3, <2>1
  <2>3. i < l /\ l < j
    BY <1>1, <2>1, <2>2
  <2> QED
    BY <2>1, <2>2, <2>3 DEF EndBetween
<1>6. ASSUME channel[1] # EndOfPoll
      PROVE  /\ EndBehind(0) => EndBehind(0)'
             /\ \A j \in Nat : EndBetween(0, j + 1) => EndBetween(0, j)'
  <2>1. EndBehind(0) => EndBehind(0 + 1)
    <3>1. \A m \in DOMAIN channel : m # 1 => 0 + 1 < m
      BY <1>1
    <3> QED
      BY <1>6, <3>1 DEF EndBehind
  <2>2. \A j \in Nat : EndBetween(0, j + 1) => EndBetween(0 + 1, j + 1)
    <3>1. \A m \in DOMAIN channel : m # 1 => 0 + 1 < m
      BY <1>1
    <3> QED
      BY <1>6, <3>1 DEF EndBetween
  <2> QED
    BY <1>4, <1>5, <2>1, <2>2
<1>7. ~EndBetween(0, 1)
  BY <1>1 DEF EndBetween
<1> QED
  BY <1>2, <1>3, <1>4, <1>5, <1>6, <1>7

\* The head of the channel joins its batch.
LEMMA ReceiveStep ==
    ASSUME SyncInv, Receive
    PROVE  PollsEnd' /\ InOrder' /\ Between' /\ Passed'
<1>i. TypeOK /\ PollsEnd /\ InOrder /\ Between /\ Passed
  BY DEF SyncInv
<1>1. PICK w \in Rows \X (1 .. clock), k \in Sinks :
              /\ Len(channel) >= 1 /\ w = channel[1] /\ k = SinkOf(w[1])
              /\ w # EndOfPoll
              /\ \A z \in Sinks \ {k} : batch'[z] = batch[z]
              /\ DOMAIN batch'[k] = 1 .. Len(batch[k]) + 1
              /\ \A i \in DOMAIN batch[k] : batch'[k][i] = batch[k][i]
              /\ batch'[k][Len(batch[k]) + 1] = w
              /\ DOMAIN channel' = 1 .. Len(channel) - 1
              /\ \A i \in DOMAIN channel' : channel'[i] = channel[i + 1]
  BY <1>i, ReceiveFacts
<1>2. UNCHANGED <<view, cursor, stage, some, sink, missed, dropped>>
  BY DEF Receive, source, stream
<1>m. PICK m \in Nat : m = Len(batch[k]) /\ DOMAIN batch[k] = 1 .. m
  BY <1>i, Typed
<1>3. /\ 1 \in DOMAIN channel
      /\ \A i \in DOMAIN channel' : i \in Nat /\ i + 1 \in DOMAIN channel
      /\ \A i \in DOMAIN channel : i = 1 \/ \E j \in DOMAIN channel' : i = j + 1
      /\ \A i \in Nat : EndBehind(i + 1) => EndBehind(i)'
      /\ \A i, j \in Nat : EndBetween(i + 1, j + 1) => EndBetween(i, j)'
      /\ EndBehind(0) => EndBehind(0)'
      /\ \A j \in Nat : EndBetween(0, j + 1) => EndBetween(0, j)'
      /\ ~EndBetween(0, 1)
  BY <1>1, <1>i, Shift
\* An entry of a batch is one of before, or the head.
<1>4. \A z \in Sinks : \A i \in DOMAIN batch'[z] :
        \/ i \in DOMAIN batch[z] /\ batch'[z][i] = batch[z][i]
        \/ z = k /\ i = m + 1 /\ batch'[z][i] = w
  <2>1. \A i \in 1 .. m + 1 : i \in 1 .. m \/ i = m + 1
    OBVIOUS
  <2> QED
    BY <1>1, <1>m, <2>1
<1>5. /\ \A z \in Sinks : \A i \in DOMAIN batch[z] :
            i \in DOMAIN batch'[z] /\ batch'[z][i] = batch[z][i]
      /\ m + 1 \in DOMAIN batch'[k] /\ batch'[k][m + 1] = w
  <2>1. m + 1 \in 1 .. m + 1 /\ \A i \in 1 .. m : i \in 1 .. m + 1
    OBVIOUS
  <2> QED
    BY <1>1, <1>m, <2>1
<1>6. PollsEnd'
  <2>1. ASSUME NEW i \in DOMAIN channel', channel'[i] # EndOfPoll
        PROVE  EndBehind(i)' \/ (some /\ Rank[channel'[i][1][1]] < Rank[stage])
    <3>1. i + 1 \in DOMAIN channel /\ channel[i + 1] # EndOfPoll /\ channel'[i] = channel[i + 1]
      BY <1>1, <1>3, <2>1
    <3>2. EndBehind(i + 1) \/ OfThisPoll(channel[i + 1])
      BY <1>i, <3>1 DEF PollsEnd
    <3> QED
      BY <1>3, <3>1, <3>2 DEF OfThisPoll, StreamOf
  <2>2. ASSUME NEW z \in Sinks, NEW i \in DOMAIN batch'[z]
        PROVE  EndBehind(0)' \/ (some /\ Rank[batch'[z][i][1][1]] < Rank[stage])
    <3>1. CASE i \in DOMAIN batch[z] /\ batch'[z][i] = batch[z][i]
      <4>1. EndBehind(0) \/ OfThisPoll(batch[z][i])
        BY <1>i, <3>1 DEF PollsEnd
      <4> QED
        BY <1>3, <3>1, <4>1 DEF OfThisPoll, StreamOf
    <3>2. CASE batch'[z][i] = w
      <4>1. EndBehind(1) \/ OfThisPoll(w)
        BY <1>1, <1>3, <1>i DEF PollsEnd
      <4>2. EndBehind(0 + 1) => EndBehind(0)'
        BY <1>3
      <4>3. EndBehind(1) => EndBehind(0)'
        BY <4>2
      <4> QED
        BY <3>2, <4>1, <4>3 DEF OfThisPoll, StreamOf
    <3> QED
      BY <1>4, <3>1, <3>2
  <2> QED
    BY <1>2, <2>1, <2>2 DEF PollsEnd, OfThisPoll, StreamOf
<1>7. InOrder'
  <2>1. ASSUME NEW i \in DOMAIN channel', NEW j \in DOMAIN channel', i < j,
               channel'[i] # EndOfPoll, channel'[j] # EndOfPoll,
               channel'[i][1] = channel'[j][1]
        PROVE  channel'[i][2] <= channel'[j][2] /\ EndBetween(i, j)'
    <3>1. /\ i + 1 \in DOMAIN channel /\ j + 1 \in DOMAIN channel /\ i + 1 < j + 1
          /\ channel'[i] = channel[i + 1] /\ channel'[j] = channel[j + 1]
      BY <1>1, <1>3, <2>1
    <3>2. channel[i + 1][2] <= channel[j + 1][2] /\ EndBetween(i + 1, j + 1)
      BY <1>i, <2>1, <3>1 DEF InOrder
    <3> QED
      BY <1>3, <3>1, <3>2
  <2>2. ASSUME NEW z \in Sinks, NEW i \in DOMAIN batch'[z], NEW j \in DOMAIN channel',
               channel'[j] # EndOfPoll, batch'[z][i][1] = channel'[j][1]
        PROVE  batch'[z][i][2] <= channel'[j][2] /\ EndBetween(0, j)'
    <3>1. j + 1 \in DOMAIN channel /\ channel'[j] = channel[j + 1] /\ j \in Nat
      BY <1>1, <1>3
    <3>2. CASE i \in DOMAIN batch[z] /\ batch'[z][i] = batch[z][i]
      <4>1. batch[z][i][2] <= channel[j + 1][2] /\ EndBetween(0, j + 1)
        BY <1>i, <2>2, <3>1, <3>2 DEF InOrder
      <4> QED
        BY <1>3, <3>1, <3>2, <4>1
    <3>3. CASE batch'[z][i] = w
      <4>1. channel[1] # EndOfPoll /\ 1 < j + 1 /\ channel[1][1] = channel[j + 1][1]
        <5>1. 1 .. Len(channel) - 1 \subseteq Nat \ {0}
          BY <1>i, Typed
        <5> QED
          BY <1>1, <2>2, <3>1, <3>3, <5>1
      <4>2. w[2] <= channel[j + 1][2] /\ EndBetween(1, j + 1)
        BY <1>1, <1>3, <1>i, <2>2, <3>1, <4>1 DEF InOrder
      <4>3. EndBetween(0 + 1, j + 1)
        BY <4>2
      <4>4. EndBetween(0, j)'
        BY <1>3, <3>1, <4>3
      <4> QED
        BY <3>1, <3>3, <4>2, <4>4
    <3> QED
      BY <1>4, <3>2, <3>3
  \* The head is of another poll than a row of its batch.
  <2>3. \A i \in DOMAIN batch[k] : batch[k][i][1] # w[1]
    BY <1>1, <1>3, <1>i DEF InOrder
  <2>4. ASSUME NEW z \in Sinks, NEW i \in DOMAIN batch'[z], NEW j \in DOMAIN batch'[z],
               batch'[z][i][1] = batch'[z][j][1]
        PROVE  i = j
    <3>1. CASE i \in DOMAIN batch[z] /\ j \in DOMAIN batch[z]
      BY <1>5, <1>i, <2>4, <3>1 DEF InOrder
    <3>2. CASE ~(i \in DOMAIN batch[z] /\ j \in DOMAIN batch[z])
      BY <1>4, <2>3, <2>4, <3>2
    <3> QED
      BY <3>1, <3>2
  <2> QED
    BY <2>1, <2>2, <2>4 DEF InOrder
<1>8. (\A v : v \in Pending' <=> v \in Pending) /\ (\A r : r \in Waiting' <=> r \in Waiting)
  <2>1. ASSUME NEW v, InBatch(v)' \/ InChannel(v)' PROVE InBatch(v) \/ InChannel(v)
    <3>1. CASE InBatch(v)'
      <4>1. PICK z \in Sinks : \E i \in DOMAIN batch'[z] : v = batch'[z][i]
        BY <3>1 DEF InBatch
      <4>2. PICK i \in DOMAIN batch'[z] : v = batch'[z][i]
        BY <4>1
      <4> QED
        BY <1>1, <1>3, <1>4, <4>2 DEF InBatch, InChannel
    <3>2. CASE InChannel(v)'
      BY <1>1, <1>3, <3>2 DEF InChannel
    <3> QED
      BY <2>1, <3>1, <3>2
  <2>2. ASSUME NEW v, InBatch(v) \/ InChannel(v) PROVE InBatch(v)' \/ InChannel(v)'
    <3>1. CASE InBatch(v)
      BY <1>5, <3>1 DEF InBatch
    <3>2. CASE InChannel(v)
      <4>1. PICK i \in DOMAIN channel : v = channel[i] /\ v # EndOfPoll
        BY <3>2 DEF InChannel
      <4>2. CASE i = 1
        BY <1>1, <1>5, <4>1, <4>2 DEF InBatch
      <4>3. CASE i # 1
        BY <1>1, <1>3, <4>1, <4>3 DEF InChannel
      <4> QED
        BY <4>2, <4>3
    <3> QED
      BY <2>2, <3>1, <3>2
  <2> QED
    BY <2>1, <2>2, PendingIs
<1>9. Between'
  <2>1. \A z \in Sinks : \A i \in DOMAIN batch'[z] : SinkOf(batch'[z][i][1]) = z
    BY <1>1, <1>4, <1>i DEF Between
  <2> QED
    BY <1>2, <1>8, <1>i, <2>1 DEF Between
<1>10. Passed'
  BY <1>2, <1>8, <1>i DEF Passed
<1> QED
  BY <1>6, <1>7, <1>9, <1>10

\* The end of a poll leaves the channel when nothing is left to be sent.
LEMMA ReceiveEndStep ==
    ASSUME SyncInv, ReceiveEnd
    PROVE  PollsEnd' /\ InOrder' /\ Between' /\ Passed'
<1>i. TypeOK /\ PollsEnd /\ InOrder /\ Between /\ Passed
  BY DEF SyncInv
<1>1. UNCHANGED <<view, cursor, stage, some, batch, sink, missed, dropped>>
  BY DEF ReceiveEnd, source, stream
<1>2. CASE channel' = channel
  <2>1. PollsEnd'
    BY <1>1, <1>2, <1>i DEF PollsEnd, EndBehind, OfThisPoll
  <2>2. InOrder'
    BY <1>1, <1>2, <1>i DEF InOrder, EndBetween
  <2>3. (\A v : v \in Pending' <=> v \in Pending) /\ (\A r : r \in Waiting' <=> r \in Waiting)
    BY <1>1, <1>2, PendingIs DEF InBatch, InChannel
  <2> QED
    BY <1>1, <1>i, <2>1, <2>2, <2>3 DEF Between, Passed
<1>3. CASE channel' # channel
  <2>1. /\ Len(channel) >= 1 /\ channel[1] = EndOfPoll
        /\ \A k \in Sinks : batch[k] = <<>>
        /\ DOMAIN channel' = 1 .. Len(channel) - 1
        /\ \A i \in DOMAIN channel' : channel'[i] = channel[i + 1]
    BY <1>3, <1>i, ReceiveEndFacts
  <2>2. /\ \A i \in DOMAIN channel' : i \in Nat /\ i + 1 \in DOMAIN channel
        /\ \A i \in DOMAIN channel : i = 1 \/ \E j \in DOMAIN channel' : i = j + 1
        /\ \A i \in Nat : EndBehind(i + 1) => EndBehind(i)'
        /\ \A i, j \in Nat : EndBetween(i + 1, j + 1) => EndBetween(i, j)'
    BY <1>i, <2>1, Shift
  <2>3. \A k \in Sinks : DOMAIN batch[k] = {}
    BY <2>1
  <2>4. PollsEnd'
    <3>1. ASSUME NEW i \in DOMAIN channel', channel'[i] # EndOfPoll
          PROVE  EndBehind(i)' \/ (some /\ Rank[channel'[i][1][1]] < Rank[stage])
      <4>1. /\ i + 1 \in DOMAIN channel /\ channel[i + 1] # EndOfPoll
            /\ channel'[i] = channel[i + 1]
        BY <2>1, <2>2, <3>1
      <4>2. EndBehind(i + 1) \/ OfThisPoll(channel[i + 1])
        BY <1>i, <4>1 DEF PollsEnd
      <4> QED
        BY <2>2, <4>1, <4>2 DEF OfThisPoll, StreamOf
    <3> QED
      BY <1>1, <2>3, <3>1 DEF PollsEnd, OfThisPoll, StreamOf
  <2>5. InOrder'
    <3>1. ASSUME NEW i \in DOMAIN channel', NEW j \in DOMAIN channel', i < j,
                 channel'[i] # EndOfPoll, channel'[j] # EndOfPoll,
                 channel'[i][1] = channel'[j][1]
          PROVE  channel'[i][2] <= channel'[j][2] /\ EndBetween(i, j)'
      <4>1. /\ i + 1 \in DOMAIN channel /\ j + 1 \in DOMAIN channel /\ i + 1 < j + 1
            /\ channel'[i] = channel[i + 1] /\ channel'[j] = channel[j + 1]
        BY <2>1, <2>2, <3>1
      <4>2. channel[i + 1][2] <= channel[j + 1][2] /\ EndBetween(i + 1, j + 1)
        BY <1>i, <3>1, <4>1 DEF InOrder
      <4> QED
        BY <2>2, <4>1, <4>2
    <3> QED
      BY <1>1, <2>3, <3>1 DEF InOrder
  <2>6. (\A v : v \in Pending' <=> v \in Pending) /\ (\A r : r \in Waiting' <=> r \in Waiting)
    <3>1. \A v : InBatch(v)' <=> InBatch(v)
      BY <1>1 DEF InBatch
    <3>2. \A v : InChannel(v)' <=> InChannel(v)
      BY <2>1, <2>2 DEF InChannel
    <3> QED
      BY <3>1, <3>2, PendingIs
  <2>7. Between' /\ Passed'
    BY <1>1, <1>i, <2>6 DEF Between, Passed
  <2> QED
    BY <2>4, <2>5, <2>7
<1> QED
  BY <1>2, <1>3

\* What a flush makes of a row is its content in the batch, which is as old as
\* what the sink has of it, or newer.
LEMMA Newer ==
    ASSUME SyncInv, Flush \/ FlushFails, NEW r \in Rows
    PROVE  \/ sink'[r] = sink[r]
           \/ /\ sink'[r] \in Nat
              /\ \E i \in DOMAIN batch[writing] : batch[writing][i] = <<r, sink'[r]>>
              /\ <<r, sink'[r]>> \in Pending /\ sink[r] <= sink'[r] /\ sink'[r] <= view[r]
<1>i. TypeOK /\ InOrder /\ Between
  BY DEF SyncInv
<1>1. CASE sink'[r] # sink[r]
  <2>1. writing \in Sinks
    BY <1>i, FlushFacts
  <2>2. PICK i \in DOMAIN batch[writing] : batch[writing][i] = <<r, sink'[r]>>
    BY <1>1, <1>i, FlushFacts
  <2>3. <<r, sink'[r]>> \in Pending
    BY <2>1, <2>2, PendingIs DEF InBatch
  <2>4. sink[r] <= sink'[r] /\ sink'[r] <= view[r]
    BY <1>i, <2>3 DEF Between
  <2>5. sink'[r] \in Nat
    <3>1. <<r, sink'[r]>> \in Rows \X (1 .. clock) /\ clock \in Nat
      BY <1>i, <2>3, Typed
    <3> QED
      BY <3>1
  <2> QED
    BY <2>2, <2>3, <2>4, <2>5
<1> QED
  BY <1>1

\* A flush writes the contents of its batch, which are older than those of the
\* same rows in the channel; the batch is kept, or cleared.
LEMMA FlushStep ==
    ASSUME SyncInv, Flush \/ FlushFails
    PROVE  PollsEnd' /\ InOrder' /\ Between' /\ Passed'
<1>i. TypeOK /\ PollsEnd /\ InOrder /\ Between /\ Passed
  BY DEF SyncInv
<1>1. /\ writing \in Sinks
      /\ UNCHANGED <<view, cursor, stage, some, channel, missed>>
      /\ \/ batch' = batch /\ writing' = writing /\ dropped' = dropped
         \/ /\ batch' = [batch EXCEPT ![writing] = <<>>]
            /\ \A i \in DOMAIN batch[writing] :
                  \/ sink'[batch[writing][i][1]] = batch[writing][i][2]
                  \/ batch[writing][i][1] \in dropped'
            /\ \A r \in dropped :
                  (\A i \in DOMAIN batch[writing] : batch[writing][i][1] # r) =>
                      r \in dropped'
  BY <1>i, FlushFacts DEF source, stream
<1>t. /\ \A k \in Sinks : /\ \A i \in DOMAIN batch[k] : batch[k][i] \in Rows \X (1 .. clock)
      /\ \A i \in DOMAIN channel : channel[i] # EndOfPoll => channel[i] \in Rows \X (1 .. clock)
      /\ \A r \in Rows : view[r] \in Nat /\ sink[r] \in Nat
      /\ \A w \in Pending : w = <<w[1], w[2]>> /\ w[1] \in Rows /\ w[2] \in Nat
      /\ clock \in Nat
  <2>1. /\ \A w \in Pending : w \in Rows \X (1 .. clock)
        /\ clock \in Nat
        /\ \A r \in Rows : view[r] \in 0 .. clock /\ sink[r] \in 0 .. clock
    BY <1>i, Typed
  <2> QED
    BY <1>i, <2>1, EntryFacts, Typed
\* A batch of a sink keeps its entries or loses them all.
<1>2. \A k \in Sinks : \A i \in DOMAIN batch'[k] :
        i \in DOMAIN batch[k] /\ batch'[k][i] = batch[k][i]
  <2>1. \A k \in Sinks : batch'[k] = batch[k] \/ batch'[k] = <<>>
    BY <1>1, <1>i DEF TypeOK
  <2> QED
    BY <2>1
<1>3. PollsEnd'
  <2>1. \A i \in DOMAIN channel : channel[i] # EndOfPoll => EndBehind(i) \/ OfThisPoll(channel[i])
    BY <1>i DEF PollsEnd
  <2>2. \A k \in Sinks : \A i \in DOMAIN batch'[k] :
          EndBehind(0) \/ OfThisPoll(batch'[k][i])
    BY <1>2, <1>i DEF PollsEnd
  <2> QED
    BY <1>1, <2>1, <2>2 DEF PollsEnd, EndBehind, OfThisPoll
<1>4. InOrder'
  <2>1. \A k \in Sinks : \A i \in DOMAIN batch'[k], j \in DOMAIN channel :
          channel[j] # EndOfPoll /\ batch'[k][i][1] = channel[j][1] =>
              batch'[k][i][2] <= channel[j][2] /\ EndBetween(0, j)
    BY <1>2, <1>i DEF InOrder
  <2>2. \A k \in Sinks : \A i, j \in DOMAIN batch'[k] :
          batch'[k][i][1] = batch'[k][j][1] => i = j
    BY <1>2, <1>i DEF InOrder
  <2>3. \A i, j \in DOMAIN channel :
          i < j /\ channel[i] # EndOfPoll /\ channel[j] # EndOfPoll
                /\ channel[i][1] = channel[j][1] =>
              channel[i][2] <= channel[j][2] /\ EndBetween(i, j)
    BY <1>i DEF InOrder
  <2> QED
    BY <1>1, <2>1, <2>2, <2>3 DEF InOrder, EndBetween
<1>5. \A v \in Pending' : v \in Pending
  <2>1. \A v : InBatch(v)' => InBatch(v)
    BY <1>2 DEF InBatch
  <2>2. \A v : InChannel(v)' => InChannel(v)
    BY <1>1 DEF InChannel
  <2> QED
    BY <2>1, <2>2, PendingIs
\* What is still on its way after the flush is no older than what it wrote.
<1>6. ASSUME NEW v \in Pending' PROVE sink'[v[1]] <= v[2]
  <2>1. v \in Pending /\ sink[v[1]] <= v[2] /\ v[1] \in Rows
    BY <1>5, <1>i, <1>t DEF Between
  <2>2. CASE sink'[v[1]] # sink[v[1]]
    <3>1. PICK i \in DOMAIN batch[writing] : batch[writing][i] = <<v[1], sink'[v[1]]>>
      BY <2>1, <2>2, Newer
    <3>2. CASE InChannel(v)
      <4>1. PICK j \in DOMAIN channel : v = channel[j] /\ v # EndOfPoll
        BY <3>2 DEF InChannel
      <4> QED
        BY <1>1, <1>i, <3>1, <4>1 DEF InOrder
    <3>3. CASE InBatch(v)
      <4>1. PICK k \in Sinks : \E j \in DOMAIN batch[k] : v = batch[k][j]
        BY <3>3 DEF InBatch
      <4>2. PICK j \in DOMAIN batch[k] : v = batch[k][j]
        BY <4>1
      <4>3. k = writing
        BY <1>1, <1>i, <3>1, <4>2 DEF Between
      <4>4. v = <<v[1], sink'[v[1]]>>
        BY <1>1, <1>i, <3>1, <4>2, <4>3 DEF InOrder
      <4>5. v[2] = sink'[v[1]] /\ v[2] \in Nat
        BY <1>t, <2>1, <4>4
      <4> QED
        BY <4>5
    <3> QED
      BY <2>1, <3>2, <3>3, PendingIs
  <2> QED
    BY <2>1, <2>2
<1>7. Between'
  <2>1. \A r \in Rows : sink'[r] <= view[r]
    BY <1>i, Newer DEF Between
  <2>2. \A v \in Pending' : v[2] <= view[v[1]]
    BY <1>5, <1>i DEF Between
  <2>3. \A k \in Sinks : \A i \in DOMAIN batch'[k] : SinkOf(batch'[k][i][1]) = k
    BY <1>2, <1>i DEF Between
  <2> QED
    BY <1>1, <1>6, <2>1, <2>2, <2>3 DEF Between
<1>8. ASSUME NEW r \in Rows, 0 < view[r], view[r] <= cursor[r[1]], r \notin missed
      PROVE  \/ <<r, view[r]>> \in Pending'
             \/ r \notin Waiting' /\ (sink'[r] = view[r] \/ r \in dropped')
  <2>1. \/ <<r, view[r]>> \in Pending
        \/ r \notin Waiting /\ (sink[r] = view[r] \/ r \in dropped)
    BY <1>8, <1>i DEF Passed
  <2>2. CASE batch' = batch /\ dropped' = dropped
    <3>1. \A v : v \in Pending => v \in Pending'
      BY <1>1, <2>2, PendingIs DEF InBatch, InChannel
    <3>2. CASE r \notin Waiting /\ (sink[r] = view[r] \/ r \in dropped)
      <4>1. r \notin Waiting'
        BY <1>5, <3>2, PendingIs
      <4>2. sink'[r] = sink[r]
        BY <3>2, Newer, PendingIs
      <4> QED
        BY <2>2, <3>2, <4>1, <4>2
    <3> QED
      BY <2>1, <3>1, <3>2
  <2>3. CASE ~(batch' = batch /\ dropped' = dropped)
    <3>1. /\ batch' = [batch EXCEPT ![writing] = <<>>]
          /\ \A i \in DOMAIN batch[writing] :
                  \/ sink'[batch[writing][i][1]] = batch[writing][i][2]
                  \/ batch[writing][i][1] \in dropped'
          /\ \A q \in dropped :
                  (\A i \in DOMAIN batch[writing] : batch[writing][i][1] # q) =>
                      q \in dropped'
      BY <1>1, <2>3
    <3>b. /\ DOMAIN batch'[writing] = {}
          /\ \A k \in Sinks \ {writing} : batch'[k] = batch[k]
      BY <1>1, <1>i, <3>1 DEF TypeOK
    <3>2. CASE r \notin Waiting /\ (sink[r] = view[r] \/ r \in dropped)
      <4>1. r \notin Waiting'
        BY <1>5, <3>2, PendingIs
      <4>2. sink'[r] = sink[r]
        BY <3>2, Newer, PendingIs
      <4>3. \A i \in DOMAIN batch[writing] : batch[writing][i][1] # r
        BY <1>1, <3>2, PendingIs DEF InBatch
      <4> QED
        BY <3>1, <3>2, <4>1, <4>2, <4>3
    <3>l. PICK last : last = <<r, view[r]>>
      OBVIOUS
    <3>3. CASE InChannel(last)
      <4>1. InChannel(last)'
        BY <1>1, <3>3 DEF InChannel
      <4> QED
        BY <3>l, <4>1, PendingIs
    <3>4. CASE InBatch(last)
      <4>1. PICK k \in Sinks : \E i \in DOMAIN batch[k] : last = batch[k][i]
        BY <3>4 DEF InBatch
      <4>2. PICK i \in DOMAIN batch[k] : <<r, view[r]>> = batch[k][i]
        BY <3>l, <4>1
      <4>3. CASE k # writing
        <5>1. i \in DOMAIN batch'[k] /\ last = batch'[k][i]
          BY <3>b, <3>l, <4>2, <4>3
        <5>2. InBatch(last)'
          BY <1>1, <5>1 DEF InBatch
        <5> QED
          BY <3>l, <5>2, PendingIs
      <4>4. CASE k = writing
        <5>1. sink'[r] = view[r] \/ r \in dropped'
          BY <3>1, <4>2, <4>4
        \* A content of the row that is still on its way is the last one too.
        <5>2. ASSUME r \in Waiting' PROVE <<r, view[r]>> \in Pending'
          <6>1. PICK v \in Pending' : v[1] = r
            BY <5>2, PendingIs
          <6>2. CASE InChannel(v)'
            <7>1. PICK j \in DOMAIN channel : v = channel[j] /\ v # EndOfPoll
              BY <1>1, <6>2 DEF InChannel
            <7>2. view[r] <= v[2]
              BY <1>i, <4>2, <6>1, <7>1 DEF InOrder
            <7>3. v[2] <= view[r] /\ v = <<r, v[2]>> /\ v[2] \in Nat /\ view[r] \in Nat
              BY <1>5, <1>i, <1>t, <6>1 DEF Between
            <7>4. v[2] = view[r]
              BY <7>2, <7>3
            <7> QED
              BY <6>1, <7>3, <7>4
          <6>3. CASE InBatch(v)'
            <7>1. PICK z \in Sinks : \E j \in DOMAIN batch'[z] : v = batch'[z][j]
              BY <6>3 DEF InBatch
            <7>2. PICK j \in DOMAIN batch'[z] : v = batch'[z][j]
              BY <7>1
            <7>3. z # writing
              BY <3>b, <7>2
            <7>4. SinkOf(r) = z
              BY <1>2, <1>i, <6>1, <7>2 DEF Between
            <7>5. SinkOf(r) = writing
              BY <1>i, <4>2, <4>4 DEF Between
            <7> QED
              BY <7>3, <7>4, <7>5
          <6> QED
            BY <6>1, <6>2, <6>3, PendingIs
        <5> QED
          BY <5>1, <5>2
      <4> QED
        BY <4>3, <4>4
    <3> QED
      BY <2>1, <3>2, <3>3, <3>4, <3>l, PendingIs
  <2> QED
    BY <2>2, <2>3
<1>9. Passed'
  BY <1>1, <1>8 DEF Passed
<1> QED
  BY <1>3, <1>4, <1>7, <1>9

\* A process that starts again has nothing on its way and passes no row.
LEMMA RestartStep ==
    ASSUME SyncInv, Restart
    PROVE  PollsEnd' /\ InOrder' /\ Between' /\ Passed'
<1>i. TypeOK /\ Between
  BY DEF SyncInv
<1>1. /\ channel' = <<>> /\ batch' = [k \in Sinks |-> <<>>]
      /\ cursor' = [s \in Streams |-> 0]
      /\ view' = view /\ sink' = sink
  BY DEF Restart, source
<1>2. DOMAIN channel' = {} /\ \A k \in Sinks : DOMAIN batch'[k] = {}
  BY <1>1
<1>3. PollsEnd' /\ InOrder'
  BY <1>2 DEF PollsEnd, InOrder
<1>4. \A v : v \notin Pending'
  BY <1>2, PendingIs DEF InBatch, InChannel
<1>5. Between'
  BY <1>1, <1>2, <1>4, <1>i DEF Between
<1>6. Passed'
  <2>1. \A r \in Rows : cursor'[r[1]] = 0 /\ view[r] \in Nat
    <3> TAKE r \in Rows
    <3>1. r[1] \in Streams /\ view[r] \in 0 .. clock /\ clock \in Nat
      BY <1>i, RowFacts, Typed
    <3> QED
      BY <1>1, <3>1
  <2> QED
    BY <1>1, <2>1 DEF Passed
<1> QED
  BY <1>3, <1>5, <1>6

LEMMA SyncStep == SyncInv /\ [Next]_vars => SyncInv'
<1> SUFFICES ASSUME SyncInv, [Next]_vars PROVE SyncInv'
  OBVIOUS
<1>1. TypeOK'
  BY TypeStep DEF SyncInv
<1>2. PollsEnd' /\ InOrder' /\ Between' /\ Passed'
  <2>1. CASE Tick \/ (\E r \in Rows : Change(r)) \/ UNCHANGED vars
    BY <2>1, ViewStep
  <2>2. ASSUME NEW s \in Streams, Fetch(s)
        PROVE  PollsEnd' /\ InOrder' /\ Between' /\ Passed'
    BY <2>2, FetchStep
  <2>3. CASE Unavailable \/ EndPoll
    BY <2>3, PollStep
  <2>4. CASE Receive
    BY <2>4, ReceiveStep
  <2>5. CASE ReceiveEnd
    BY <2>5, ReceiveEndStep
  <2>6. CASE Flush \/ FlushFails
    BY <2>6, FlushStep
  <2>7. CASE Restart
    BY <2>7, RestartStep
  <2> QED
    BY <2>1, <2>2, <2>3, <2>4, <2>5, <2>6, <2>7 DEF Next
<1> QED
  BY <1>1, <1>2 DEF SyncInv

-----------------------------------------------------------------------------
(* The theorems.                                                           *)

LEMMA AlwaysSyncInv == Spec => []SyncInv
<1>1. Init => SyncInv
  BY SyncInit
<1>2. SyncInv /\ [Next]_vars => SyncInv'
  BY SyncStep
<1> QED
  BY <1>1, <1>2, PTL DEF Spec

\* A row that the cursor has passed is in its sink as the view has it, on its
\* way, missed for an equal updated_at (risingwave_source.rs), or dropped by a
\* flush (main.rs): for any tables, limit, batch size and number of failures.
THEOREM PassedRowsAreCovered == Spec => []Inv
<1>1. SyncInv => Inv
  <2> SUFFICES ASSUME SyncInv PROVE CursorCovered
    BY DEF Inv, SyncInv
  <2> SUFFICES ASSUME NEW r \in Rows, 0 < view[r], view[r] <= cursor[r[1]], r \notin missed
               PROVE  sink[r] = view[r] \/ r \in Waiting \/ r \in dropped
    BY DEF CursorCovered
  <2>1. \/ <<r, view[r]>> \in Pending
        \/ sink[r] = view[r] \/ r \in dropped
    BY DEF SyncInv, Passed
  <2>2. <<r, view[r]>> \in Pending => r \in Waiting
    BY PendingIs
  <2> QED
    BY <2>1, <2>2
<1> QED
  BY <1>1, AlwaysSyncInv, PTL

\* Batches, partial flushes, retries and restarts never put an older content of
\* a row over a newer one in Memgraph or Qdrant (memgraph_sink.rs, main.rs).
THEOREM SinksNeverGoBack == Spec => NeverBackwards
<1>1. SyncInv /\ [Next]_vars => [\A r \in Rows : sink'[r] >= sink[r]]_vars
  <2> SUFFICES ASSUME SyncInv, Next PROVE \A r \in Rows : sink'[r] >= sink[r]
    OBVIOUS
  <2> TAKE r \in Rows
  <2>1. sink[r] \in Nat
    <3>1. sink[r] \in 0 .. clock /\ clock \in Nat
      BY Typed DEF SyncInv
    <3> QED
      BY <3>1
  <2>2. CASE Flush \/ FlushFails
    <3>1. sink'[r] = sink[r] \/ (sink'[r] \in Nat /\ sink[r] <= sink'[r])
      BY <2>2, Newer
    <3> QED
      BY <2>1, <3>1
  <2>3. CASE ~(Flush \/ FlushFails)
    <3>1. sink' = sink
      BY <2>3 DEF Next, Tick, Change, Fetch, Unavailable, EndPoll, Receive, ReceiveEnd, Restart
    <3> QED
      BY <2>1, <3>1
  <2> QED
    BY <2>2, <2>3
<1> QED
  BY <1>1, AlwaysSyncInv, PTL DEF Spec, NeverBackwards
=============================================================================
