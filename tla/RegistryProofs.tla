--------------------------- MODULE RegistryProofs ---------------------------
(***************************************************************************)
(* What TLAPS proves of Registry, for any packages, versions, batch size   *)
(* and number of changes and failures, and for each registry: the cursor   *)
(* and the committed offset pass over nothing, and the state table says    *)
(* what the events say.                                                    *)
(***************************************************************************)
EXTENDS Registry, FiniteSetTheorems, TLAPS

-----------------------------------------------------------------------------
(* The watchers: what the cursor has passed.                               *)

FeedItem == [pkg : Packages, removed : BOOLEAN]

\* A message of the topic is about the package of the change, and of its time
\* or later.
Covered(s) == \E i \in DOMAIN topic : topic[i].pkg = feed[s].pkg /\ topic[i].at >= s

\* A batch under way has published its changes, or has still to publish one of
\* their package.
BatchCovered ==
    batch # None =>
        \A s \in cursor + 1 .. batch.upto :
            Covered(s) \/ \E t \in batch.todo : feed[t].pkg = feed[s].pkg

BatchTyped ==
    batch # None => /\ batch \in [todo : SUBSET Nat, upto : Nat]
                    /\ batch.todo \subseteq 1 .. batch.upto
                    /\ batch.upto \in 1 .. Len(feed)
                    /\ cursor # None

Watching ==
    /\ reg \in Registries
    /\ live \in [Packages -> Content \cup {None}]
    /\ feed \in Seq(FeedItem) /\ Len(feed) <= MaxChanges
    /\ cursor \in (0 .. Len(feed)) \cup {None} /\ jumped \in 0 .. Len(feed)
    /\ BatchTyped
    /\ seen \in [Packages -> Content \cup {None}]
    /\ topic \in Seq(Message)
    /\ CursorCovered /\ BatchCovered

\* The least of some numbers.
LEMMA LeastNat ==
    ASSUME NEW T \in SUBSET Nat, T # {}
    PROVE  \E m \in T : \A k \in T : m <= k
<1>1. PICK m \in T : \A k \in T : ~(<<k, m>> \in OpToRel(<, Nat))
  BY WFMin, NatLessThanWellFounded, Zenon
<1>2. \A k \in T : ~(k < m)
  BY <1>1, Zenon DEF OpToRel
<1> QED
  BY <1>2

LEMMA Numbers ==
    /\ BatchSize \in Nat /\ BatchSize > 0 /\ MaxChanges \in Nat /\ MaxFaults \in Nat
    /\ None \notin Int /\ None \notin [Versions -> Status]
  BY RegistryAssumption DEF RegistryAssumption, Status

\* Messages and changes stay where they are in a topic and a feed that grow.
LEMMA CoveredStays ==
    ASSUME Watching, NEW s \in 1 .. Len(feed), Covered(s),
           \A i \in DOMAIN topic : i \in DOMAIN topic' /\ topic'[i] = topic[i],
           feed'[s] = feed[s]
    PROVE  Covered(s)'
  BY DEF Covered

\* The serials that a batch publishes stand for all of its serials.
LEMMA PublishedStand ==
    ASSUME Watching, NEW lo \in Nat, NEW hi \in Nat, NEW s \in lo .. hi
    PROVE  \E t \in Published(lo, hi) : feed[t].pkg = feed[s].pkg
<1>1. CASE reg # "pypi"
  BY <1>1 DEF Published
<1>2. CASE reg = "pypi"
  <2> DEFINE T == {t \in lo .. hi : feed[t].pkg = feed[s].pkg}
  <2>1. T \in SUBSET Nat /\ T # {}
    OBVIOUS
  <2>2. PICK m \in T : \A k \in T : m <= k
    <3> HIDE DEF T
    <3> QED
      BY <2>1, LeastNat
  <2>3. \A t \in lo .. m - 1 : feed[t].pkg # feed[m].pkg
    BY <2>2
  <2>4. m \in Published(lo, hi)
    BY <1>2, <2>2, <2>3 DEF Published
  <2> QED
    BY <2>2, <2>4
<1> QED
  BY <1>1, <1>2

\* The registry changes.
LEMMA ChangeKeepsWatching ==
    ASSUME Watching, NEW p \in Packages, Change(p)
    PROVE  Watching'
<1>1. PICK c \in Content \cup {None}, flagged \in BOOLEAN :
          /\ live' = [live EXCEPT ![p] = c]
          /\ feed' = Append(feed, [pkg |-> p, removed |-> flagged])
  BY DEF Change
<1>2. /\ reg' = reg /\ cursor' = cursor /\ batch' = batch /\ seen' = seen
      /\ topic' = topic /\ jumped' = jumped /\ Len(feed) < MaxChanges
      /\ Content' = Content /\ Message' = Message
  BY DEF Change, watcher, Content, Message
<1>3. feed \in Seq(FeedItem) /\ [pkg |-> p, removed |-> flagged] \in FeedItem
  BY DEF Watching, FeedItem
<1>4. /\ feed' \in Seq(FeedItem) /\ Len(feed') = Len(feed) + 1 /\ Len(feed) \in Nat
      /\ \A s \in 1 .. Len(feed) : feed'[s] = feed[s]
  BY <1>1, <1>3
<1>5. live' \in [Packages -> Content \cup {None}]
  BY <1>1 DEF Watching
<1>6. cursor' \in (0 .. Len(feed')) \cup {None} /\ jumped' \in 0 .. Len(feed')
  BY <1>2, <1>4 DEF Watching
<1>7. BatchTyped'
  BY <1>2, <1>4 DEF Watching, BatchTyped
<1>8. \A s \in 1 .. Len(feed) : Covered(s) => Covered(s)'
  BY <1>2, <1>4, CoveredStays
<1>9. CursorCovered'
  <2>1. ASSUME cursor # None, NEW s \in jumped + 1 .. cursor
        PROVE  s \in 1 .. Len(feed) /\ Covered(s)
    BY <2>1, <1>4 DEF Watching, CursorCovered, Covered
  <2> QED
    BY <1>2, <1>8, <2>1 DEF CursorCovered, Covered
<1>10. BatchCovered'
  <2>1. ASSUME batch # None, NEW s \in cursor + 1 .. batch.upto
        PROVE  /\ s \in 1 .. Len(feed)
               /\ Covered(s) \/ \E t \in batch.todo : /\ t \in 1 .. Len(feed)
                                                      /\ feed[t].pkg = feed[s].pkg
    <3>1. /\ cursor \in Nat /\ batch.upto \in 1 .. Len(feed)
          /\ batch.todo \subseteq 1 .. batch.upto
      BY <2>1, Numbers DEF Watching, BatchTyped
    <3>2. s \in 1 .. Len(feed) /\ batch.todo \subseteq 1 .. Len(feed)
      BY <1>4, <2>1, <3>1
    <3> QED
      BY <2>1, <3>2 DEF Watching, BatchCovered
  <2>2. ASSUME batch # None, NEW s \in cursor + 1 .. batch.upto
        PROVE  Covered(s)' \/ \E t \in batch.todo : feed'[t].pkg = feed'[s].pkg
    BY <1>4, <1>8, <2>1, <2>2
  <2> QED
    BY <1>2, <2>2 DEF BatchCovered, Covered
<1> QED
  BY <1>2, <1>4, <1>5, <1>6, <1>7, <1>9, <1>10, Numbers DEF Watching

\* The cursor jumps to the end of the feed, where nothing is to be covered.
LEMMA JumpKeepsWatching ==
    ASSUME Watching, InitCursor \/ RejectedCursor
    PROVE  Watching'
<1>1. /\ reg' = reg /\ upstream' = upstream /\ batch' = batch /\ seen' = seen
      /\ topic' = topic /\ cursor' = Len(feed) /\ jumped' = Len(feed)
  BY DEF InitCursor, RejectedCursor, Reset
<1>2. live' = live /\ feed' = feed /\ Content' = Content /\ Message' = Message
      /\ Len(feed) \in Nat
  BY <1>1 DEF upstream, Content, Message, Watching
<1>3. batch = None
  BY DEF InitCursor, RejectedCursor, Watching, BatchTyped
<1>4. CursorCovered' /\ BatchCovered' /\ BatchTyped'
  BY <1>1, <1>2, <1>3 DEF CursorCovered, BatchCovered, BatchTyped
<1> QED
  BY <1>1, <1>2, <1>4 DEF Watching

\* A batch takes the next changes; its published serials stand for all.
LEMMA PollKeepsWatching ==
    ASSUME Watching, Poll
    PROVE  Watching'
<1> DEFINE hi == IF cursor + BatchSize < Len(feed) THEN cursor + BatchSize ELSE Len(feed)
<1>1. /\ reg' = reg /\ upstream' = upstream /\ cursor' = cursor /\ seen' = seen
      /\ topic' = topic /\ jumped' = jumped /\ cursor # None /\ cursor < Len(feed)
      /\ batch' = [todo |-> Published(cursor + 1, hi), upto |-> hi]
  BY DEF Poll
<1>2. live' = live /\ feed' = feed /\ Content' = Content /\ Message' = Message
      /\ Len(feed) \in Nat
  BY <1>1 DEF upstream, Content, Message, Watching
<1>3. cursor \in Nat /\ hi \in 1 .. Len(feed) /\ hi \in Nat /\ cursor + 1 \in Nat
  BY <1>1, <1>2, Numbers DEF Watching
<1> HIDE DEF hi
<1>4. Published(cursor + 1, hi) \subseteq cursor + 1 .. hi
  BY DEF Published
<1>5. /\ batch'.todo = Published(cursor + 1, hi) /\ batch'.upto = hi
      /\ batch' \in [todo : SUBSET Nat, upto : Nat]
  BY <1>1, <1>3, <1>4
<1>6. batch'.todo \subseteq 1 .. hi
  BY <1>3, <1>4, <1>5
<1>7. BatchTyped'
  BY <1>1, <1>2, <1>3, <1>5, <1>6 DEF BatchTyped
<1>8. CursorCovered'
  BY <1>1, <1>2 DEF Watching, CursorCovered
<1>9. BatchCovered'
  <2>1. \A s \in cursor + 1 .. hi : \E t \in Published(cursor + 1, hi) : feed[t].pkg = feed[s].pkg
    BY <1>3, PublishedStand
  <2> QED
    BY <1>1, <1>2, <1>5, <2>1 DEF BatchCovered
<1> QED
  BY <1>1, <1>2, <1>7, <1>8, <1>9 DEF Watching

\* A message more in the topic.
LEMMA TopicGrows ==
    ASSUME Watching, NEW m \in Message, topic' = Append(topic, m)
    PROVE  /\ topic' \in Seq(Message) /\ Len(topic') = Len(topic) + 1
           /\ Len(topic) \in Nat
           /\ \A i \in DOMAIN topic : i \in DOMAIN topic' /\ topic'[i] = topic[i]
           /\ Len(topic') \in DOMAIN topic' /\ topic'[Len(topic')] = m
<1>1. topic \in Seq(Message)
  BY DEF Watching
<1> QED
  BY <1>1

\* What the message says covers all earlier changes of its package.
LEMMA PublishKeepsWatching ==
    ASSUME Watching, Publish
    PROVE  Watching'
<1> DEFINE s == CHOOSE s \in batch.todo : \A t \in batch.todo : s <= t
           m == [pkg |-> feed[s].pkg, removed |-> feed[s].removed,
                 content |-> None, at |-> Len(feed)]
<1>1. /\ reg' = reg /\ upstream' = upstream /\ cursor' = cursor /\ seen' = seen
      /\ jumped' = jumped /\ batch # None /\ batch.todo # {}
      /\ topic' = Append(topic, m) /\ batch' = [batch EXCEPT !.todo = @ \ {s}]
  BY DEF Publish
<1>2. live' = live /\ feed' = feed /\ Content' = Content /\ Message' = Message
      /\ Len(feed) \in Nat /\ feed \in Seq(FeedItem) /\ Len(feed) <= MaxChanges
  BY <1>1 DEF upstream, Content, Message, Watching
<1>3. /\ batch \in [todo : SUBSET Nat, upto : Nat] /\ batch.todo \subseteq 1 .. batch.upto
      /\ batch.upto \in 1 .. Len(feed) /\ cursor # None /\ cursor \in Nat
  BY <1>1, Numbers DEF Watching, BatchTyped
<1>4. s \in batch.todo
  <2>1. \E k \in batch.todo : \A t \in batch.todo : k <= t
    BY <1>1, <1>3, LeastNat
  <2> QED
    BY <2>1
<1> HIDE DEF s
<1>5. s \in 1 .. Len(feed) /\ feed[s] \in FeedItem
  BY <1>2, <1>3, <1>4
<1>6. m \in Message
  BY <1>2, <1>5, Numbers DEF Message, FeedItem
<1>7. m.pkg = feed[s].pkg /\ m.at = Len(feed)
  OBVIOUS
<1> HIDE DEF m
<1>8. /\ topic' \in Seq(Message)
      /\ \A i \in DOMAIN topic : i \in DOMAIN topic' /\ topic'[i] = topic[i]
      /\ Len(topic') \in DOMAIN topic' /\ topic'[Len(topic')] = m
  BY <1>1, <1>6, TopicGrows
<1>9. \A k \in 1 .. Len(feed) : Covered(k) => Covered(k)'
  BY <1>2, <1>8, CoveredStays
<1>10. \A k \in 1 .. Len(feed) : feed[k].pkg = feed[s].pkg => Covered(k)'
  BY <1>2, <1>7, <1>8 DEF Covered
<1>11. /\ batch' \in [todo : SUBSET Nat, upto : Nat] /\ batch'.upto = batch.upto
       /\ batch'.todo = batch.todo \ {s}
  BY <1>1, <1>3
<1>12. BatchTyped'
  BY <1>1, <1>2, <1>3, <1>11 DEF BatchTyped
<1>13. CursorCovered'
  <2>1. ASSUME NEW k \in jumped + 1 .. cursor PROVE k \in 1 .. Len(feed) /\ Covered(k)
    BY <1>2, <1>3, <2>1 DEF Watching, CursorCovered, Covered
  <2> QED
    BY <1>1, <1>2, <1>9, <2>1 DEF CursorCovered, Covered
<1>14. BatchCovered'
  <2>1. ASSUME NEW k \in cursor + 1 .. batch.upto
        PROVE  Covered(k)' \/ \E t \in batch'.todo : feed'[t].pkg = feed'[k].pkg
    <3>1. k \in 1 .. Len(feed)
      BY <1>2, <1>3
    <3>2. CASE Covered(k)
      BY <1>9, <3>1, <3>2
    <3>3. CASE \E t \in batch.todo : feed[t].pkg = feed[k].pkg
      <4>1. PICK t \in batch.todo : feed[t].pkg = feed[k].pkg
        BY <3>3
      <4>2. CASE t = s
        BY <1>10, <3>1, <4>1, <4>2
      <4>3. CASE t # s
        BY <1>2, <1>11, <4>1, <4>3
      <4> QED
        BY <4>2, <4>3
    <3> QED
      BY <1>1, <3>2, <3>3 DEF Watching, BatchCovered
  <2> QED
    BY <1>1, <1>11, <2>1 DEF BatchCovered, Covered
<1> QED
  BY <1>1, <1>2, <1>8, <1>12, <1>13, <1>14 DEF Watching

\* The checkpoint moves to the end of a batch that is all published, or is left
\* where it is.
LEMMA BatchEndKeepsWatching ==
    ASSUME Watching, Checkpoint \/ PublishFails \/ WatcherRestart
    PROVE  Watching'
<1>1. /\ reg' = reg /\ upstream' = upstream /\ topic' = topic /\ jumped' = jumped
      /\ batch' = None
      /\ seen' = seen \/ seen' = [p \in Packages |-> None]
  BY DEF Checkpoint, PublishFails, WatcherRestart
<1>2. live' = live /\ feed' = feed /\ Content' = Content /\ Message' = Message
      /\ Len(feed) \in Nat
  BY <1>1 DEF upstream, Content, Message, Watching
<1>3. BatchTyped' /\ BatchCovered'
  BY <1>1 DEF BatchTyped, BatchCovered
<1>4. seen' \in [Packages -> Content \cup {None}]
  BY <1>1 DEF Watching
<1>5. CASE cursor' = cursor
  <2>1. CursorCovered'
    BY <1>1, <1>2, <1>5 DEF Watching, CursorCovered
  <2> QED
    BY <1>1, <1>2, <1>3, <1>4, <1>5, <2>1 DEF Watching
<1>6. CASE Checkpoint
  <2>1. cursor' = batch.upto /\ batch # None /\ batch.todo = {}
    BY <1>6 DEF Checkpoint
  <2>2. batch.upto \in 1 .. Len(feed) /\ cursor # None /\ cursor \in Nat /\ jumped \in Nat
    BY <2>1, Numbers DEF Watching, BatchTyped
  <2>3. ASSUME NEW s \in jumped + 1 .. batch.upto PROVE Covered(s)
    <3>1. CASE s <= cursor
      <4>1. s \in jumped + 1 .. cursor
        BY <2>2, <3>1
      <4> QED
        BY <2>2, <4>1 DEF Watching, CursorCovered, Covered
    <3>2. CASE s > cursor
      <4>1. s \in cursor + 1 .. batch.upto
        BY <2>2, <3>2
      <4> QED
        BY <2>1, <4>1 DEF Watching, BatchCovered
    <3> QED
      BY <2>2, <3>1, <3>2
  <2>4. CursorCovered'
    BY <1>1, <1>2, <2>1, <2>3 DEF CursorCovered, Covered
  <2> QED
    BY <1>1, <1>2, <1>3, <1>4, <2>1, <2>2, <2>4 DEF Watching
<1> QED
  BY <1>5, <1>6 DEF Checkpoint, PublishFails, WatcherRestart

\* An index file more in the topic.
LEMMA PollCrateKeepsWatching ==
    ASSUME Watching, NEW p \in Packages, PollCrate(p)
    PROVE  Watching'
<1> DEFINE m == [pkg |-> p, removed |-> FALSE, content |-> live[p], at |-> Len(feed)]
<1>1. /\ reg' = reg /\ upstream' = upstream /\ cursor' = cursor /\ batch' = batch
      /\ jumped' = jumped /\ topic' = Append(topic, m)
      /\ seen' = [seen EXCEPT ![p] = live[p]]
  BY DEF PollCrate
<1>2. live' = live /\ feed' = feed /\ Content' = Content /\ Message' = Message
      /\ Len(feed) \in Nat
  BY <1>1 DEF upstream, Content, Message, Watching
<1>3. live[p] \in Content \cup {None} /\ Len(feed) \in 0 .. MaxChanges
  BY <1>2, Numbers DEF Watching
<1>4. m \in Message
  BY <1>3 DEF Message
<1> HIDE DEF m
<1>5. /\ topic' \in Seq(Message)
      /\ \A i \in DOMAIN topic : i \in DOMAIN topic' /\ topic'[i] = topic[i]
  BY <1>1, <1>4, TopicGrows
<1>6. \A s \in 1 .. Len(feed) : Covered(s) => Covered(s)'
  BY <1>2, <1>5, CoveredStays
<1>7. CursorCovered'
  <2>1. ASSUME cursor # None, NEW s \in jumped + 1 .. cursor
        PROVE  s \in 1 .. Len(feed) /\ Covered(s)
    BY <2>1, <1>2 DEF Watching, CursorCovered, Covered
  <2> QED
    BY <1>1, <1>2, <1>6, <2>1 DEF CursorCovered, Covered
<1>8. BatchCovered'
  <2>1. ASSUME batch # None, NEW s \in cursor + 1 .. batch.upto
        PROVE  s \in 1 .. Len(feed) /\ (Covered(s) \/ \E t \in batch.todo : feed[t].pkg = feed[s].pkg)
    <3>1. cursor \in Nat /\ batch.upto \in 1 .. Len(feed)
      BY <2>1, Numbers DEF Watching, BatchTyped
    <3> QED
      BY <1>2, <2>1, <3>1 DEF Watching, BatchCovered
  <2> QED
    BY <1>1, <1>2, <1>6, <2>1 DEF BatchCovered, Covered
<1>9. BatchTyped' /\ seen' \in [Packages -> Content \cup {None}]
  BY <1>1, <1>2, <1>3 DEF Watching, BatchTyped
<1> QED
  BY <1>1, <1>2, <1>5, <1>7, <1>8, <1>9 DEF Watching

\* The steps that concern the watchers.
LEMMA WatcherMoves ==
    ASSUME [Next]_vars
    PROVE  \/ reg' = reg /\ upstream' = upstream /\ watcher' = watcher
           \/ \E p \in Packages : Change(p) \/ PollCrate(p)
           \/ InitCursor \/ RejectedCursor \/ Poll \/ Publish
           \/ Checkpoint \/ PublishFails \/ WatcherRestart
  BY DEF Next, Watch, Process, Failure, vars, Fetch, FetchRefused, FetchFails, Begin, Transact,
         Unreadable, GiveUp, DatabaseFails, Delete, DeleteRow, Commit, WorkerRestart, Seed

LEMMA WatchStep ==
    ASSUME Watching, [Next]_vars
    PROVE  Watching' /\ reg' = reg
<1>1. CASE reg' = reg /\ upstream' = upstream /\ watcher' = watcher
  BY <1>1 DEF upstream, watcher, Watching, BatchTyped, CursorCovered, BatchCovered,
              Covered, Content, Message
<1>2. \/ reg' = reg /\ upstream' = upstream /\ watcher' = watcher
      \/ \E p \in Packages : Change(p) \/ PollCrate(p)
      \/ InitCursor \/ RejectedCursor \/ Poll \/ Publish
      \/ Checkpoint \/ PublishFails \/ WatcherRestart
  BY WatcherMoves
<1>3. reg' = reg
  BY <1>2 DEF Change, PollCrate, InitCursor, RejectedCursor, Poll, Publish, Checkpoint,
              PublishFails, WatcherRestart
<1> QED
  BY <1>1, <1>2, <1>3, ChangeKeepsWatching, JumpKeepsWatching, PollKeepsWatching,
     PublishKeepsWatching, BatchEndKeepsWatching, PollCrateKeepsWatching

-----------------------------------------------------------------------------
(* The workers: what the committed offset has passed.                      *)

Job == [pkg : Packages, got : Content \cup {None}, stage : {"tx", "delete", "row", "commit"}]

\* Every message below the position has been processed or given up, but for
\* the one under way.
Working ==
    /\ pos \in 0 .. Len(topic) /\ committed \in 0 .. pos
    /\ work # None => work \in Job /\ pos > 0
    /\ finished \cup failed \subseteq 1 .. Len(topic)
    /\ 1 .. pos \subseteq finished \cup failed \cup IF work = None THEN {} ELSE {pos}
    /\ CommitEarned
    /\ lost \subseteq Packages

LEMMA JobIsNotNone == None \notin Job
<1>1. Content \subseteq [Versions -> {"none", "live", "yanked"}]
  BY DEF Content, Status
<1>2. Job \subseteq [pkg : Packages,
                   got : [Versions -> {"none", "live", "yanked"}] \cup {None},
                   stage : {"tx", "delete", "row", "commit"}]
  BY <1>1 DEF Job
<1> QED
  BY <1>2, RegistryAssumption DEF RegistryAssumption

\* The watchers do not disturb the workers: a topic only grows.
LEMMA TopicOnlyGrows ==
    ASSUME Watching, [Next]_vars
    PROVE  Len(topic) \in Nat /\ Len(topic') \in Nat /\ Len(topic) <= Len(topic')
<1>1. topic \in Seq(Message) /\ topic' \in Seq(Message)
  <2>1. Message' = Message
    BY WatchStep DEF Message, Content
  <2>2. topic' \in Seq(Message)'
    BY WatchStep DEF Watching
  <2> QED
    BY <2>1, <2>2 DEF Watching
<1>2. topic' = topic \/ Publish \/ \E p \in Packages : PollCrate(p)
  <2>1. CASE watcher' = watcher
    BY <2>1 DEF watcher
  <2>2. ASSUME NEW p \in Packages, Change(p) PROVE topic' = topic
    BY <2>2 DEF Change, watcher
  <2>3. CASE InitCursor \/ RejectedCursor \/ Poll \/ Checkpoint \/ PublishFails
             \/ WatcherRestart
    BY <2>3 DEF InitCursor, RejectedCursor, Poll, Checkpoint, PublishFails, WatcherRestart
  <2> QED
    BY <2>1, <2>2, <2>3, WatcherMoves
<1>3. topic' = topic \/ \E m : topic' = Append(topic, m)
  <2>1. CASE Publish
    <3> DEFINE s == CHOOSE s \in batch.todo : \A t \in batch.todo : s <= t
    <3>1. topic' = Append(topic, [pkg |-> feed[s].pkg, removed |-> feed[s].removed,
                                  content |-> None, at |-> Len(feed)])
      BY <2>1 DEF Publish
    <3> QED
      BY <3>1, Zenon
  <2>2. ASSUME NEW p \in Packages, PollCrate(p) PROVE \E m : topic' = Append(topic, m)
    BY <2>2, Zenon DEF PollCrate
  <2> QED
    BY <1>2, <2>1, <2>2
<1> QED
  BY <1>1, <1>3

\* A message is taken up: the one at the new position.
LEMMA BeginKeepsWorking ==
    ASSUME Watching, Working, Fetch \/ FetchRefused
    PROVE  Working'
<1>1. /\ work = None /\ pos < Len(topic) /\ pos \in Nat /\ Len(topic) \in Nat
      /\ pos + 1 \in DOMAIN topic /\ topic[pos + 1] \in Message
  BY DEF Fetch, FetchRefused, HasNext, Working, Watching
<1>2. reg' = reg /\ topic' = topic /\ Job' = Job
  BY DEF Fetch, FetchRefused, Begin, watcher, Job, Content
<1>3. live \in [Packages -> Content \cup {None}]
  BY DEF Watching
<1>4. /\ pos' = pos + 1 /\ committed' = committed /\ finished' = finished /\ failed' = failed
      /\ work' \in Job /\ lost' \subseteq Packages
  <2>1. Answer(topic[pos + 1]) \in Content \cup {None} /\ topic[pos + 1].pkg \in Packages
    BY <1>1, <1>3 DEF Answer, Message
  <2>2. CASE Fetch
    <3> DEFINE m == topic[pos + 1]
    <3>1. \/ Begin("commit", None) \/ Begin("delete", None)
          \/ Begin("tx", Answer(m))
          \/ Begin("delete", Answer(m))
      BY <2>2 DEF Fetch
    <3>2. lost' \subseteq lost \cup {m.pkg}
      BY <2>2 DEF Fetch
    <3> QED
      BY <2>1, <3>1, <3>2 DEF Begin, Job, Working
  <2>3. CASE FetchRefused
    BY <2>1, <2>3 DEF FetchRefused, Begin, Job, Working
  <2> QED
    BY <2>2, <2>3
<1>5. work' # None
  BY <1>4, JobIsNotNone
<1>6. 1 .. pos' \subseteq finished' \cup failed' \cup {pos'}
  <2>1. 1 .. pos + 1 = (1 .. pos) \cup {pos + 1}
    BY <1>1
  <2>2. 1 .. pos \subseteq finished \cup failed
    BY <1>1 DEF Working
  <2> QED
    BY <1>4, <2>1, <2>2
<1> QED
  BY <1>1, <1>2, <1>4, <1>5, <1>6 DEF Working, CommitEarned

\* A message is given up without being taken up.
LEMMA FetchFailsKeepsWorking ==
    ASSUME Watching, Working, FetchFails
    PROVE  Working'
<1>1. /\ work = None /\ pos < Len(topic) /\ pos \in Nat /\ Len(topic) \in Nat
      /\ pos + 1 \in DOMAIN topic /\ topic[pos + 1] \in Message
  BY DEF FetchFails, HasNext, Working, Watching
<1>2. /\ reg' = reg /\ topic' = topic /\ work' = None /\ pos' = pos + 1
      /\ committed' = committed /\ finished' = finished /\ failed' = failed \cup {pos + 1}
      /\ lost' = lost \cup {topic[pos + 1].pkg}
  BY <1>1 DEF FetchFails, watcher
<1>3. 1 .. pos + 1 = (1 .. pos) \cup {pos + 1}
  BY <1>1
<1>4. topic[pos + 1].pkg \in Packages
  BY <1>1 DEF Message
<1> QED
  BY <1>1, <1>2, <1>3, <1>4 DEF Working, CommitEarned

\* The stages of a message under way.
LEMMA StageKeepsWorking ==
    ASSUME Watching, Working, Transact \/ Delete \/ DeleteRow
    PROVE  Working'
<1>1. /\ reg' = reg /\ topic' = topic /\ pos' = pos /\ committed' = committed
      /\ finished' = finished /\ failed' = failed /\ lost' = lost /\ work # None
  BY DEF Transact, Delete, DeleteRow, watcher
<1>2. work \in Job /\ Job' = Job
  BY <1>1 DEF Working, Job, Content
<1>3. PICK s \in {"row", "commit"} : work' = [work EXCEPT !.stage = s]
  BY DEF Transact, Delete, DeleteRow
<1>4. work' \in Job /\ work' # None
  <2>1. work' \in Job
    BY <1>2, <1>3 DEF Job
  <2> QED
    BY <2>1, JobIsNotNone
<1> QED
  BY <1>1, <1>2, <1>4 DEF Working, CommitEarned

\* A message is finished or given up; everything below the position is then
\* processed, and may be committed.
LEMMA EndKeepsWorking ==
    ASSUME Watching, Working, Commit \/ Unreadable \/ DatabaseFails
    PROVE  Working'
<1>1. /\ reg' = reg /\ topic' = topic /\ pos' = pos /\ committed' \in {committed, pos}
      /\ work # None /\ work' = None
      /\ \/ finished' = finished \cup {pos} /\ failed' = failed /\ lost' = lost
         \/ /\ finished' = finished /\ failed' = failed \cup {pos}
            /\ lost' = lost \cup {work.pkg}
  BY DEF Commit, Unreadable, DatabaseFails, GiveUp, watcher
<1>2. pos \in Nat /\ pos \in 1 .. Len(topic) /\ work.pkg \in Packages
  <2>1. work \in Job /\ pos > 0
    BY <1>1 DEF Working
  <2> QED
    BY <2>1 DEF Working, Watching, Job
<1>3. 1 .. pos \subseteq finished' \cup failed'
  BY <1>1 DEF Working
<1>4. committed' \in 0 .. pos
  BY <1>1, <1>2 DEF Working
<1>5. CommitEarned'
  BY <1>1, <1>2, <1>3, <1>4 DEF CommitEarned
<1> QED
  BY <1>1, <1>2, <1>3, <1>4, <1>5 DEF Working

\* A worker that restarts goes back to the committed offset.
LEMMA RestartKeepsWorking ==
    ASSUME Watching, Working, WorkerRestart
    PROVE  Working'
<1>1. /\ reg' = reg /\ topic' = topic /\ pos' = committed /\ committed' = committed
      /\ work' = None /\ finished' = finished /\ failed' = failed /\ lost' = lost
  BY DEF WorkerRestart, watcher
<1>2. Len(topic) \in Nat
  BY DEF Watching
<1> QED
  BY <1>1, <1>2 DEF Working, CommitEarned

LEMMA WorkStep ==
    ASSUME Watching, Working, [Next]_vars
    PROVE  Working'
<1>1. CASE /\ pos' = pos /\ committed' = committed /\ work' = work
           /\ finished' = finished /\ failed' = failed /\ lost' \subseteq Packages
  <2>1. Job' = Job
    BY WatchStep DEF Job, Content
  <2>2. 1 .. Len(topic) \subseteq 1 .. Len(topic') /\ 0 .. Len(topic) \subseteq 0 .. Len(topic')
    BY TopicOnlyGrows
  <2> QED
    BY <1>1, <2>1, <2>2 DEF Working, CommitEarned
<1>2. ASSUME \/ InitCursor \/ RejectedCursor \/ Poll \/ Publish \/ Checkpoint \/ PublishFails
             \/ WatcherRestart \/ \E p \in Packages : Change(p) \/ PollCrate(p) \/ Seed(p)
             \/ UNCHANGED vars
      PROVE  lost' \subseteq Packages /\ consumer' = consumer
  <2>1. \A s \in 1 .. Len(feed) : feed[s].pkg \in Packages
    <3>1. feed \in Seq(FeedItem)
      BY DEF Watching
    <3>2. \A s \in 1 .. Len(feed) : feed[s] \in FeedItem
      BY <3>1
    <3> QED
      BY <3>2 DEF FeedItem
  <2>2. lost \subseteq Packages /\ Len(feed) \in Nat
    BY DEF Working, Watching
  <2>3. CASE InitCursor
    BY <2>1, <2>2, <2>3 DEF InitCursor
  <2>4. CASE RejectedCursor
    <3>1. cursor \in Nat /\ consumer' = consumer
          /\ lost' = lost \cup {feed[s].pkg : s \in cursor + 1 .. Len(feed)}
      BY <2>4, Numbers DEF RejectedCursor, Watching
    <3> QED
      BY <2>1, <2>2, <3>1
  <2>5. CASE Poll
    <3> DEFINE hi == IF cursor + BatchSize < Len(feed) THEN cursor + BatchSize ELSE Len(feed)
    <3>1. /\ cursor \in Nat /\ hi \in 0 .. Len(feed) /\ consumer' = consumer
      BY <2>5, Numbers DEF Poll, Watching
    <3>2. lost' \subseteq lost \cup Regrouped(cursor + 1, hi)
      BY <2>5 DEF Poll
    <3> HIDE DEF hi
    <3>3. Regrouped(cursor + 1, hi) \subseteq {feed[s].pkg : s \in cursor + 1 .. hi}
      BY DEF Regrouped
    <3>4. cursor + 1 .. hi \subseteq 1 .. Len(feed)
      BY <2>2, <3>1
    <3> QED
      BY <2>1, <2>2, <3>1, <3>2, <3>3, <3>4
  <2> QED
    BY <1>2, <2>2, <2>3, <2>4, <2>5 DEF Publish, Checkpoint, PublishFails, WatcherRestart,
                                        Change, PollCrate, Seed, vars
<1>3. \/ Fetch \/ FetchRefused \/ FetchFails \/ Transact \/ Delete \/ DeleteRow \/ Commit
      \/ Unreadable \/ DatabaseFails \/ WorkerRestart
      \/ InitCursor \/ RejectedCursor \/ Poll \/ Publish \/ Checkpoint \/ PublishFails
      \/ WatcherRestart \/ (\E p \in Packages : Change(p) \/ PollCrate(p) \/ Seed(p))
      \/ UNCHANGED vars
  BY DEF Next, Watch, Process, Failure
<1> QED
  BY <1>1, <1>2, <1>3, BeginKeepsWorking, FetchFailsKeepsWorking, StageKeepsWorking,
     EndKeepsWorking, RestartKeepsWorking DEF consumer

LEMMA InitKept == Init => Watching /\ Working
<1> SUFFICES ASSUME Init PROVE Watching /\ Working
  OBVIOUS
<1>1. feed = <<>> /\ topic = <<>> /\ Len(feed) = 0 /\ Len(topic) = 0
  BY DEF Init
<1>2. feed \in Seq(FeedItem) /\ topic \in Seq(Message)
  BY <1>1
<1>3. cursor \in 0 .. 0 \cup {None} /\ jumped = 0 /\ batch = None /\ reg \in Registries
  BY DEF Init
<1>4. live \in [Packages -> Content \cup {None}] /\ seen \in [Packages -> Content \cup {None}]
  BY DEF Init
<1>5. Watching
  BY <1>1, <1>2, <1>3, <1>4, Numbers DEF Watching, BatchTyped, BatchCovered, CursorCovered
<1>6. Working
  BY <1>1 DEF Init, Working, CommitEarned
<1> QED
  BY <1>5, <1>6

-----------------------------------------------------------------------------
(* The state table and the events.                                         *)

TellTyped ==
    /\ row \in [Packages -> Content \cup {None}] /\ seeded \subseteq Packages
    /\ told \in [Packages -> [Versions -> Status]]
    /\ untold \subseteq Packages \X Versions

\* Between the two statements of a deletion the events are ahead of the row,
\* and what the row still has is said to be gone.
Telling ==
    /\ TellTyped
    /\ RowsTold
    /\ work # None /\ work.stage = "tx" => work.got \in Content
    /\ work # None /\ work.stage = "row" =>
          \A v \in Versions : <<work.pkg, v>> \in untold \/ told[work.pkg][v] # "live"

Live(c, v) == c[v] = "live"

\* What a set of events says of a version.
IsDeleted(es) == \E e \in es : e.kind = "deleted"
IsLive(es, v) == \E e \in es : e.of = v /\ e.kind \in {"upserted", "unyanked"}
IsYanked(es, v) == \E e \in es : e.of = v /\ e.kind \in {"yanked", "yanked upserted"}

LEMMA SaidTyped ==
    ASSUME told \in [Packages -> [Versions -> Status]], NEW es, NEW p \in Packages
    PROVE  Said(es, p) \in [Versions -> Status]
<1>1. ASSUME NEW v \in Versions PROVE told[p][v] \in Status
  OBVIOUS
<1> QED
  BY <1>1 DEF Said, Status

\* Events without a deletion, and that do not contradict each other.
LEMMA SaidOf ==
    ASSUME NEW es, NEW p, NEW v \in Versions, ~IsDeleted(es), ~(IsLive(es, v) /\ IsYanked(es, v))
    PROVE  Live(Said(es, p), v) <=> \/ IsLive(es, v)
                                    \/ ~IsYanked(es, v) /\ Live(told[p], v)
<1>1. Said(es, p)[v] = CASE IsDeleted(es) -> "none"
                         [] IsLive(es, v) -> "live"
                         [] IsYanked(es, v) -> "yanked"
                         [] OTHER -> told[p][v]
  BY DEF Said, IsDeleted, IsLive, IsYanked
<1> QED
  BY <1>1 DEF Live

\* Events of a deletion alone.
LEMMA DeletedSaid ==
    ASSUME NEW es, NEW p, NEW v \in Versions, IsDeleted(es), ~IsLive(es, v), ~IsYanked(es, v)
    PROVE  Said(es, p)[v] = "none"
<1>1. Said(es, p)[v] = CASE IsDeleted(es) -> "none"
                         [] IsLive(es, v) -> "live"
                         [] IsYanked(es, v) -> "yanked"
                         [] OTHER -> told[p][v]
  BY DEF Said, IsDeleted, IsLive, IsYanked
<1> QED
  BY <1>1

\* What the events of a package, of versions and of yankings say.
LEMMA KindsOfEvents ==
    ASSUME NEW p, NEW v \in Versions, NEW c, NEW vs \in SUBSET Versions
    PROVE  /\ ~IsDeleted(PackageEvent(p, c)) /\ ~IsDeleted(VersionEvents(p, vs))
           /\ ~IsDeleted(YankedEvents(p, vs)) /\ ~IsDeleted(UnyankedEvents(p, vs))
           /\ ~IsDeleted(CargoVersionEvents(p, vs, c))
           /\ ~IsLive(PackageEvent(p, c), v) /\ ~IsYanked(PackageEvent(p, c), v)
           /\ IsLive(VersionEvents(p, vs), v) <=> v \in vs
           /\ ~IsYanked(VersionEvents(p, vs), v)
           /\ IsYanked(YankedEvents(p, vs), v) <=> v \in vs
           /\ ~IsLive(YankedEvents(p, vs), v)
           /\ IsLive(UnyankedEvents(p, vs), v) <=> v \in vs
           /\ ~IsYanked(UnyankedEvents(p, vs), v)
           /\ IsLive(CargoVersionEvents(p, vs, c), v) <=> v \in vs /\ c[v] = "live"
           /\ IsYanked(CargoVersionEvents(p, vs, c), v) <=> v \in vs /\ c[v] # "live"
           /\ IsDeleted(DeletedEvent(p))
           /\ ~IsLive(DeletedEvent(p), v) /\ ~IsYanked(DeletedEvent(p), v)
           /\ ~IsDeleted({}) /\ ~IsLive({}, v) /\ ~IsYanked({}, v)
<1> USE DEF IsDeleted, IsLive, IsYanked
<1>1. /\ ~IsDeleted(PackageEvent(p, c)) /\ ~IsLive(PackageEvent(p, c), v)
      /\ ~IsYanked(PackageEvent(p, c), v)
  BY DEF Event, PackageEvent
<1>2. /\ ~IsDeleted(VersionEvents(p, vs)) /\ (IsLive(VersionEvents(p, vs), v) <=> v \in vs)
      /\ ~IsYanked(VersionEvents(p, vs), v)
  <2>1. ASSUME v \in vs PROVE \E e \in VersionEvents(p, vs) : e.kind = "upserted" /\ e.of = v
    <3> DEFINE e == [kind |-> "upserted", pkg |-> p, of |-> v]
    <3>1. e \in VersionEvents(p, vs)
      BY <2>1 DEF Event, VersionEvents
    <3>2. e.kind = "upserted" /\ e.of = v
      OBVIOUS
    <3> QED
      BY <3>1, <3>2
  <2>2. \A e \in VersionEvents(p, vs) : e.kind = "upserted" /\ e.of \in vs
    BY DEF Event, VersionEvents
  <2> QED
    BY <2>1, <2>2
<1>3. /\ ~IsDeleted(YankedEvents(p, vs)) /\ (IsYanked(YankedEvents(p, vs), v) <=> v \in vs)
      /\ ~IsLive(YankedEvents(p, vs), v)
  <2>1. ASSUME v \in vs PROVE \E e \in YankedEvents(p, vs) : e.kind = "yanked" /\ e.of = v
    <3> DEFINE e == [kind |-> "yanked", pkg |-> p, of |-> v]
    <3>1. e \in YankedEvents(p, vs)
      BY <2>1 DEF Event, YankedEvents
    <3>2. e.kind = "yanked" /\ e.of = v
      OBVIOUS
    <3> QED
      BY <3>1, <3>2
  <2>2. \A e \in YankedEvents(p, vs) : e.kind = "yanked" /\ e.of \in vs
    BY DEF Event, YankedEvents
  <2> QED
    BY <2>1, <2>2
<1>4. /\ ~IsDeleted(UnyankedEvents(p, vs)) /\ (IsLive(UnyankedEvents(p, vs), v) <=> v \in vs)
      /\ ~IsYanked(UnyankedEvents(p, vs), v)
  <2>1. ASSUME v \in vs PROVE \E e \in UnyankedEvents(p, vs) : e.kind = "unyanked" /\ e.of = v
    <3> DEFINE e == [kind |-> "unyanked", pkg |-> p, of |-> v]
    <3>1. e \in UnyankedEvents(p, vs)
      BY <2>1 DEF Event, UnyankedEvents
    <3>2. e.kind = "unyanked" /\ e.of = v
      OBVIOUS
    <3> QED
      BY <3>1, <3>2
  <2>2. \A e \in UnyankedEvents(p, vs) : e.kind = "unyanked" /\ e.of \in vs
    BY DEF Event, UnyankedEvents
  <2> QED
    BY <2>1, <2>2
<1>5. /\ ~IsDeleted(CargoVersionEvents(p, vs, c))
      /\ IsLive(CargoVersionEvents(p, vs, c), v) <=> v \in vs /\ c[v] = "live"
      /\ IsYanked(CargoVersionEvents(p, vs, c), v) <=> v \in vs /\ c[v] # "live"
  <2> DEFINE kind(x) == IF c[x] = "live" THEN "upserted" ELSE "yanked upserted"
  <2>1. ASSUME v \in vs PROVE \E e \in CargoVersionEvents(p, vs, c) : e.kind = kind(v) /\ e.of = v
    <3> DEFINE e == [kind |-> kind(v), pkg |-> p, of |-> v]
    <3>1. e \in CargoVersionEvents(p, vs, c)
      BY <2>1 DEF Event, CargoVersionEvents
    <3>2. e.kind = kind(v) /\ e.of = v
      OBVIOUS
    <3> QED
      BY <3>1, <3>2
  <2>2. ASSUME NEW e \in CargoVersionEvents(p, vs, c) PROVE e.kind = kind(e.of) /\ e.of \in vs
    <3>1. PICK x \in vs : e = [kind |-> kind(x), pkg |-> p, of |-> x]
      BY DEF Event, CargoVersionEvents
    <3>2. e.of = x /\ e.kind = kind(x)
      BY <3>1
    <3> QED
      BY <3>2
  <2>3. kind(v) \in {"upserted", "yanked upserted"} /\ (kind(v) = "upserted" <=> c[v] = "live")
    OBVIOUS
  <2>4. \A x : kind(x) # "deleted" /\ kind(x) # "unyanked" /\ kind(x) # "yanked"
    OBVIOUS
  <2> HIDE DEF kind
  <2> QED
    BY <2>1, <2>2, <2>3, <2>4
<1>6. /\ IsDeleted(DeletedEvent(p))
      /\ ~IsLive(DeletedEvent(p), v) /\ ~IsYanked(DeletedEvent(p), v)
  BY DEF Event, DeletedEvent
<1>7. ~IsDeleted({}) /\ ~IsLive({}, v) /\ ~IsYanked({}, v)
  OBVIOUS
<1> QED
  BY <1>1, <1>2, <1>3, <1>4, <1>5, <1>6, <1>7

\* Events of two kinds together.
LEMMA EventsTogether ==
    ASSUME NEW es, NEW fs, NEW v
    PROVE  /\ IsDeleted(es \cup fs) <=> IsDeleted(es) \/ IsDeleted(fs)
           /\ IsLive(es \cup fs, v) <=> IsLive(es, v) \/ IsLive(fs, v)
           /\ IsYanked(es \cup fs, v) <=> IsYanked(es, v) \/ IsYanked(fs, v)
  BY DEF IsDeleted, IsLive, IsYanked

\* A row that agreed with what was told of a version agrees again after the
\* events of a change, but for the gaps that the code leaves.
LEMMA NpmTells ==
    ASSUME reg = "npm", NEW p, NEW v \in Versions, NEW now,
           NEW old \in [Versions -> {"none", "live"}], NEW new \in [Versions -> {"none", "live"}],
           v \notin Gaps(old, new, now), Live(told[p], v) <=> Live(old, v)
    PROVE  Live(Said(NpmEvents(p, old, new, now), p), v) <=> Live(new, v)
<1> DEFINE added == {x \in Added(old, new) : now[x] # "none"}
           es == VersionEvents(p, added)
           fs == YankedEvents(p, Removed(old, new))
<1>1. added \in SUBSET Versions /\ Removed(old, new) \in SUBSET Versions
  BY DEF Added, Removed
<1>2. /\ v \in added <=> old[v] = "none" /\ new[v] # "none"
      /\ v \in Removed(old, new) <=> old[v] # "none" /\ new[v] = "none"
  BY DEF Gaps, Added, Removed
<1>3. NpmEvents(p, old, new, now) = es \cup fs
  BY DEF NpmEvents
<1> HIDE DEF added
<1>4. /\ ~IsDeleted(es) /\ ~IsDeleted(fs)
      /\ IsLive(es, v) <=> v \in added
      /\ ~IsYanked(es, v) /\ ~IsLive(fs, v)
      /\ IsYanked(fs, v) <=> v \in Removed(old, new)
  BY <1>1, KindsOfEvents
<1> HIDE DEF es, fs
<1>5. /\ ~IsDeleted(es \cup fs)
      /\ IsLive(es \cup fs, v) <=> v \in added
      /\ IsYanked(es \cup fs, v) <=> v \in Removed(old, new)
  BY <1>4 DEF IsDeleted, IsLive, IsYanked
<1>6. Live(Said(es \cup fs, p), v) <=> v \in added \/ (v \notin Removed(old, new) /\ Live(told[p], v))
  BY <1>2, <1>5, SaidOf
<1>7. old[v] \in {"none", "live"} /\ new[v] \in {"none", "live"}
  OBVIOUS
<1> QED
  BY <1>2, <1>3, <1>6, <1>7 DEF Live

LEMMA PypiTells ==
    ASSUME reg = "pypi", NEW p, NEW v \in Versions, NEW now,
           NEW old \in [Versions -> Status], NEW new \in [Versions -> Status],
           v \notin Gaps(old, new, now), Live(told[p], v) <=> Live(old, v)
    PROVE  Live(Said(PypiEvents(p, old, new), p), v) <=> Live(new, v)
<1> DEFINE ds == IF row[p] = None \/ Added(old, new) # {} THEN PackageEvent(p, new) ELSE {}
           es == VersionEvents(p, Added(old, new))
           fs == YankedEvents(p, Yanked(old, new))
           gs == UnyankedEvents(p, Unyanked(old, new))
<1>1. /\ Added(old, new) \in SUBSET Versions /\ Yanked(old, new) \in SUBSET Versions
      /\ Unyanked(old, new) \in SUBSET Versions
  BY DEF Added, Yanked, Unyanked
<1>2. PypiEvents(p, old, new) = ((ds \cup es) \cup fs) \cup gs
  BY DEF PypiEvents
<1>3. /\ ~IsDeleted(ds) /\ ~IsDeleted(es) /\ ~IsDeleted(fs) /\ ~IsDeleted(gs)
      /\ ~IsLive(ds, v) /\ ~IsYanked(ds, v)
      /\ IsLive(es, v) <=> v \in Added(old, new)
      /\ ~IsYanked(es, v) /\ ~IsLive(fs, v)
      /\ IsYanked(fs, v) <=> v \in Yanked(old, new)
      /\ IsLive(gs, v) <=> v \in Unyanked(old, new)
      /\ ~IsYanked(gs, v)
  BY <1>1, KindsOfEvents
<1> HIDE DEF ds, es, fs, gs
<1>4. /\ ~IsDeleted(((ds \cup es) \cup fs) \cup gs)
      /\ IsLive(((ds \cup es) \cup fs) \cup gs, v)
            <=> v \in Added(old, new) \/ v \in Unyanked(old, new)
      /\ IsYanked(((ds \cup es) \cup fs) \cup gs, v) <=> v \in Yanked(old, new)
  BY <1>3 DEF IsDeleted, IsLive, IsYanked
<1>5. /\ v \in Added(old, new) <=> old[v] = "none" /\ new[v] # "none"
      /\ v \in Yanked(old, new) <=> old[v] = "live" /\ new[v] = "yanked"
      /\ v \in Unyanked(old, new) <=> old[v] = "yanked" /\ new[v] = "live"
      /\ ~(old[v] = "none" /\ new[v] = "yanked") /\ ~(old[v] # "none" /\ new[v] = "none")
  BY DEF Gaps, Added, Removed, Yanked, Unyanked
<1>6. Live(Said(((ds \cup es) \cup fs) \cup gs, p), v) <=>
          \/ v \in Added(old, new) \/ v \in Unyanked(old, new)
          \/ v \notin Yanked(old, new) /\ Live(told[p], v)
  <2> DEFINE all == ((ds \cup es) \cup fs) \cup gs
  <2> HIDE DEF all
  <2>1. ~IsDeleted(all) /\ ~(IsLive(all, v) /\ IsYanked(all, v))
    BY <1>4, <1>5 DEF all
  <2>2. Live(Said(all, p), v) <=> IsLive(all, v) \/ (~IsYanked(all, v) /\ Live(told[p], v))
    BY <2>1, SaidOf
  <2> QED
    BY <1>4, <2>2 DEF all
<1>7. old[v] \in Status /\ new[v] \in Status
  OBVIOUS
<1> QED
  BY <1>2, <1>5, <1>6, <1>7 DEF Live, Status

LEMMA CargoTells ==
    ASSUME reg = "cargo", NEW p, NEW v \in Versions, NEW now,
           NEW old \in [Versions -> Status], NEW new \in [Versions -> Status],
           v \notin Gaps(old, new, now), Live(told[p], v) <=> Live(old, v)
    PROVE  Live(Said(CargoEvents(p, old, new), p), v) <=> Live(new, v)
<1> DEFINE ds == IF old = Absent \/ Added(old, new) # {}
                 THEN PackageEvent(p, {x \in Versions : new[x] = "live"}) ELSE {}
           es == CargoVersionEvents(p, Added(old, new), new)
           fs == YankedEvents(p, Yanked(old, new))
           gs == UnyankedEvents(p, Unyanked(old, new))
<1>1. /\ Added(old, new) \in SUBSET Versions /\ Yanked(old, new) \in SUBSET Versions
      /\ Unyanked(old, new) \in SUBSET Versions
  BY DEF Added, Yanked, Unyanked
<1>2. CargoEvents(p, old, new) = ((ds \cup es) \cup fs) \cup gs
  BY DEF CargoEvents
<1>3. /\ ~IsDeleted(ds) /\ ~IsDeleted(es) /\ ~IsDeleted(fs) /\ ~IsDeleted(gs)
      /\ ~IsLive(ds, v) /\ ~IsYanked(ds, v)
      /\ IsLive(es, v) <=> v \in Added(old, new) /\ new[v] = "live"
      /\ IsYanked(es, v) <=> v \in Added(old, new) /\ new[v] # "live"
      /\ ~IsLive(fs, v)
      /\ IsYanked(fs, v) <=> v \in Yanked(old, new)
      /\ IsLive(gs, v) <=> v \in Unyanked(old, new)
      /\ ~IsYanked(gs, v)
  BY <1>1, KindsOfEvents
<1> HIDE DEF ds, es, fs, gs
<1>4. /\ ~IsDeleted(((ds \cup es) \cup fs) \cup gs)
      /\ IsLive(((ds \cup es) \cup fs) \cup gs, v)
            <=> (v \in Added(old, new) /\ new[v] = "live") \/ v \in Unyanked(old, new)
      /\ IsYanked(((ds \cup es) \cup fs) \cup gs, v)
            <=> (v \in Added(old, new) /\ new[v] # "live") \/ v \in Yanked(old, new)
  BY <1>3 DEF IsDeleted, IsLive, IsYanked
<1>5. /\ v \in Added(old, new) <=> old[v] = "none" /\ new[v] # "none"
      /\ v \in Yanked(old, new) <=> old[v] = "live" /\ new[v] = "yanked"
      /\ v \in Unyanked(old, new) <=> old[v] = "yanked" /\ new[v] = "live"
      /\ ~(old[v] # "none" /\ new[v] = "none")
  BY DEF Gaps, Added, Removed, Yanked, Unyanked
<1>6. Live(Said(((ds \cup es) \cup fs) \cup gs, p), v) <=>
          \/ v \in Added(old, new) /\ new[v] = "live"
          \/ v \in Unyanked(old, new)
          \/ /\ ~(v \in Added(old, new) /\ new[v] # "live") /\ v \notin Yanked(old, new)
             /\ Live(told[p], v)
  <2> DEFINE all == ((ds \cup es) \cup fs) \cup gs
  <2> HIDE DEF all
  <2>1. ~IsDeleted(all) /\ ~(IsLive(all, v) /\ IsYanked(all, v))
    BY <1>4, <1>5 DEF all
  <2>2. Live(Said(all, p), v) <=> IsLive(all, v) \/ (~IsYanked(all, v) /\ Live(told[p], v))
    BY <2>1, SaidOf
  <2> QED
    BY <1>4, <2>2 DEF all
<1>7. old[v] \in Status /\ new[v] \in Status
  OBVIOUS
<1> QED
  BY <1>2, <1>5, <1>6, <1>7 DEF Live, Status

\* Events that are inserted: what is told of a version afterwards is what they
\* say, or it is left unsaid.
LEMMA InsertTells ==
    ASSUME TellTyped, NEW p \in Packages, NEW es, NEW gaps \in SUBSET Versions,
           Insert(p, es, gaps)
    PROVE  /\ told' \in [Packages -> [Versions -> Status]]
           /\ untold' \subseteq Packages \X Versions /\ untold \subseteq untold'
           /\ \A q \in Packages : q # p => told'[q] = told[q]
           /\ \A v \in Versions : \/ <<p, v>> \in untold'
                                  \/ v \notin gaps /\ told'[p][v] = Said(es, p)[v]
<1> DEFINE fresh == Said(es \ outbox, p)
           unsaid == gaps \cup {v \in Versions : fresh[v] # Said(es, p)[v]}
<1>1. /\ told' = [told EXCEPT ![p] = fresh]
      /\ untold' = untold \cup {<<p, v>> : v \in unsaid}
  BY DEF Insert
<1>2. fresh \in [Versions -> Status]
  BY SaidTyped DEF TellTyped
<1>3. unsaid \subseteq Versions
  OBVIOUS
<1>4. \A v \in Versions : v \in unsaid \/ (v \notin gaps /\ fresh[v] = Said(es, p)[v])
  OBVIOUS
<1> HIDE DEF fresh, unsaid
<1>5. told' \in [Packages -> [Versions -> Status]] /\ told'[p] = fresh
      /\ \A q \in Packages : q # p => told'[q] = told[q]
  BY <1>1, <1>2 DEF TellTyped
<1>6. untold' \subseteq Packages \X Versions /\ untold \subseteq untold'
  BY <1>1, <1>3 DEF TellTyped
<1> QED
  BY <1>1, <1>4, <1>5, <1>6

\* What agrees of one version.
LEMMA ToldOf ==
    ASSUME NEW p, NEW v
    PROVE  (told[p][v] = "live") = (ContentOf(row[p])[v] = "live")
              <=> (Live(told[p], v) <=> Live(ContentOf(row[p]), v))
  BY DEF Live

LEMMA ContentTyped ==
    ASSUME NEW c \in Content \cup {None}
    PROVE  ContentOf(c) \in Content /\ (c \in Content => ContentOf(c) = c)
  BY Numbers DEF ContentOf, Content, Absent, Status

\* A comparison writes the row and the events together.
LEMMA TransactKeepsTelling ==
    ASSUME Watching, Working, Telling, Transact
    PROVE  Telling'
<1> DEFINE p == work.pkg
           old == ContentOf(row[p])
           now == ContentOf(live[p])
           es == CASE reg = "npm" -> NpmEvents(p, old, work.got, now)
                   [] reg = "pypi" -> PypiEvents(p, old, work.got)
                   [] reg = "cargo" -> CargoEvents(p, old, work.got)
<1>1. /\ work # None /\ work.stage = "tx" /\ work.got \in Content /\ p \in Packages
      /\ work \in Job /\ reg' = reg /\ Content' = Content /\ reg \in Registries
      /\ work' = [work EXCEPT !.stage = "commit"]
  BY DEF Transact, Working, Telling, Job, Watching, Content
<1>2. work'.stage = "commit" /\ work'.pkg = p
  BY <1>1 DEF Job
<1>3. \/ UNCHANGED database
      \/ /\ row' = [row EXCEPT ![p] = work.got] /\ seeded' = seeded
         /\ Insert(p, es, Gaps(old, work.got, now))
  BY DEF Transact
<1>4. CASE UNCHANGED database
  BY <1>1, <1>2, <1>4 DEF Telling, TellTyped, RowsTold, database
<1>5. CASE /\ row' = [row EXCEPT ![p] = work.got] /\ seeded' = seeded
           /\ Insert(p, es, Gaps(old, work.got, now))
  <2>1. old \in Content /\ Gaps(old, work.got, now) \subseteq Versions
    BY <1>1, ContentTyped DEF Telling, TellTyped, Gaps, Added, Removed
  <2>2. /\ told' \in [Packages -> [Versions -> Status]]
        /\ untold' \subseteq Packages \X Versions /\ untold \subseteq untold'
        /\ \A q \in Packages : q # p => told'[q] = told[q]
        /\ \A v \in Versions : \/ <<p, v>> \in untold'
                               \/ /\ v \notin Gaps(old, work.got, now)
                                  /\ told'[p][v] = Said(es, p)[v]
    <3> HIDE DEF es
    <3> QED
      BY <1>1, <1>5, <2>1, InsertTells DEF Telling
  <2>3. TellTyped' /\ row'[p] = work.got /\ \A q \in Packages : q # p => row'[q] = row[q]
    BY <1>1, <1>5, <2>2 DEF Telling, TellTyped
  <2>4. ASSUME NEW v \in Versions, <<p, v>> \notin untold'
        PROVE  Live(told'[p], v) <=> Live(ContentOf(row'[p]), v)
    <3>1. v \notin Gaps(old, work.got, now) /\ (Live(told'[p], v) <=> Live(Said(es, p), v))
      BY <2>2, <2>4 DEF Live
    <3>2. Live(told[p], v) <=> Live(old, v)
      BY <1>1, <2>2, <2>4, ToldOf DEF Telling, RowsTold
    <3>3. Live(Said(es, p), v) <=> Live(work.got, v)
      <4>1. CASE reg = "npm"
        <5>1. old \in [Versions -> {"none", "live"}] /\ work.got \in [Versions -> {"none", "live"}]
          BY <1>1, <2>1, <4>1 DEF Content, Status
        <5>2. Live(Said(NpmEvents(p, old, work.got, now), p), v) <=> Live(work.got, v)
          <6> HIDE DEF p, old, now
          <6> QED
            BY <3>1, <3>2, <4>1, <5>1, NpmTells
        <5> QED
          BY <4>1, <5>2
      <4>2. CASE reg = "pypi"
        <5>1. old \in [Versions -> Status] /\ work.got \in [Versions -> Status]
          BY <1>1, <2>1, <4>2 DEF Content
        <5>2. Live(Said(PypiEvents(p, old, work.got), p), v) <=> Live(work.got, v)
          <6> HIDE DEF p, old, now
          <6> QED
            BY <3>1, <3>2, <4>2, <5>1, PypiTells
        <5> QED
          BY <4>2, <5>2
      <4>3. CASE reg = "cargo"
        <5>1. old \in [Versions -> Status] /\ work.got \in [Versions -> Status]
          BY <1>1, <2>1, <4>3 DEF Content
        <5>2. Live(Said(CargoEvents(p, old, work.got), p), v) <=> Live(work.got, v)
          <6> HIDE DEF p, old, now
          <6> QED
            BY <3>1, <3>2, <4>3, <5>1, CargoTells
        <5> QED
          BY <4>3, <5>2
      <4> QED
        BY <1>1, <4>1, <4>2, <4>3 DEF Registries
    <3> QED
      BY <1>1, <2>3, <3>1, <3>3, ContentTyped
  <2>5. RowsTold'
    <3>1. ASSUME NEW q \in Packages, NEW v \in Versions, <<q, v>> \notin untold'
          PROVE  (told'[q][v] = "live") = (ContentOf(row'[q])[v] = "live")
      <4>1. CASE q = p
        BY <2>4, <3>1, <4>1 DEF Live
      <4>2. CASE q # p
        BY <1>1, <2>2, <2>3, <3>1, <4>2 DEF Telling, RowsTold
      <4> QED
        BY <4>1, <4>2
    <3> QED
      BY <3>1 DEF RowsTold, ContentOf, Absent
  <2> QED
    BY <1>2, <2>3, <2>5 DEF Telling
<1> QED
  BY <1>3, <1>4, <1>5

\* A deletion: npm writes event and row together, PyPI the event first.
LEMMA DeleteKeepsTelling ==
    ASSUME Watching, Working, Telling, Delete
    PROVE  Telling'
<1> DEFINE p == work.pkg
<1>1. /\ work # None /\ work.stage = "delete" /\ p \in Packages /\ work \in Job
      /\ reg' = reg /\ Content' = Content
      /\ work' = [work EXCEPT !.stage = IF reg = "npm" THEN "commit" ELSE "row"]
  BY DEF Delete, Working, Job, Content
<1>2. work'.stage = (IF reg = "npm" THEN "commit" ELSE "row") /\ work'.pkg = p
  BY <1>1 DEF Job
<1>3. \/ reg = "npm" /\ UNCHANGED database
      \/ /\ Insert(p, DeletedEvent(p), {}) /\ seeded' = seeded
         /\ row' = IF reg = "npm" THEN [row EXCEPT ![p] = None] ELSE row
  BY DEF Delete
<1>4. CASE reg = "npm" /\ UNCHANGED database
  BY <1>1, <1>2, <1>4 DEF Telling, TellTyped, RowsTold, database
<1>5. CASE /\ Insert(p, DeletedEvent(p), {}) /\ seeded' = seeded
           /\ row' = IF reg = "npm" THEN [row EXCEPT ![p] = None] ELSE row
  <2> HIDE DEF p
  <2>1. /\ told' \in [Packages -> [Versions -> Status]]
        /\ untold' \subseteq Packages \X Versions /\ untold \subseteq untold'
        /\ \A q \in Packages : q # p => told'[q] = told[q]
        /\ \A v \in Versions : <<p, v>> \in untold' \/ told'[p][v] = Said(DeletedEvent(p), p)[v]
    BY <1>1, <1>5, InsertTells DEF Telling
  <2>2. /\ TellTyped' /\ \A q \in Packages : q # p => row'[q] = row[q]
        /\ reg = "npm" => row'[p] = None
    BY <1>1, <1>5, <2>1 DEF Telling, TellTyped
  <2>3. \A v \in Versions : <<p, v>> \in untold' \/ told'[p][v] = "none"
    <3>1. ASSUME NEW v \in Versions PROVE Said(DeletedEvent(p), p)[v] = "none"
      <4>1. /\ IsDeleted(DeletedEvent(p)) /\ ~IsLive(DeletedEvent(p), v)
            /\ ~IsYanked(DeletedEvent(p), v)
        BY DEF Event, DeletedEvent, IsDeleted, IsLive, IsYanked
      <4> QED
        BY <4>1, DeletedSaid
    <3> QED
      BY <2>1, <3>1
  <2>4. RowsTold'
    <3>1. ASSUME NEW q \in Packages, NEW v \in Versions, <<q, v>> \notin untold',
                 ~(work' # None /\ work'.stage = "row" /\ work'.pkg = q)
          PROVE  (told'[q][v] = "live") = (ContentOf(row'[q])[v] = "live")
      <4>1. CASE q # p
        BY <1>1, <2>1, <2>2, <3>1, <4>1 DEF p, Telling, RowsTold
      <4>2. CASE q = p
        <5>1. work' # None
          BY <1>1, StageKeepsWorking, JobIsNotNone DEF Job, Delete
        <5>2. reg = "npm"
          BY <1>2, <3>1, <4>2, <5>1
        <5> QED
          BY <2>2, <2>3, <3>1, <4>2, <5>2 DEF ContentOf, Absent
      <4> QED
        BY <4>1, <4>2
    <3> QED
      BY <3>1 DEF RowsTold, ContentOf, Absent
  <2> QED
    BY <1>2, <2>2, <2>3, <2>4 DEF Telling
<1> QED
  BY <1>3, <1>4, <1>5

\* PyPI's second statement: what the events say is gone goes.
LEMMA DeleteRowKeepsTelling ==
    ASSUME Watching, Working, Telling, DeleteRow
    PROVE  Telling'
<1> DEFINE p == work.pkg
<1>1. /\ work # None /\ work.stage = "row" /\ p \in Packages /\ work \in Job
      /\ reg' = reg /\ Content' = Content /\ told' = told /\ untold' = untold
      /\ row' = [row EXCEPT ![p] = None] /\ seeded' = seeded \ {p}
      /\ work' = [work EXCEPT !.stage = "commit"]
  BY DEF DeleteRow, Working, Job, Content
<1>2. work'.stage = "commit" /\ work'.pkg = p
  BY <1>1 DEF Job
<1>3. /\ TellTyped' /\ row'[p] = None /\ \A q \in Packages : q # p => row'[q] = row[q]
      /\ \A v \in Versions : <<p, v>> \in untold \/ told[p][v] # "live"
  BY <1>1 DEF Telling, TellTyped
<1>4. RowsTold'
  <2>1. ASSUME NEW q \in Packages, NEW v \in Versions, <<q, v>> \notin untold
        PROVE  (told[q][v] = "live") = (ContentOf(row'[q])[v] = "live")
    <3>1. CASE q = p
      BY <1>3, <2>1, <3>1 DEF ContentOf, Absent
    <3>2. CASE q # p
      BY <1>1, <1>3, <2>1, <3>2 DEF Telling, RowsTold
    <3> QED
      BY <3>1, <3>2
  <2> QED
    BY <1>1, <2>1 DEF RowsTold, ContentOf, Absent
<1> QED
  BY <1>1, <1>2, <1>3, <1>4 DEF Telling

\* A message that is let go of between the two statements leaves its package
\* unsaid.
LEMMA EndKeepsTelling ==
    ASSUME Watching, Working, Telling,
           reg' = reg, row' = row, told' = told, seeded' = seeded, work' = None,
           untold' = untold \cup HalfDeleted
    PROVE  Telling'
<1>1. HalfDeleted \subseteq Packages \X Versions
  BY DEF HalfDeleted, Working, Job
<1>2. TellTyped'
  BY <1>1 DEF Telling, TellTyped, Content
<1>3. RowsTold'
  <2>1. ASSUME NEW q \in Packages, NEW v \in Versions, <<q, v>> \notin untold'
        PROVE  (told[q][v] = "live") = (ContentOf(row[q])[v] = "live")
    <3>1. ~(work # None /\ work.stage = "row" /\ work.pkg = q)
      BY <2>1 DEF HalfDeleted
    <3> QED
      BY <2>1, <3>1 DEF Telling, RowsTold
  <2> QED
    BY <2>1 DEF RowsTold, ContentOf, Absent
<1> QED
  BY <1>2, <1>3 DEF Telling

\* The seed mode writes a row and events, and what they do not agree on is
\* unsaid.
LEMMA SeedKeepsTelling ==
    ASSUME Watching, Working, Telling, NEW p \in Packages, Seed(p)
    PROVE  Telling'
<1> DEFINE es == VersionEvents(p, {v \in Versions : live[p][v] = "live"})
           differ == {v \in Versions : (told'[p][v] = "live") # (live[p][v] = "live")}
<1>1. /\ reg' = reg /\ Content' = Content /\ live[p] \in Content /\ work' = work
      /\ row' = [row EXCEPT ![p] = live[p]] /\ seeded' = seeded \cup {p}
      /\ told' = [told EXCEPT ![p] = Said(es, p)]
      /\ untold' = untold \cup HalfDeleted \cup {<<p, v>> : v \in differ}
  BY DEF Seed, Watching, Content, consumer
<1>2. Said(es, p) \in [Versions -> Status]
  BY SaidTyped DEF Telling, TellTyped
<1>3. differ \subseteq Versions
        /\ \A v \in Versions : v \notin differ => (told'[p][v] = "live") = (live[p][v] = "live")
  OBVIOUS
<1> HIDE DEF es, differ
<1>4. HalfDeleted \subseteq Packages \X Versions
  BY DEF HalfDeleted, Working, Job
<1>5. /\ TellTyped' /\ row'[p] = live[p] /\ ContentOf(row'[p]) = live[p]
      /\ \A q \in Packages : q # p => row'[q] = row[q] /\ told'[q] = told[q]
  <2>1. told' \in [Packages -> [Versions -> Status]]
    BY <1>1, <1>2 DEF Telling, TellTyped
  <2>2. untold' \subseteq Packages \X Versions
    BY <1>1, <1>3, <1>4 DEF Telling, TellTyped
  <2>3. row' \in [Packages -> Content \cup {None}] /\ seeded' \subseteq Packages
    BY <1>1 DEF Telling, TellTyped
  <2>4. row'[p] = live[p] /\ \A q \in Packages : q # p => row'[q] = row[q] /\ told'[q] = told[q]
    BY <1>1 DEF Telling, TellTyped
  <2>5. ContentOf(live[p]) = live[p]
    BY <1>1, ContentTyped
  <2> QED
    BY <1>1, <2>1, <2>2, <2>3, <2>4, <2>5 DEF TellTyped
<1>6. work # None /\ work.stage = "row" => \A v \in Versions : <<work.pkg, v>> \in untold'
  BY <1>1 DEF HalfDeleted
<1>7. RowsTold'
  <2>1. ASSUME NEW q \in Packages, NEW v \in Versions, <<q, v>> \notin untold'
        PROVE  (told'[q][v] = "live") = (ContentOf(row'[q])[v] = "live")
    <3>1. CASE q = p
      <4>1. v \notin differ
        BY <1>1, <2>1, <3>1
      <4> QED
        BY <1>3, <1>5, <3>1, <4>1
    <3>2. CASE q # p
      <4>1. <<q, v>> \notin untold /\ ~(work # None /\ work.stage = "row" /\ work.pkg = q)
        BY <1>1, <1>6, <2>1
      <4> QED
        BY <1>5, <3>2, <4>1 DEF Telling, RowsTold
    <3> QED
      BY <3>1, <3>2
  <2> QED
    BY <2>1 DEF RowsTold, ContentOf, Absent
<1> QED
  BY <1>1, <1>5, <1>6, <1>7 DEF Telling

\* The other steps leave the database alone; a message that is taken up has
\* what the comparison needs.
LEMMA OthersKeepTelling ==
    ASSUME Watching, Working, Telling, UNCHANGED database, reg' = reg,
           work = None \/ work.stage = "commit" \/ work' = work,
           \/ work' = None \/ work' = work
           \/ work'.stage \in {"tx", "delete", "commit"}
              /\ (work'.stage = "tx" => work'.got \in Content)
    PROVE  Telling'
<1>1. Content' = Content /\ TellTyped'
  BY DEF Content, database, Telling, TellTyped
<1>2. RowsTold'
  BY DEF RowsTold, Telling, database, ContentOf, Absent
<1> QED
  BY <1>1, <1>2 DEF Telling, database

LEMMA FetchKeepsTelling ==
    ASSUME Watching, Working, Telling, Fetch \/ FetchRefused
    PROVE  Telling'
<1>1. pos + 1 \in DOMAIN topic /\ topic \in Seq(Message)
  BY DEF Fetch, FetchRefused, HasNext, Working, Watching
<1>2. topic[pos + 1] \in Message /\ live \in [Packages -> Content \cup {None}]
  BY <1>1 DEF Watching
<1>3. Answer(topic[pos + 1]) \in Content \cup {None}
  BY <1>2 DEF Answer, Message
<1>4. /\ UNCHANGED database /\ reg' = reg /\ work = None
      /\ work'.stage \in {"tx", "delete", "commit"}
      /\ work'.stage = "tx" => work'.got \in Content
  <2>1. CASE FetchRefused
    BY <2>1 DEF FetchRefused, HasNext, Begin
  <2>2. CASE Fetch
    <3> DEFINE got == Answer(topic[pos + 1])
    <3>1. /\ work = None
          /\ Begin("commit", None) \/ Begin("delete", None) \/ Begin("delete", got)
             \/ (got # None /\ Begin("tx", got))
      BY <2>2 DEF Fetch, HasNext
    <3> HIDE DEF got
    <3>2. got \in Content \cup {None}
      BY <1>3 DEF got
    <3> QED
      BY <3>1, <3>2 DEF Begin
  <2> QED
    BY <2>1, <2>2
<1> QED
  BY <1>4, OthersKeepTelling

LEMMA TellStep ==
    ASSUME Watching, Working, Telling, [Next]_vars
    PROVE  Telling'
<1>1. reg' = reg
  BY WatchStep
<1>2. CASE Unreadable \/ DatabaseFails \/ WorkerRestart
  <2>1. /\ row' = row /\ told' = told /\ seeded' = seeded /\ work' = None
        /\ untold' = untold \cup HalfDeleted
    BY <1>2 DEF Unreadable, DatabaseFails, GiveUp, WorkerRestart
  <2> QED
    BY <1>1, <2>1, EndKeepsTelling
<1>3. CASE FetchFails \/ Commit
  <2>1. UNCHANGED database /\ work' \in {None, work} /\ (work = None \/ work.stage = "commit")
    BY <1>3 DEF FetchFails, HasNext, Commit, database
  <2> QED
    BY <1>1, <2>1, OthersKeepTelling
<1>4. CASE \/ InitCursor \/ RejectedCursor \/ Poll \/ Publish \/ Checkpoint \/ PublishFails
           \/ WatcherRestart \/ (\E p \in Packages : Change(p) \/ PollCrate(p))
           \/ UNCHANGED vars
  <2>1. UNCHANGED database /\ work' = work
    BY <1>4 DEF InitCursor, RejectedCursor, Poll, Publish, Checkpoint, PublishFails,
                WatcherRestart, Change, PollCrate, vars, consumer
  <2> QED
    BY <1>1, <2>1, OthersKeepTelling
<1>5. \/ Fetch \/ FetchRefused \/ FetchFails \/ Transact \/ Delete \/ DeleteRow \/ Commit
      \/ Unreadable \/ DatabaseFails \/ WorkerRestart
      \/ InitCursor \/ RejectedCursor \/ Poll \/ Publish \/ Checkpoint \/ PublishFails
      \/ WatcherRestart \/ (\E p \in Packages : Change(p) \/ PollCrate(p) \/ Seed(p))
      \/ UNCHANGED vars
  BY DEF Next, Watch, Process, Failure
<1> QED
  BY <1>2, <1>3, <1>4, <1>5, FetchKeepsTelling, TransactKeepsTelling, DeleteKeepsTelling,
     DeleteRowKeepsTelling, SeedKeepsTelling

LEMMA InitTells == Init => Telling
<1> SUFFICES ASSUME Init PROVE Telling
  OBVIOUS
<1>1. TellTyped
  BY DEF Init, TellTyped, Status
<1>2. RowsTold
  BY DEF Init, RowsTold, ContentOf, Absent
<1> QED
  BY <1>1, <1>2 DEF Init, Telling

-----------------------------------------------------------------------------

RegistryInv == Watching /\ Working /\ Telling

LEMMA AlwaysRegistryInv == Spec => []RegistryInv
<1>1. Init => RegistryInv
  BY InitKept, InitTells DEF RegistryInv
<1>2. RegistryInv /\ [Next]_vars => RegistryInv'
  BY WatchStep, WorkStep, TellStep DEF RegistryInv
<1> QED
  BY <1>1, <1>2, PTL DEF Spec

\* The cursor passes no change of which the topic says nothing, and the
\* committed offset no message that was neither processed nor given up: a
\* watcher and a worker may always resume.
THEOREM NothingPassedOver == Spec => []Resumable
<1>1. RegistryInv => Resumable
  <2> SUFFICES ASSUME RegistryInv PROVE Resumable
    OBVIOUS
  <2>1. batch = None \/ (batch.todo \subseteq 1 .. batch.upto /\ batch.upto \in 1 .. Len(feed))
    BY DEF RegistryInv, Watching, BatchTyped
  <2>2. TypeOK
    BY <2>1 DEF RegistryInv, Watching, Working, Telling, TellTyped, TypeOK, FeedItem, Job
  <2> QED
    BY <2>2 DEF RegistryInv, Watching, Working, Resumable
<1> QED
  BY <1>1, AlwaysRegistryInv, PTL

\* The row of a package and the events that took effect say the same of every
\* version, but for those of which the code leaves something unsaid.
THEOREM RowsAgreeWithEvents == Spec => []RowsTold
<1>1. RegistryInv => RowsTold
  BY DEF RegistryInv, Telling
<1> QED
  BY <1>1, AlwaysRegistryInv, PTL
=============================================================================
