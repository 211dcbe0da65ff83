------------------------------ MODULE Analysis ------------------------------
(***************************************************************************)
(* The analysis service (apps/analysis): a consumer reads version events,  *)
(* passes over the ones it has seen, commits, and queues the rest for a    *)
(* pool of workers; a worker downloads and parses the package, caches its  *)
(* API snapshot on disk, compares it with the snapshot of the previous     *)
(* version and sends what it found to the output topic.                    *)
(***************************************************************************)
EXTENDS Integers, Sequences, FiniteSets, SequencesExt, FiniteSetTheorems,
        WellFoundedInduction, TLAPS

CONSTANTS
    Input,         \* the input topic, a sequence of messages
    Workers,
    None,
    QueueSize,     \* workers.queue_size
    CacheSize,     \* max_cache_size of the consumer
    KeepVersions,  \* parser.snapshot_versions_per_package
    MaxFiles,      \* parser.snapshot_total_max_bytes, in snapshots
    MaxRetries,    \* kafka.max_retries, when it is not 0
    MaxFaults      \* bound on failures, crashes, shutdowns and full queues

ASSUME AnalysisAssumption ==
    /\ Input \in Seq([kind : {"upsert", "skipped", "empty"},
                      pkg : STRING, ver : Nat, prev : Nat])
    /\ QueueSize \in Nat \ {0} /\ CacheSize \in Nat \ {0, 1}
    /\ KeepVersions \in Nat \ {0} /\ MaxFiles \in Nat \ {0}
    /\ MaxRetries \in Nat /\ MaxFaults \in Nat
    /\ IsFiniteSet(Workers) /\ None \notin Nat

VARIABLES
    mode,          \* the process: "up", "stopping" or "down"
    pos,           \* messages the consumer has received
    asked,         \* offset it last asked to commit, asynchronously
    known,         \* processed_ids
    consumer,      \* "polling" or "stopped"
    held,          \* the message it is sending to the queue
    queue,
    work,          \* what each worker does: message, stage, files to remove
    disk,          \* cached snapshots
    compared,      \* messages whose events say what changed since the previous version
    dlq,
    done,          \* messages a worker finished, or passed over as too big
    passed,        \* messages the consumer passed over
    lost,          \* messages committed, and dropped by the service
    starts,        \* times a version was given to a worker ...
    forgot,        \* ... and times the service forgot that it had it
    saved,         \* every snapshot written
    newer,         \* of each snapshot, those written after its last write
    raced,         \* snapshots written while a worker was about to remove them
    faults

log == <<pos, asked>>
polling == <<known, consumer, held>>
results == <<compared, dlq, done, passed, lost>>
counts == <<starts, forgot>>
cache == <<disk, saved, newer, raced>>
vars == <<mode, log, polling, queue, work, cache, results, counts, faults>>

Messages == DOMAIN Input

\* event_id: the package and the version.
IdOf(i) == <<Input[i].pkg, Input[i].ver>>
Ids == {IdOf(i) : i \in Messages}

Idle == [i |-> None, stage |-> "idle", victims |-> {}]
Stages == {"idle", "fetch", "prune", "compare"}

Init ==
    /\ mode = "up"
    /\ pos = 0 /\ asked = 0
    /\ known = {} /\ consumer = "polling" /\ held = None
    /\ queue = <<>>
    /\ work = [w \in Workers |-> Idle]
    /\ disk = {} /\ saved = {} /\ newer = [x \in Ids |-> {}] /\ raced = {}
    /\ compared = {} /\ dlq = {} /\ done = {} /\ passed = {} /\ lost = {}
    /\ starts = [x \in Ids |-> 0]
    /\ forgot = [x \in Ids |-> 0]
    /\ faults = 0

Fault == faults < MaxFaults /\ faults' = faults + 1

-----------------------------------------------------------------------------
(* The consumer.                                                           *)

\* A message without a payload is an error of the poll: nothing is committed.
ReceiveEmpty ==
    /\ Input[pos + 1].kind = "empty"
    /\ passed' = passed \cup {pos + 1}
    /\ UNCHANGED <<asked, known, consumer, held, lost, counts>>

\* Another event type, a payload that does not decode, a yanked version.
ReceiveSkipped ==
    /\ Input[pos + 1].kind = "skipped"
    /\ asked' = pos + 1
    /\ passed' = passed \cup {pos + 1}
    /\ UNCHANGED <<known, consumer, held, lost, counts>>

ReceiveDuplicate ==
    /\ Input[pos + 1].kind = "upsert" /\ IdOf(pos + 1) \in known
    /\ asked' = pos + 1
    /\ passed' = passed \cup {pos + 1}
    /\ UNCHANGED <<known, consumer, held, lost, counts>>

\* A full set forgets half of its members, in no order.
Evicted ==
    IF Cardinality(known) < CacheSize THEN {{}}
    ELSE {s \in SUBSET known : Cardinality(s) = CacheSize \div 2}

\* ReceiveNew as it would be if the version were not remembered.
ReceiveForgetful(refused) ==
    /\ Input[pos + 1].kind = "upsert" /\ IdOf(pos + 1) \notin known
    /\ IF refused THEN /\ lost' = lost \cup {pos + 1}
                       /\ UNCHANGED <<asked, held, starts>>
       ELSE /\ asked' = pos + 1
            /\ held' = pos + 1
            /\ starts' = [starts EXCEPT ![IdOf(pos + 1)] = @ + 1]
            /\ UNCHANGED lost
    /\ UNCHANGED <<passed, consumer, known, forgot>>

\* The version is remembered, then the offset committed; if the commit is
\* refused the event is not returned.
ReceiveNew(refused) ==
    LET x == IdOf(pos + 1)
    IN /\ Input[pos + 1].kind = "upsert" /\ x \notin known
       /\ \E s \in Evicted :
            /\ known' = (known \ s) \cup {x}
            /\ forgot' = [y \in Ids |-> forgot[y] + IF y \in s THEN 1 ELSE 0]
       /\ IF refused THEN /\ lost' = lost \cup {pos + 1}
                          /\ UNCHANGED <<asked, held, starts>>
          ELSE /\ asked' = pos + 1
               /\ held' = pos + 1
               /\ starts' = [starts EXCEPT ![x] = @ + 1]
               /\ UNCHANGED lost
       /\ UNCHANGED <<passed, consumer>>

\* Poll as it would be if the next message were received while one is being sent.
PollAhead ==
    /\ mode # "down" /\ consumer = "polling" /\ pos < Len(Input)
    /\ pos' = pos + 1
    /\ \/ ReceiveEmpty \/ ReceiveSkipped \/ ReceiveDuplicate \/ ReceiveNew(FALSE)
    /\ UNCHANGED <<mode, queue, work, cache, compared, dlq, done, faults>>

Poll ==
    /\ mode # "down" /\ consumer = "polling" /\ held = None /\ pos < Len(Input)
    /\ pos' = pos + 1
    /\ \/ ReceiveEmpty \/ ReceiveSkipped \/ ReceiveDuplicate \/ ReceiveNew(FALSE)
    /\ UNCHANGED <<mode, queue, work, cache, compared, dlq,
                   done, faults>>

CommitRefused ==
    /\ mode # "down" /\ consumer = "polling" /\ held = None /\ pos < Len(Input)
    /\ Fault
    /\ pos' = pos + 1
    /\ ReceiveNew(TRUE)
    /\ UNCHANGED <<mode, queue, work, cache, compared, dlq,
                   done>>

Enqueue ==
    /\ mode # "down" /\ held # None /\ Len(queue) < QueueSize
    /\ queue' = Append(queue, held)
    /\ held' = None
    /\ UNCHANGED <<mode, log, known, consumer, work, cache, results, counts, faults>>

\* The queue was full for 30 s: the item is dropped and the consumer sleeps.
\* While the workers run, only a failure keeps it full for so long.
QueueFull ==
    /\ mode # "down" /\ held # None /\ Len(queue) = QueueSize
    /\ IF mode = "up" THEN Fault ELSE UNCHANGED faults
    /\ lost' = lost \cup {held}
    /\ held' = None
    /\ UNCHANGED <<mode, log, known, consumer, queue, work, cache, compared, dlq, done, passed, counts>>

-----------------------------------------------------------------------------
(* The workers.                                                            *)

At(w, s) == mode # "down" /\ work[w].stage = s
Goto(w, s) == work' = [work EXCEPT ![w].stage = s]
PathOf(w) == IdOf(work[w].i)

Receive(w) ==
    /\ At(w, "idle") /\ queue # <<>>
    /\ work' = [work EXCEPT ![w] = [i |-> Head(queue), stage |-> "fetch", victims |-> {}]]
    /\ queue' = Tail(queue)
    /\ UNCHANGED <<mode, log, polling, cache, results, counts, faults>>

\* A package or a tarball over its limit is finished without events.
Oversized(w) ==
    /\ At(w, "fetch")
    /\ Fault
    /\ work' = [work EXCEPT ![w] = Idle]
    /\ done' = done \cup {work[w].i}
    /\ UNCHANGED <<mode, log, polling, queue, cache, compared, dlq,
                   passed, lost, counts>>

\* Every item is new (retry_count 0): a failure is written to the dead letters
\* only when kafka.max_retries is 0, and nothing retries otherwise.
AnalysisFails(w) ==
    /\ At(w, "fetch")
    /\ Fault
    /\ work' = [work EXCEPT ![w] = Idle]
    /\ \E retries \in {0, MaxRetries} :
       \/ /\ retries = 0
          /\ dlq' = dlq \cup {work[w].i}
          /\ UNCHANGED lost
       \/ /\ lost' = lost \cup {work[w].i}
          /\ UNCHANGED dlq
    /\ UNCHANGED <<mode, log, polling, queue, cache, compared, done,
                   passed, counts>>

Of(pkg) == {x \in Ids : x[1] = pkg}

\* Surplus as it would be with the files sorted the other way.
SurplusNewest(files, after, pkg) ==
    {x \in files \cap Of(pkg) :
        Cardinality({y \in files \cap Of(pkg) : x \in after[y]}) >= KeepVersions}

\* The files of the package but the newest KeepVersions; after[x] are those
\* with a later modification time than x.
Surplus(files, after, pkg) ==
    {x \in files \cap Of(pkg) :
        Cardinality(files \cap Of(pkg) \cap after[x]) >= KeepVersions}

\* The package is parsed, its snapshot written, and the files to remove listed.
SaveSnapshot(w) ==
    LET p == PathOf(w)
    IN /\ At(w, "fetch")
       /\ disk' = disk \cup {p}
       /\ saved' = saved \cup {p}
       /\ newer' = [x \in Ids |-> IF x = p THEN {} ELSE newer[x] \cup {p}]
       /\ raced' = IF \E v \in Workers : p \in work[v].victims
                   THEN raced \cup {p} ELSE raced \ {p}
       /\ work' = [work EXCEPT ![w].stage = "prune",
                               ![w].victims = Surplus(disk', newer', p[1])]
       /\ UNCHANGED <<mode, log, polling, queue, results, counts, faults>>

\* A snapshot over its limit is not written, a failed write is only logged.
SnapshotNotSaved(w) ==
    /\ At(w, "fetch")
    /\ Fault
    /\ work' = [work EXCEPT ![w].stage = "compare"]
    /\ UNCHANGED <<mode, log, polling, queue, cache, results, counts>>

\* The newest files of all packages, up to the limit.
Trim(files) == {x \in files : Cardinality(files \cap newer[x]) < MaxFiles}

\* The listed files go, then the oldest of all packages down to the limit.
Prune(w) ==
    /\ At(w, "prune")
    /\ disk' = Trim(disk \ work[w].victims)
    /\ work' = [work EXCEPT ![w].stage = "compare", ![w].victims = {}]
    /\ UNCHANGED <<mode, log, polling, queue, saved, newer, raced, results, counts,
                   faults>>

\* The snapshot of the previous version, if the event names one and it is there.
Previous(w) ==
    LET i == work[w].i
    IN Input[i].prev # 0 /\ <<Input[i].pkg, Input[i].prev>> \in disk

\* Embeddings and changes are sent when there are any, the parsed event always;
\* a send that fails is only logged.
Finish(w) ==
    /\ At(w, "compare")
    /\ \/ /\ compared' = IF Previous(w) THEN compared \cup {work[w].i} ELSE compared
          /\ UNCHANGED <<lost, faults>>
       \/ /\ Fault
          /\ lost' = lost \cup {work[w].i}
          /\ UNCHANGED compared
    /\ done' = done \cup {work[w].i}
    /\ work' = [work EXCEPT ![w] = Idle]
    /\ UNCHANGED <<mode, log, polling, queue, cache, dlq, passed, counts>>

-----------------------------------------------------------------------------
(* Shutdown, crash and restart.                                            *)

InService ==
    ToSet(queue) \cup (({held} \cup {work[w].i : w \in Workers}) \ {None})

Shutdown ==
    /\ mode = "up"
    /\ Fault
    /\ mode' = "stopping"
    /\ UNCHANGED <<log, polling, queue, work, cache, results, counts>>

\* StopConsumer as it would be if it waited for the workers to empty the queue.
StopConsumerDrained ==
    /\ mode = "stopping" /\ consumer = "polling" /\ held = None /\ queue = <<>>
    /\ consumer' = "stopped"
    /\ UNCHANGED <<mode, log, known, held, queue, work, cache, results, counts, faults>>

StopConsumer ==
    /\ mode = "stopping" /\ consumer = "polling" /\ held = None
    /\ consumer' = "stopped"
    /\ UNCHANGED <<mode, log, known, held, queue, work, cache, results, counts, faults>>

\* A worker that is idle stops, whatever the queue still holds.
StopWorker(w) ==
    /\ mode = "stopping" /\ work[w].stage = "idle"
    /\ work' = [work EXCEPT ![w].stage = "stopped"]
    /\ UNCHANGED <<mode, log, polling, queue, cache, results, counts, faults>>

\* The memory of the process is gone, the messages it committed with it.
Halt(offset) ==
    /\ mode' = "down"
    /\ lost' = lost \cup {i \in InService : i <= offset}
    /\ forgot' = [x \in Ids |-> forgot[x] + IF x \in known THEN 1 ELSE 0]
    /\ known' = {} /\ consumer' = "polling" /\ held' = None /\ queue' = <<>>
    /\ work' = [w \in Workers |-> Idle]
    /\ pos' = offset /\ asked' = offset
    /\ UNCHANGED <<cache, compared, dlq, done, passed, starts>>

Stopped ==
    /\ mode = "stopping" /\ consumer = "stopped"
    /\ \A w \in Workers : work[w].stage = "stopped"
    /\ Halt(asked)
    /\ UNCHANGED faults

\* The commits are asynchronous (CommitMode::Async): the broker has any of the
\* offsets asked for.
Crash ==
    /\ mode # "down"
    /\ Fault
    /\ \E offset \in 0 .. asked : Halt(offset)

Restart ==
    /\ mode = "down"
    /\ mode' = "up"
    /\ UNCHANGED <<log, polling, queue, work, cache, results, counts, faults>>

-----------------------------------------------------------------------------
WorkerStep(w) ==
    Receive(w) \/ SaveSnapshot(w) \/ Prune(w) \/ Finish(w) \/ StopWorker(w)

WorkerFault(w) == Oversized(w) \/ AnalysisFails(w) \/ SnapshotNotSaved(w)

Next ==
    \/ Poll \/ CommitRefused \/ Enqueue \/ QueueFull
    \/ \E w \in Workers : WorkerStep(w) \/ WorkerFault(w)
    \/ Shutdown \/ StopConsumer \/ Stopped \/ Crash \/ Restart

Spec == Init /\ [][Next]_vars

\* The tasks of the runtime, the timer of the send, and the supervisor that restarts the process.
FairSpec ==
    /\ Spec
    /\ WF_vars(Poll) /\ WF_vars(Enqueue) /\ WF_vars(StopConsumer)
    /\ WF_vars(Stopped) /\ WF_vars(Restart)
    /\ WF_vars(mode = "stopping" /\ QueueFull)
    /\ \A w \in Workers : WF_vars(WorkerStep(w))

-----------------------------------------------------------------------------
(* Properties.                                                             *)

\* The variables have their types, and the queue its bound (those of the cache
\* are in CacheKept).
TypeOK ==
    /\ mode \in {"up", "stopping", "down"}
    /\ asked \in 0 .. pos /\ pos \in 0 .. Len(Input)
    /\ known \subseteq Ids /\ Cardinality(known) <= CacheSize
    /\ consumer \in {"polling", "stopped"} /\ held \in Messages \cup {None}
    /\ queue \in Seq(Messages) /\ Len(queue) <= QueueSize
    /\ \A w \in Workers : /\ work[w].i \in Messages \cup {None}
                          /\ work[w].stage \in Stages \cup {"stopped"}
    /\ compared \cup dlq \cup done \cup passed \cup lost \subseteq Messages
    /\ starts \in [Ids -> Nat] /\ forgot \in [Ids -> Nat]
    /\ faults \in 0 .. MaxFaults

\* Every message received is passed over, in the service, finished, a dead
\* letter, or one of those the service is known to drop (consumer.rs, main.rs:
\* refused commit, full queue, failed analysis, restart); and a message passed
\* over as a duplicate has a first copy of which the same holds.
Accounted ==
    \A i \in 1 .. pos :
        /\ i \in passed \cup InService \cup done \cup dlq \cup lost
        /\ i \in passed /\ Input[i].kind = "upsert" =>
              \E j \in InService \cup done \cup dlq \cup lost : IdOf(j) = IdOf(i)

\* The types, and the account of the messages.
Inv == TypeOK /\ Accounted

\* A version is given to the workers once, and once more each time that the
\* service forgot it (consumer.rs: processed_ids, evicted or lost in a restart).
AnalysedOnce == \A x \in Ids : starts[x] <= 1 + forgot[x]

\* The newest snapshots of a package stay on disk: one that is gone has
\* KeepVersions newer ones, or the cache had MaxFiles newer ones, or it was
\* written again while a worker was removing it (main.rs: prune_*).
NewestKept ==
    \A x \in saved \ disk :
        \/ x \in raced
        \/ Cardinality(newer[x]) >= MaxFiles
        \/ Cardinality(newer[x] \cap Of(x[1])) >= KeepVersions

\* The cache exceeds its limit by one snapshot for each worker that is still to
\* prune, or that a crash kept from it (main.rs: save_snapshot).
CacheBounded ==
    Cardinality(disk) <= MaxFiles + Cardinality({w \in Workers : work[w].stage = "prune"})
                          + faults * Cardinality(Workers)

\* The snapshots on disk, and those about to be removed, are of versions read.
CacheTyped ==
    /\ disk \subseteq saved /\ saved \cup raced \subseteq Ids
    /\ newer \in [Ids -> SUBSET saved]
    /\ \A w \in Workers : work[w].victims \subseteq Ids

\* What the cache holds, and how much of it.
CacheKept == CacheTyped /\ NewestKept /\ CacheBounded

\* Every message is in the end passed over, finished, a dead letter or dropped,
\* whatever shuts down, crashes or fails.
Settled == <>(Messages \subseteq passed \cup done \cup dlq \cup lost)

-----------------------------------------------------------------------------
(* Proof: for any input, workers, sizes and failures.                      *)

\* AnalysedOnce made inductive: a version that the service has in mind was
\* given to the workers at most once more often than it was forgotten, any
\* other one at most as often.
StartsOwed ==
    /\ pos \in Nat /\ asked \in Nat
    /\ starts \in [Ids -> Nat] /\ forgot \in [Ids -> Nat] /\ known \subseteq Ids
    /\ \A x \in Ids : starts[x] <= forgot[x] + IF x \in known THEN 1 ELSE 0

\* What the consumer receives is remembered before it is queued, and counted
\* when it is evicted.
LEMMA PollKeepsOwed ==
    ASSUME StartsOwed, Poll \/ CommitRefused
    PROVE  StartsOwed'
<1>1. pos + 1 \in DOMAIN Input /\ pos' = pos + 1 /\ pos + 1 \in Nat
  <2>1. Len(Input) \in Nat /\ DOMAIN Input = 1 .. Len(Input)
    BY AnalysisAssumption DEF AnalysisAssumption
  <2>2. pos < Len(Input) /\ pos' = pos + 1
    BY DEF Poll, CommitRefused
  <2> QED
    BY <2>1, <2>2 DEF StartsOwed
<1>2. asked' \in Nat
  BY <1>1 DEF Poll, CommitRefused, ReceiveEmpty, ReceiveSkipped, ReceiveDuplicate,
              ReceiveNew, StartsOwed
<1>3. CASE known' = known /\ starts' = starts /\ forgot' = forgot
  BY <1>1, <1>2, <1>3 DEF StartsOwed
<1>4. CASE \E refused \in BOOLEAN : ReceiveNew(refused)
  <2> DEFINE x == IdOf(pos + 1)
  <2>1. x \in Ids /\ x \notin known
    BY <1>1, <1>4 DEF Ids, Messages, ReceiveNew
  <2>2. /\ \E s \in Evicted :
              /\ known' = (known \ s) \cup {x}
              /\ forgot' = [y \in Ids |-> forgot[y] + IF y \in s THEN 1 ELSE 0]
        /\ starts' = starts \/ starts' = [starts EXCEPT ![x] = @ + 1]
    BY <1>4, Zenon DEF ReceiveNew
  <2>3. Evicted \subseteq SUBSET known
    BY DEF Evicted
  <2> HIDE DEF x
  <2>4. PICK s \in SUBSET known :
              /\ known' = (known \ s) \cup {x}
              /\ forgot' = [y \in Ids |-> forgot[y] + IF y \in s THEN 1 ELSE 0]
    BY <2>2, <2>3
  <2>5. /\ starts' \in [Ids -> Nat] /\ forgot' \in [Ids -> Nat] /\ known' \subseteq Ids
    BY <2>1, <2>2, <2>4 DEF StartsOwed
  <2>6. ASSUME NEW y \in Ids
        PROVE  starts'[y] <= forgot'[y] + IF y \in known' THEN 1 ELSE 0
    BY <2>1, <2>2, <2>4 DEF StartsOwed
  <2> QED
    BY <1>1, <1>2, <2>5, <2>6 DEF StartsOwed
<1>5. \/ known' = known /\ starts' = starts /\ forgot' = forgot
      \/ \E refused \in BOOLEAN : ReceiveNew(refused)
  BY DEF Poll, CommitRefused, ReceiveEmpty, ReceiveSkipped, ReceiveDuplicate, counts
<1> QED
  BY <1>3, <1>4, <1>5

\* The end of a process forgets whatever it had in mind.
LEMMA HaltKeepsOwed ==
    ASSUME StartsOwed, Stopped \/ Crash
    PROVE  StartsOwed'
<1>1. PICK offset \in Nat : Halt(offset)
  BY DEF Stopped, Crash, StartsOwed
<1>2. /\ pos' = offset /\ asked' = offset /\ starts' = starts /\ known' = {}
      /\ forgot' = [x \in Ids |-> forgot[x] + IF x \in known THEN 1 ELSE 0]
  BY <1>1 DEF Halt
<1> QED
  BY <1>2 DEF StartsOwed

\* NO VERSION IS ANALYSED TWICE unless the service forgot it: the duplicates
\* that the topic, the offsets and the restarts bring are passed over.
THEOREM StartedOnce == Spec => []AnalysedOnce
<1>1. Init => StartsOwed
  BY DEF Init, StartsOwed
<1>2. StartsOwed => AnalysedOnce
  BY DEF StartsOwed, AnalysedOnce
<1>3. ASSUME StartsOwed, [Next]_vars PROVE StartsOwed'
  <2>1. \/ Poll \/ CommitRefused \/ Stopped \/ Crash
        \/ pos' = pos /\ asked' = asked /\ known' = known /\ counts' = counts
    BY <1>3 DEF Next, Enqueue, QueueFull, WorkerStep, WorkerFault, Receive, Oversized,
                AnalysisFails, SaveSnapshot, SnapshotNotSaved, Prune, Finish, Shutdown,
                StopConsumer, StopWorker, Restart, vars, log, polling
  <2>2. CASE pos' = pos /\ asked' = asked /\ known' = known /\ counts' = counts
    BY <1>3, <2>2 DEF StartsOwed, counts
  <2> QED
    BY <1>3, <2>1, <2>2, PollKeepsOwed, HaltKeepsOwed
<1> QED
  BY <1>1, <1>2, <1>3, PTL DEF Spec

-----------------------------------------------------------------------------
(* Proof: the fates of messages.                                           *)

Gone == done \cup dlq \cup lost

\* A worker has a message exactly when it is at work on one.
WorkerOK(r) ==
    /\ r \in [i : Messages \cup {None}, stage : Stages \cup {"stopped"}, victims : {r.victims}]
    /\ r.stage \in {"idle", "stopped"} <=> r.i = None

\* The types, which make Inv inductive with Traced.
Shape ==
    /\ mode \in {"up", "stopping", "down"}
    /\ pos \in 0 .. Len(Input) /\ asked \in 0 .. pos
    /\ known \subseteq Ids /\ IsFiniteSet(known) /\ Cardinality(known) <= CacheSize
    /\ consumer \in {"polling", "stopped"} /\ held \in Messages \cup {None}
    /\ queue \in Seq(Messages) /\ Len(queue) <= QueueSize
    /\ DOMAIN work = Workers /\ \A w \in Workers : WorkerOK(work[w])
    /\ compared \cup passed \cup Gone \subseteq Messages
    /\ starts \in [Ids -> Nat] /\ forgot \in [Ids -> Nat]
    /\ faults \in 0 .. MaxFaults

\* Accounted made inductive: the service holds what it has received and no more;
\* the first copy of a duplicate, if it is still in the service, was received
\* before it, so that an offset that keeps the one keeps the other; and of every
\* version in mind there is such a copy.
Traced ==
    /\ InService \subseteq 1 .. pos
    /\ 1 .. pos \subseteq passed \cup InService \cup Gone
    /\ \A i \in 1 .. pos : i \in passed /\ Input[i].kind = "upsert" =>
          \E j \in Gone \cup (InService \cap 1 .. i) : IdOf(j) = IdOf(i)
    /\ \A x \in known : \E j \in Gone \cup InService : IdOf(j) = x

\* The numbers of messages.
LEMMA MessageNumbers ==
    /\ Len(Input) \in Nat /\ Messages = 1 .. Len(Input)
    /\ None \notin Messages /\ None \notin Nat
    /\ QueueSize \in Nat /\ CacheSize \in Nat /\ CacheSize > 1 /\ MaxFaults \in Nat
  BY AnalysisAssumption DEF AnalysisAssumption, Messages

\* What is in the service: the queue, the message being sent, the workers'.
LEMMA ServiceOf ==
    ASSUME NEW x
    PROVE  x \in InService <=> \/ x \in ToSet(queue)
                               \/ x # None /\ x = held
                               \/ x # None /\ \E w \in Workers : work[w].i = x
  BY DEF InService

\* Messages that move within the service, or leave it for a known fate, leave
\* no trace unaccounted for.
LEMMA MovesKeepTraced ==
    ASSUME Shape, Traced, pos' = pos, passed' = passed, known' = known,
           InService' \subseteq InService, Gone \subseteq Gone',
           InService \subseteq InService' \cup Gone'
    PROVE  Traced'
<1>1. InService' \subseteq 1 .. pos'
  BY DEF Traced
<1>2. 1 .. pos' \subseteq passed' \cup InService' \cup Gone'
  BY DEF Traced
<1>3. ASSUME NEW i \in 1 .. pos, i \in passed, Input[i].kind = "upsert"
      PROVE  \E j \in Gone' \cup (InService' \cap 1 .. i) : IdOf(j) = IdOf(i)
  <2>1. PICK j \in Gone \cup (InService \cap 1 .. i) : IdOf(j) = IdOf(i)
    BY <1>3 DEF Traced
  <2>2. j \in Gone' \cup (InService' \cap 1 .. i)
    BY <2>1
  <2> QED
    BY <2>1, <2>2
<1>4. ASSUME NEW x \in known
      PROVE  \E j \in Gone' \cup InService' : IdOf(j) = x
  <2>1. PICK j \in Gone \cup InService : IdOf(j) = x
    BY <1>4 DEF Traced
  <2> QED
    BY <2>1
<1> QED
  BY <1>1, <1>2, <1>3, <1>4 DEF Traced, IdOf

\* What a worker does to itself: its message stays, or is taken or given up.
LEMMA WorkerMoves ==
    ASSUME Shape, NEW w \in Workers, WorkerStep(w) \/ WorkerFault(w)
    PROVE  /\ DOMAIN work' = Workers /\ \A v \in Workers \ {w} : work'[v] = work[v]
           /\ WorkerOK(work'[w])
<1>1. /\ DOMAIN work = Workers /\ WorkerOK(work[w])
      /\ work[w] \in [i : Messages \cup {None}, stage : Stages \cup {"stopped"},
                      victims : {work[w].victims}]
  BY DEF Shape, WorkerOK
<1>2. None \notin Messages
  BY MessageNumbers
<1>3. CASE Receive(w)
  <2>1. Head(queue) \in Messages
    BY <1>3 DEF Receive, Shape
  <2>2. work' = [work EXCEPT ![w] = [i |-> Head(queue), stage |-> "fetch", victims |-> {}]]
    BY <1>3 DEF Receive
  <2> QED
    BY <1>1, <1>2, <2>1, <2>2 DEF WorkerOK, Stages
<1>4. CASE Oversized(w) \/ AnalysisFails(w) \/ Finish(w)
  <2>1. work' = [work EXCEPT ![w] = Idle]
    BY <1>4 DEF Oversized, AnalysisFails, Finish
  <2> QED
    BY <1>1, <2>1 DEF WorkerOK, Idle, Stages
<1>5. CASE SaveSnapshot(w)
  <2>1. PICK s : /\ work[w].stage = "fetch"
                 /\ work' = [work EXCEPT ![w] = [@ EXCEPT !.stage = "prune", !.victims = s]]
    BY <1>5 DEF SaveSnapshot, At
  <2> QED
    BY <1>1, <2>1 DEF WorkerOK, Stages
<1>6. CASE SnapshotNotSaved(w)
  BY <1>1, <1>6 DEF SnapshotNotSaved, At, WorkerOK, Stages
<1>7. CASE Prune(w)
  BY <1>1, <1>7 DEF Prune, At, WorkerOK, Stages
<1>8. CASE StopWorker(w)
  BY <1>1, <1>8 DEF StopWorker, WorkerOK, Stages
<1> QED
  BY <1>3, <1>4, <1>5, <1>6, <1>7, <1>8 DEF WorkerStep, WorkerFault

\* The elements of a queue with one more message, and of one without its first.
LEMMA QueueElements ==
    ASSUME NEW s \in Seq(Messages)
    PROVE  /\ \A x \in Messages : ToSet(Append(s, x)) = ToSet(s) \cup {x}
           /\ s # <<>> => ToSet(s) = {Head(s)} \cup ToSet(Tail(s))
<1>1. ASSUME NEW x \in Messages PROVE ToSet(Append(s, x)) = ToSet(s) \cup {x}
  <2>1. ASSUME NEW y \in ToSet(Append(s, x)) PROVE y \in ToSet(s) \cup {x}
    <3>1. PICK k \in 1 .. Len(s) + 1 : y = Append(s, x)[k]
      BY <1>1, <2>1 DEF ToSet
    <3> QED
      BY <1>1, <3>1 DEF ToSet
  <2>2. ASSUME NEW y \in ToSet(s) PROVE y \in ToSet(Append(s, x))
    <3>1. PICK k \in 1 .. Len(s) : y = s[k]
      BY <2>2 DEF ToSet
    <3>2. y = Append(s, x)[k] /\ k \in DOMAIN Append(s, x)
      BY <1>1, <3>1
    <3> QED
      BY <3>2 DEF ToSet
  <2>3. x \in ToSet(Append(s, x))
    <3>1. x = Append(s, x)[Len(s) + 1] /\ Len(s) + 1 \in DOMAIN Append(s, x)
      BY <1>1
    <3> QED
      BY <3>1 DEF ToSet
  <2> QED
    BY <2>1, <2>2, <2>3
<1>2. ASSUME s # <<>> PROVE ToSet(s) = {Head(s)} \cup ToSet(Tail(s))
  <2>1. ASSUME NEW y \in ToSet(s) PROVE y \in {Head(s)} \cup ToSet(Tail(s))
    <3>1. PICK k \in 1 .. Len(s) : y = s[k]
      BY <2>1 DEF ToSet
    <3>2. CASE k = 1
      BY <3>1, <3>2
    <3>3. CASE k # 1
      <4>1. y = Tail(s)[k - 1] /\ k - 1 \in DOMAIN Tail(s)
        BY <1>2, <3>1, <3>3
      <4> QED
        BY <4>1 DEF ToSet
    <3> QED
      BY <3>2, <3>3
  <2>2. ASSUME NEW y \in ToSet(Tail(s)) PROVE y \in ToSet(s)
    <3>1. PICK k \in 1 .. Len(s) - 1 : y = Tail(s)[k]
      BY <1>2, <2>2 DEF ToSet
    <3>2. y = s[k + 1] /\ k + 1 \in DOMAIN s
      BY <1>2, <3>1
    <3> QED
      BY <3>2 DEF ToSet
  <2>3. Head(s) \in ToSet(s)
    <3>1. Head(s) = s[1] /\ 1 \in DOMAIN s
      BY <1>2
    <3> QED
      BY <3>1 DEF ToSet
  <2> QED
    BY <2>1, <2>2, <2>3
<1> QED
  BY <1>1, <1>2

\* A worker takes messages from the queue, and those it gives up have a fate.
LEMMA WorkerKeepsFates ==
    ASSUME Shape, Traced, NEW w \in Workers, WorkerStep(w) \/ WorkerFault(w)
    PROVE  Shape' /\ Traced'
<1>1. /\ mode' = mode /\ log' = log /\ polling' = polling /\ counts' = counts
      /\ passed' = passed
  BY Zenon DEF WorkerStep, WorkerFault, Receive, Oversized, AnalysisFails, SaveSnapshot,
               SnapshotNotSaved, Prune, Finish, StopWorker, results
<1>2. /\ pos' = pos /\ asked' = asked /\ known' = known /\ consumer' = consumer
      /\ held' = held /\ starts' = starts /\ forgot' = forgot
  BY <1>1 DEF log, polling, counts
<1>3. faults' \in 0 .. MaxFaults
  BY MessageNumbers
     DEF WorkerStep, WorkerFault, Receive, Oversized, AnalysisFails, SaveSnapshot,
         SnapshotNotSaved, Prune, Finish, StopWorker, Fault, Shape
<1>4. /\ DOMAIN work' = Workers /\ \A v \in Workers \ {w} : work'[v] = work[v]
      /\ WorkerOK(work'[w])
  BY WorkerMoves
<1>5. \A v \in Workers : WorkerOK(work'[v])
  BY <1>4 DEF Shape
<1>6. work[w].i \in Messages \cup {None} /\ (work[w].stage = "fetch" => work[w].i # None)
      /\ (work[w].stage = "compare" => work[w].i # None)
      /\ (work[w].stage = "idle" => work[w].i = None)
  BY DEF Shape, WorkerOK
<1>7. queue' \in Seq(Messages) /\ Len(queue') <= QueueSize
  <2>1. CASE Receive(w)
    <3>1. queue \in Seq(Messages) /\ queue # <<>> /\ Len(queue) <= QueueSize
          /\ queue' = Tail(queue)
      BY <2>1 DEF Receive, Shape
    <3> QED
      BY <3>1, MessageNumbers
  <2>2. CASE queue' = queue
    BY <2>2 DEF Shape
  <2> QED
    BY <2>1, <2>2 DEF WorkerStep, WorkerFault, Oversized, AnalysisFails, SaveSnapshot,
                      SnapshotNotSaved, Prune, Finish, StopWorker
<1>8. CASE Receive(w)
  <2>1. /\ results' = results /\ queue # <<>> /\ queue' = Tail(queue)
        /\ work[w].i = None
        /\ work' = [work EXCEPT ![w] = [i |-> Head(queue), stage |-> "fetch", victims |-> {}]]
    BY <1>6, <1>8 DEF Receive, At
  <2>2. compared' = compared /\ Gone' = Gone
    BY <2>1 DEF results, Gone
  <2>3. ToSet(queue) = {Head(queue)} \cup ToSet(queue') /\ Head(queue) \in Messages
    BY <2>1, QueueElements DEF Shape
  <2>4. work'[w].i = Head(queue)
    BY <2>1 DEF Shape
  <2>5. ASSUME NEW x PROVE x \in InService' <=> x \in InService
    <3>1. x \in InService' <=> \/ x \in ToSet(queue')
                               \/ x # None /\ x = held
                               \/ x # None /\ \E v \in Workers : work'[v].i = x
      BY <1>2 DEF InService
    <3> QED
      BY <1>4, <2>1, <2>3, <2>4, <3>1, ServiceOf, MessageNumbers
  <2>6. Traced'
    BY <1>1, <1>2, <2>2, <2>5, MovesKeepTraced
  <2> QED
    BY <1>1, <1>2, <1>3, <1>4, <1>5, <1>7, <2>2, <2>6 DEF Shape
<1>9. CASE Oversized(w) \/ AnalysisFails(w) \/ Finish(w)
  <2>1. /\ work' = [work EXCEPT ![w] = Idle] /\ queue' = queue
        /\ Gone' = Gone \cup {work[w].i}
        /\ compared' = compared \/ compared' = compared \cup {work[w].i}
        /\ work[w].i # None
    BY <1>6, <1>9 DEF Oversized, AnalysisFails, Finish, Gone, At
  <2>2. work'[w].i = None
    BY <2>1 DEF Idle, Shape
  <2>3. ASSUME NEW x PROVE /\ x \in InService' => x \in InService
                           /\ x \in InService => x \in InService' \cup {work[w].i}
    <3>1. x \in InService' <=> \/ x \in ToSet(queue)
                               \/ x # None /\ x = held
                               \/ x # None /\ \E v \in Workers : work'[v].i = x
      BY <1>2, <2>1 DEF InService
    <3> QED
      BY <1>4, <2>2, <3>1, ServiceOf
  <2>4. Traced'
    BY <1>1, <1>2, <2>1, <2>3, MovesKeepTraced
  <2>5. compared' \cup passed' \cup Gone' \subseteq Messages
    BY <1>1, <1>6, <2>1 DEF Shape
  <2> QED
    BY <1>1, <1>2, <1>3, <1>4, <1>5, <1>7, <2>4, <2>5 DEF Shape
<1>10. CASE SaveSnapshot(w) \/ SnapshotNotSaved(w) \/ Prune(w) \/ StopWorker(w)
  <2>1. results' = results /\ queue' = queue
    BY <1>10 DEF SaveSnapshot, SnapshotNotSaved, Prune, StopWorker
  <2>2. work'[w].i = work[w].i
    <3>1. DOMAIN work = Workers
          /\ work[w] \in [i : Messages \cup {None}, stage : Stages \cup {"stopped"},
                          victims : {work[w].victims}]
      BY DEF Shape, WorkerOK
    <3>2. CASE SaveSnapshot(w)
      <4>1. PICK s : work' = [work EXCEPT ![w] = [@ EXCEPT !.stage = "prune", !.victims = s]]
        BY <3>2 DEF SaveSnapshot
      <4> QED
        BY <3>1, <4>1
    <3>3. CASE SnapshotNotSaved(w) \/ Prune(w) \/ StopWorker(w)
      BY <3>1, <3>3 DEF SnapshotNotSaved, Prune, StopWorker
    <3> QED
      BY <1>10, <3>2, <3>3
  <2>3. compared' = compared /\ Gone' = Gone
    BY <2>1 DEF results, Gone
  <2>4. InService' = InService
    <3>1. ASSUME NEW x
          PROVE  x \in InService' <=> x \in InService
      <4>1. x \in InService' <=> \/ x \in ToSet(queue)
                                 \/ x # None /\ x = held
                                 \/ x # None /\ \E v \in Workers : work'[v].i = x
        BY <1>2, <2>1 DEF InService
      <4> QED
        BY <1>4, <2>2, <4>1, ServiceOf
    <3> QED
      BY <3>1
  <2>5. Traced'
    BY <1>1, <1>2, <2>3, <2>4, MovesKeepTraced
  <2> QED
    BY <1>1, <1>2, <1>3, <1>4, <1>5, <1>7, <2>3, <2>5 DEF Shape
<1> QED
  BY <1>8, <1>9, <1>10 DEF WorkerStep, WorkerFault

\* A full set has room for one more once half of it is forgotten.
LEMMA EvictionMakesRoom ==
    ASSUME Shape, NEW s \in Evicted, NEW x \in Ids
    PROVE  /\ (known \ s) \cup {x} \subseteq Ids /\ IsFiniteSet((known \ s) \cup {x})
           /\ Cardinality((known \ s) \cup {x}) <= CacheSize
<1> DEFINE rest == known \ s
<1>1. /\ known \subseteq Ids /\ IsFiniteSet(known) /\ Cardinality(known) <= CacheSize
      /\ CacheSize \in Nat /\ CacheSize > 1
  BY MessageNumbers DEF Shape
<1>2. Cardinality(known) \in Nat
  BY <1>1, FS_CardinalityType
<1>3. IsFiniteSet(rest) /\ Cardinality(rest) \in Nat /\ Cardinality(rest) < CacheSize
  <2>1. CASE Cardinality(known) < CacheSize
    <3>1. rest = known
      BY <2>1 DEF Evicted
    <3> QED
      BY <1>1, <1>2, <2>1, <3>1
  <2>2. CASE ~(Cardinality(known) < CacheSize)
    <3>1. s \in SUBSET known /\ Cardinality(s) = CacheSize \div 2
      BY <2>2 DEF Evicted
    <3>2. /\ IsFiniteSet(rest)
          /\ Cardinality(rest) = Cardinality(known) - Cardinality(known \cap s)
      BY <1>1, FS_Difference
    <3>3. known \cap s = s
      BY <3>1
    <3>4. Cardinality(rest) \in Nat
      BY <3>2, FS_CardinalityType
    <3>5. CacheSize \div 2 \in Nat /\ CacheSize \div 2 > 0
      BY <1>1
    <3> QED
      BY <1>1, <1>2, <3>1, <3>2, <3>3, <3>4, <3>5
  <2> QED
    BY <2>1, <2>2
<1>4. /\ IsFiniteSet(rest \cup {x})
      /\ Cardinality(rest \cup {x}) = IF x \in rest THEN Cardinality(rest)
                                                     ELSE Cardinality(rest) + 1
  <2> HIDE DEF rest
  <2> QED
    BY <1>3, FS_AddElement
<1>5. Cardinality(rest \cup {x}) <= CacheSize
  <2> HIDE DEF rest
  <2> QED
    BY <1>1, <1>3, <1>4
<1> QED
  BY <1>1, <1>4, <1>5

\* The message received is passed over, as the duplicate of one in mind or of
\* no interest; or it is being sent; or its commit was refused.
LEMMA PollKeepsFates ==
    ASSUME Shape, Traced, Poll \/ CommitRefused
    PROVE  Shape' /\ Traced'
<1> DEFINE n == pos + 1
<1>1. /\ n \in Messages /\ n \in 1 .. n /\ pos' = n /\ pos' \in 0 .. Len(Input)
      /\ 1 .. n = (1 .. pos) \cup {n} /\ pos \in Nat /\ n \in Nat
  <2>1. pos \in 0 .. Len(Input) /\ pos < Len(Input) /\ pos' = pos + 1
    BY DEF Poll, CommitRefused, Shape
  <2> QED
    BY <2>1, MessageNumbers
<1>2. /\ mode' = mode /\ queue' = queue /\ work' = work /\ compared' = compared
      /\ dlq' = dlq /\ done' = done /\ held = None
  BY DEF Poll, CommitRefused
<1>3. faults' \in 0 .. MaxFaults
  <2>1. faults' = faults \/ (faults < MaxFaults /\ faults' = faults + 1)
    BY DEF Poll, CommitRefused, Fault
  <2> QED
    BY <2>1, MessageNumbers DEF Shape
<1>4. InService \subseteq 1 .. pos /\ IdOf(n) \in Ids
  BY <1>1 DEF Traced, Ids
<1>5. CASE ReceiveEmpty \/ ReceiveSkipped \/ ReceiveDuplicate
  <2>1. /\ passed' = passed \cup {n} /\ asked' \in {asked, n} /\ known' = known
        /\ consumer' = consumer /\ held' = held /\ lost' = lost /\ counts' = counts
    BY <1>5 DEF ReceiveEmpty, ReceiveSkipped, ReceiveDuplicate
  <2>2. InService' = InService /\ Gone' = Gone
    BY <1>2, <2>1 DEF InService, Gone
  <2>3. Input[n].kind = "upsert" => IdOf(n) \in known
    BY <1>5 DEF ReceiveEmpty, ReceiveSkipped, ReceiveDuplicate
  <2>4. Shape'
    <3>1. asked' \in 0 .. pos'
      BY <1>1, <2>1 DEF Shape
    <3>2. compared' \cup passed' \cup Gone' \subseteq Messages
      BY <1>1, <1>2, <2>1, <2>2 DEF Shape
    <3>3. starts' = starts /\ forgot' = forgot
      BY <2>1 DEF counts
    <3> QED
      BY <1>1, <1>2, <1>3, <2>1, <3>1, <3>2, <3>3 DEF Shape
  <2>5. ASSUME NEW i \in 1 .. n, i \in passed', Input[i].kind = "upsert"
        PROVE  \E j \in Gone \cup (InService \cap 1 .. i) : IdOf(j) = IdOf(i)
    <3>1. CASE i = n
      <4>1. PICK j \in Gone \cup InService : IdOf(j) = IdOf(n)
        BY <2>3, <2>5, <3>1 DEF Traced
      <4>2. j \in Gone \cup (InService \cap 1 .. i)
        BY <1>1, <1>4, <3>1, <4>1
      <4> QED
        BY <3>1, <4>1, <4>2
    <3>2. CASE i # n
      <4>1. i \in 1 .. pos /\ i \in passed
        BY <1>1, <2>1, <2>5, <3>2
      <4> QED
        BY <2>5, <4>1 DEF Traced
    <3> QED
      BY <3>1, <3>2
  <2>6. Traced'
    <3>1. InService' \subseteq 1 .. pos'
      BY <1>1, <1>4, <2>2
    <3>2. 1 .. pos' \subseteq passed' \cup InService' \cup Gone'
      BY <1>1, <2>1, <2>2 DEF Traced
    <3>3. \A x \in known' : \E j \in Gone' \cup InService' : IdOf(j) = x
      BY <2>1, <2>2 DEF Traced
    <3> QED
      BY <1>1, <2>2, <2>5, <3>1, <3>2, <3>3 DEF Traced, IdOf
  <2> QED
    BY <2>4, <2>6
<1>6. ASSUME NEW refused \in BOOLEAN, ReceiveNew(refused) PROVE Shape' /\ Traced'
  <2>1. PICK s \in Evicted : /\ known' = (known \ s) \cup {IdOf(n)}
                             /\ forgot' = [y \in Ids |-> forgot[y] + IF y \in s THEN 1 ELSE 0]
    BY <1>6 DEF ReceiveNew
  <2>2. /\ passed' = passed /\ consumer' = consumer
        /\ \/ /\ lost' = lost \cup {n} /\ asked' = asked /\ held' = held /\ starts' = starts
           \/ /\ asked' = n /\ held' = n /\ lost' = lost
              /\ starts' = [starts EXCEPT ![IdOf(n)] = @ + 1]
    BY <1>6 DEF ReceiveNew
  <2>3. /\ Gone' \subseteq Gone \cup {n} /\ Gone \subseteq Gone'
        /\ held' \in {None, n}
        /\ n \in Gone' \/ held' = n
    BY <1>2, <2>2 DEF Gone
  <2>4. n # None
    BY <1>1, MessageNumbers
  <2>5. /\ InService \subseteq InService' /\ InService' \subseteq InService \cup {n}
        /\ n \in Gone' \cup InService'
    <3>1. ASSUME NEW x PROVE x \in InService' <=> x \in InService \/ (x # None /\ x = held')
      <4>1. x \in InService' <=> \/ x \in ToSet(queue)
                                 \/ x # None /\ x = held'
                                 \/ x # None /\ \E w \in Workers : work[w].i = x
        BY <1>2 DEF InService
      <4>2. x \in InService <=> \/ x \in ToSet(queue)
                                \/ x # None /\ x = held
                                \/ x # None /\ \E w \in Workers : work[w].i = x
        BY ServiceOf
      <4> QED
        BY <1>2, <4>1, <4>2
    <3> QED
      BY <2>3, <2>4, <3>1
  <2>6. Shape'
    <3>1. asked' \in 0 .. pos'
      BY <1>1, <2>2 DEF Shape
    <3>2. compared' \cup passed' \cup Gone' \subseteq Messages
      BY <1>1, <1>2, <2>2, <2>3 DEF Shape
    <3>3. known' \subseteq Ids /\ IsFiniteSet(known') /\ Cardinality(known') <= CacheSize
      BY <1>4, <2>1, EvictionMakesRoom
    <3>4. starts' \in [Ids -> Nat] /\ forgot' \in [Ids -> Nat]
      BY <1>4, <2>1, <2>2 DEF Shape
    <3>5. held' \in Messages \cup {None}
      BY <1>1, <2>3
    <3> QED
      BY <1>1, <1>2, <1>3, <2>2, <3>1, <3>2, <3>3, <3>4, <3>5 DEF Shape
  <2>7. Traced'
    <3>1. InService' \subseteq 1 .. pos'
      BY <1>1, <1>4, <2>5
    <3>2. 1 .. pos' \subseteq passed' \cup InService' \cup Gone'
      BY <1>1, <2>2, <2>3, <2>5 DEF Traced
    <3>3. ASSUME NEW i \in 1 .. n, i \in passed, Input[i].kind = "upsert"
          PROVE  \E j \in Gone' \cup (InService' \cap 1 .. i) : IdOf(j) = IdOf(i)
      <4>1. CASE i = n
        BY <1>1, <2>5, <4>1
      <4>2. CASE i # n
        <5>1. PICK j \in Gone \cup (InService \cap 1 .. i) : IdOf(j) = IdOf(i)
          BY <1>1, <3>3, <4>2 DEF Traced
        <5>2. j \in Gone' \cup (InService' \cap 1 .. i)
          BY <2>3, <2>5, <5>1
        <5> QED
          BY <5>1, <5>2
      <4> QED
        BY <4>1, <4>2
    <3>4. ASSUME NEW x \in known' PROVE \E j \in Gone' \cup InService' : IdOf(j) = x
      <4>1. CASE x = IdOf(n)
        BY <2>5, <4>1
      <4>2. CASE x # IdOf(n)
        <5>1. PICK j \in Gone \cup InService : IdOf(j) = x
          BY <2>1, <3>4, <4>2 DEF Traced
        <5> QED
          BY <2>3, <2>5, <5>1
      <4> QED
        BY <4>1, <4>2
    <3> QED
      BY <1>1, <2>2, <3>1, <3>2, <3>3, <3>4 DEF Traced, IdOf
  <2> QED
    BY <2>6, <2>7
<1> QED
  BY <1>5, <1>6 DEF Poll, CommitRefused

\* The message being sent is queued, or dropped when the queue stays full.
LEMMA SendKeepsFates ==
    ASSUME Shape, Traced, Enqueue \/ QueueFull
    PROVE  Shape' /\ Traced'
<1>1. /\ mode' = mode /\ log' = log /\ known' = known /\ consumer' = consumer
      /\ work' = work /\ compared' = compared /\ dlq' = dlq /\ done' = done
      /\ passed' = passed /\ counts' = counts /\ held # None /\ held' = None
  BY DEF Enqueue, QueueFull, results
<1>2. pos' = pos /\ asked' = asked /\ starts' = starts /\ forgot' = forgot
  BY <1>1 DEF log, counts
<1>3. held \in Messages /\ queue \in Seq(Messages) /\ Len(queue) <= QueueSize
  BY <1>1 DEF Shape
<1>4. faults' \in 0 .. MaxFaults
  <2>1. faults' = faults \/ (faults < MaxFaults /\ faults' = faults + 1)
    BY DEF Enqueue, QueueFull, Fault
  <2> QED
    BY <2>1, MessageNumbers DEF Shape
<1>5. \/ /\ queue' = Append(queue, held) /\ Len(queue) < QueueSize /\ lost' = lost
      \/ /\ queue' = queue /\ lost' = lost \cup {held}
  BY DEF Enqueue, QueueFull, results
<1>6. queue' \in Seq(Messages) /\ Len(queue') <= QueueSize
  BY <1>3, <1>5, MessageNumbers
<1>7. /\ Gone \subseteq Gone' /\ Gone' \subseteq Gone \cup {held}
      /\ \/ ToSet(queue') = ToSet(queue) \cup {held} /\ Gone' = Gone
         \/ ToSet(queue') = ToSet(queue) /\ held \in Gone'
  <2>1. ToSet(Append(queue, held)) = ToSet(queue) \cup {held}
    BY <1>3, QueueElements
  <2> QED
    BY <1>1, <1>5, <2>1 DEF Gone
<1>8. ASSUME NEW x PROVE /\ x \in InService' => x \in InService
                         /\ x \in InService => x \in InService' \cup Gone'
  <2>1. x \in InService' <=> \/ x \in ToSet(queue')
                             \/ x # None /\ x = held'
                             \/ x # None /\ \E w \in Workers : work[w].i = x
    BY <1>1 DEF InService
  <2> QED
    BY <1>1, <1>7, <2>1, ServiceOf
<1>9. Shape'
  <2>1. compared' \cup passed' \cup Gone' \subseteq Messages
    BY <1>1, <1>3, <1>7 DEF Shape
  <2> QED
    BY <1>1, <1>2, <1>4, <1>6, <2>1 DEF Shape
<1> QED
  BY <1>1, <1>2, <1>7, <1>8, <1>9, MovesKeepTraced

\* Shutting down and starting move no message.
LEMMA ModeKeepsFates ==
    ASSUME Shape, Traced, Shutdown \/ StopConsumer \/ Restart \/ UNCHANGED vars
    PROVE  Shape' /\ Traced'
<1>1. /\ log' = log /\ known' = known /\ held' = held /\ queue' = queue /\ work' = work
      /\ results' = results /\ counts' = counts
      /\ mode' \in {mode, "stopping", "up"} /\ consumer' \in {consumer, "stopped"}
  BY DEF Shutdown, StopConsumer, Restart, vars, polling
<1>2. /\ pos' = pos /\ asked' = asked /\ starts' = starts /\ forgot' = forgot
      /\ compared' = compared /\ passed' = passed /\ Gone' = Gone
  BY <1>1 DEF log, counts, results, Gone
<1>3. faults' \in 0 .. MaxFaults
  <2>1. faults' = faults \/ (faults < MaxFaults /\ faults' = faults + 1)
    BY DEF Shutdown, StopConsumer, Restart, Fault, vars
  <2> QED
    BY <2>1, MessageNumbers DEF Shape
<1>4. InService' = InService
  BY <1>1 DEF InService
<1>5. Shape'
  BY <1>1, <1>2, <1>3 DEF Shape
<1> QED
  BY <1>1, <1>2, <1>4, <1>5, MovesKeepTraced

\* A process that ends loses what it committed and had not finished; what it had
\* not committed is received again.
LEMMA HaltKeepsFates ==
    ASSUME Shape, Traced, Stopped \/ Crash
    PROVE  Shape' /\ Traced'
<1>1. PICK offset \in 0 .. asked : Halt(offset)
  BY DEF Stopped, Crash, Shape
<1>2. /\ mode' = "down" /\ lost' = lost \cup {i \in InService : i <= offset}
      /\ forgot' = [x \in Ids |-> forgot[x] + IF x \in known THEN 1 ELSE 0]
      /\ known' = {} /\ consumer' = "polling" /\ held' = None /\ queue' = <<>>
      /\ work' = [w \in Workers |-> Idle] /\ pos' = offset /\ asked' = offset
      /\ compared' = compared /\ dlq' = dlq /\ done' = done /\ passed' = passed
      /\ starts' = starts
  BY <1>1 DEF Halt
<1>3. faults' \in 0 .. MaxFaults
  <2>1. faults' = faults \/ (faults < MaxFaults /\ faults' = faults + 1)
    BY DEF Stopped, Crash, Fault
  <2> QED
    BY <2>1, MessageNumbers DEF Shape
<1>4. /\ offset \in Nat /\ offset <= pos /\ pos \in Nat /\ pos <= Len(Input)
      /\ 1 .. offset \subseteq 1 .. pos /\ offset \in 0 .. Len(Input)
  BY <1>1, MessageNumbers DEF Shape
<1>5. InService' = {}
  <2>1. \A w \in Workers : work'[w].i = None
    BY <1>2 DEF Idle
  <2>2. ToSet(queue') = {}
    BY <1>2 DEF ToSet
  <2> QED
    BY <1>2, <2>1, <2>2 DEF InService
<1>6. /\ Gone' = Gone \cup {i \in InService : i <= offset}
      /\ InService \subseteq 1 .. pos
  BY <1>2 DEF Gone, Traced
<1>7. Shape'
  <2>1. compared' \cup passed' \cup Gone' \subseteq Messages
    <3>1. 1 .. pos \subseteq Messages
      BY <1>4, MessageNumbers
    <3>2. compared' = compared /\ passed' = passed /\ compared \cup passed \cup Gone \subseteq Messages
      BY <1>2 DEF Shape
    <3> QED
      BY <1>6, <3>1, <3>2
  <2>2. known' \subseteq Ids /\ IsFiniteSet(known') /\ Cardinality(known') <= CacheSize
    BY <1>2, FS_EmptySet, MessageNumbers
  <2>3. queue' \in Seq(Messages) /\ Len(queue') <= QueueSize
    BY <1>2, MessageNumbers
  <2>4. DOMAIN work' = Workers /\ \A w \in Workers : WorkerOK(work'[w])
    BY <1>2 DEF WorkerOK, Idle, Stages
  <2>5. starts' \in [Ids -> Nat] /\ forgot' \in [Ids -> Nat]
    BY <1>2 DEF Shape
  <2>6. pos' \in 0 .. Len(Input) /\ asked' \in 0 .. pos'
    BY <1>2, <1>4
  <2> QED
    BY <1>2, <1>3, <2>1, <2>2, <2>3, <2>4, <2>5, <2>6 DEF Shape
<1>8. Traced'
  <2>1. 1 .. pos' \subseteq passed' \cup InService' \cup Gone'
    <3>1. ASSUME NEW i \in 1 .. offset PROVE i \in passed \cup Gone'
      <4>1. i \in 1 .. pos /\ i <= offset
        BY <1>4
      <4> QED
        BY <1>6, <4>1 DEF Traced
    <3> QED
      BY <1>2, <3>1
  <2>2. ASSUME NEW i \in 1 .. offset, i \in passed, Input[i].kind = "upsert"
        PROVE  \E j \in Gone' : IdOf(j) = IdOf(i)
    <3>1. i \in 1 .. pos /\ i <= offset /\ i \in Nat
      BY <1>4
    <3>2. PICK j \in Gone \cup (InService \cap 1 .. i) : IdOf(j) = IdOf(i)
      BY <2>2, <3>1 DEF Traced
    <3>3. j \in Gone'
      BY <1>4, <1>6, <3>1, <3>2
    <3> QED
      BY <3>2, <3>3
  <2> QED
    BY <1>2, <1>5, <2>1, <2>2 DEF Traced, IdOf
<1> QED
  BY <1>7, <1>8

LEMMA InitFates == Init => Shape /\ Traced
<1> SUFFICES ASSUME Init PROVE Shape /\ Traced
  OBVIOUS
<1>1. InService = {}
  BY DEF Init, InService, Idle, ToSet
<1>2. Traced
  BY <1>1 DEF Init, Traced
<1>3. Shape
  <2>1. IsFiniteSet(known) /\ Cardinality(known) <= CacheSize
    BY FS_EmptySet, MessageNumbers DEF Init
  <2>2. queue \in Seq(Messages) /\ Len(queue) <= QueueSize
    BY MessageNumbers DEF Init
  <2>3. DOMAIN work = Workers /\ \A w \in Workers : WorkerOK(work[w])
    BY DEF Init, WorkerOK, Idle, Stages
  <2>4. starts \in [Ids -> Nat] /\ forgot \in [Ids -> Nat]
    BY DEF Init
  <2>5. /\ pos \in 0 .. Len(Input) /\ asked \in 0 .. pos /\ faults \in 0 .. MaxFaults
        /\ mode = "up" /\ consumer = "polling" /\ held = None /\ known \subseteq Ids
        /\ compared \cup passed \cup Gone \subseteq Messages
    BY MessageNumbers DEF Init, Gone
  <2> QED
    BY <2>1, <2>2, <2>3, <2>4, <2>5 DEF Shape
<1> QED
  BY <1>2, <1>3

\* EVERY MESSAGE RECEIVED IS PASSED OVER, IN THE SERVICE, FINISHED, A DEAD LETTER
\* OR DROPPED FOR A KNOWN REASON, and a duplicate passed over has a first copy of
\* which that holds; whatever fails, shuts down, crashes or is evicted.
THEOREM FatesAreKnown == Spec => []Inv
<1>1. ASSUME Shape, Traced, [Next]_vars PROVE Shape' /\ Traced'
  BY <1>1, WorkerKeepsFates, PollKeepsFates, SendKeepsFates, ModeKeepsFates,
     HaltKeepsFates
     DEF Next
<1>2. ASSUME Shape, Traced PROVE Inv
  <2>1. TypeOK
    <3>1. \A w \in Workers : /\ work[w].i \in Messages \cup {None}
                             /\ work[w].stage \in Stages \cup {"stopped"}
      BY <1>2 DEF Shape, WorkerOK
    <3> QED
      BY <1>2, <3>1 DEF Shape, TypeOK, Gone
  <2>2. Accounted
    BY <1>2 DEF Traced, Accounted, Gone
  <2> QED
    BY <2>1, <2>2 DEF Inv
<1> QED
  BY <1>1, <1>2, InitFates, PTL DEF Spec

-----------------------------------------------------------------------------
(* Proof: the cache.                                                       *)

\* Of two snapshots written, one is newer; what is newer than a newer one is
\* newer.
Ordered ==
    /\ \A x \in Ids : x \notin newer[x] /\ \A y \in newer[x] : newer[y] \subseteq newer[x]
    /\ \A x, y \in saved : x = y \/ x \in newer[y] \/ y \in newer[x]

\* A file that a worker is about to remove has enough newer ones of its package,
\* or was written again since it was listed.
Doomed ==
    \A w \in Workers : \A x \in work[w].victims :
        x \in raced \/ Cardinality(newer[x] \cap Of(x[1])) >= KeepVersions

\* CacheKept made inductive.
CacheInv == CacheKept /\ Ordered /\ Doomed /\ IsFiniteSet(saved)

\* The numbers of snapshots.
LEMMA SizesOfCache ==
    ASSUME IsFiniteSet(saved), NEW S \in SUBSET saved
    PROVE  /\ IsFiniteSet(S) /\ Cardinality(S) \in Nat
           /\ \A T \in SUBSET S : Cardinality(T) <= Cardinality(S) /\ Cardinality(T) \in Nat
<1>1. IsFiniteSet(S) /\ Cardinality(S) \in Nat
  BY FS_Subset, FS_CardinalityType
<1>2. ASSUME NEW T \in SUBSET S
      PROVE  Cardinality(T) <= Cardinality(S) /\ Cardinality(T) \in Nat
  BY <1>1, FS_Subset, FS_CardinalityType
<1> QED
  BY <1>1, <1>2

\* Numbers have a smallest: the induction that the oldest snapshot rests on.
LEMMA SmallestNumber ==
    ASSUME NEW T \in SUBSET Nat, T # {}
    PROVE  \E m \in T : \A k \in T : m <= k
<1>1. PICK m \in T : \A k \in T : ~(<<k, m>> \in OpToRel(<, Nat))
  BY WFMin, NatLessThanWellFounded, Zenon
<1>2. \A k \in T : ~(k < m)
  BY <1>1, Zenon DEF OpToRel
<1> QED
  BY <1>2

\* The newest files are no more than the limit: all but the oldest of them are
\* newer than that one.
LEMMA TrimBound ==
    ASSUME CacheTyped, Ordered, IsFiniteSet(saved), NEW files \in SUBSET saved
    PROVE  Cardinality(Trim(files)) <= MaxFiles
<1> DEFINE kept == Trim(files)
           rank(x) == Cardinality(files \cap newer[x])
<1>1. MaxFiles \in Nat \ {0}
  BY AnalysisAssumption DEF AnalysisAssumption
<1>2. kept \subseteq files /\ \A x \in kept : rank(x) < MaxFiles
  BY DEF Trim
<1>3. \A x \in files : rank(x) \in Nat /\ IsFiniteSet(files \cap newer[x])
  <2> TAKE x \in files
  <2>1. files \cap newer[x] \in SUBSET saved
    OBVIOUS
  <2> QED
    BY <2>1, SizesOfCache
<1>4. CASE kept = {}
  BY <1>1, <1>4, FS_EmptySet
<1>5. CASE kept # {}
  <2> HIDE DEF rank, kept
  <2> DEFINE below == {MaxFiles - rank(x) : x \in kept}
  <2>1. below \in SUBSET Nat /\ below # {}
    <3>1. \A x \in kept : MaxFiles - rank(x) \in Nat
      <4> TAKE x \in kept
      <4>1. rank(x) \in Nat /\ rank(x) < MaxFiles
        BY <1>2, <1>3
      <4> QED
        BY <1>1, <4>1
    <3> QED
      BY <1>5, <3>1
  <2>2. PICK m \in below : \A k \in below : m <= k
    BY <2>1, SmallestNumber
  <2>3. PICK x \in kept : \A y \in kept : rank(y) <= rank(x)
    <3>1. PICK x \in kept : m = MaxFiles - rank(x)
      BY <2>2
    <3>2. \A y \in kept : MaxFiles - rank(x) <= MaxFiles - rank(y)
      BY <2>2, <3>1
    <3>3. \A y \in kept : rank(y) \in Nat
      BY <1>2, <1>3
    <3> QED
      BY <1>1, <3>1, <3>2, <3>3
  <2>4. ASSUME NEW y \in kept, y # x PROVE y \in newer[x]
    <3>1. x \in files /\ y \in files /\ x \in Ids /\ y \in Ids /\ x \in saved /\ y \in saved
      BY <1>2, <2>4 DEF CacheTyped
    <3>2. ASSUME x \in newer[y] PROVE FALSE
      <4>1. newer[x] \subseteq newer[y] /\ x \notin newer[x]
        BY <3>1, <3>2 DEF Ordered
      <4> DEFINE S == files \cap newer[x]
      <4>2. IsFiniteSet(S) /\ x \notin S
        BY <1>3, <3>1, <4>1
      <4>3. Cardinality(S \cup {x}) = rank(x) + 1
        <5> HIDE DEF S
        <5>1. Cardinality(S \cup {x}) = Cardinality(S) + 1
          BY <4>2, FS_AddElement
        <5> QED
          BY <5>1 DEF S, rank
      <4>4. Cardinality(S \cup {x}) <= rank(y)
        <5>1. S \cup {x} \subseteq files \cap newer[y] /\ files \cap newer[y] \subseteq saved
          BY <3>1, <3>2, <4>1
        <5> QED
          BY <5>1, SizesOfCache DEF rank
      <4>5. rank(y) <= rank(x) /\ rank(x) \in Nat /\ rank(y) \in Nat
        BY <1>3, <2>3, <3>1
      <4> QED
        BY <4>3, <4>4, <4>5
    <3> QED
      BY <2>4, <3>1, <3>2 DEF Ordered
  <2>5. x \in files /\ rank(x) < MaxFiles /\ rank(x) \in Nat
    BY <1>2, <1>3
  <2> DEFINE S == files \cap newer[x]
  <2>6. kept \subseteq S \cup {x} /\ S \cup {x} \subseteq saved
    BY <1>2, <2>4
  <2>7. Cardinality(S \cup {x}) <= rank(x) + 1
    <3>1. IsFiniteSet(S) /\ Cardinality(S) = rank(x)
      BY <1>3, <2>5 DEF rank
    <3> HIDE DEF S
    <3>2. Cardinality(S \cup {x}) = rank(x) \/ Cardinality(S \cup {x}) = rank(x) + 1
      BY <3>1, FS_AddElement
    <3> QED
      BY <2>5, <3>2
  <2>8. /\ Cardinality(kept) <= Cardinality(S \cup {x})
        /\ Cardinality(kept) \in Nat /\ Cardinality(S \cup {x}) \in Nat
    <3> HIDE DEF S
    <3>1. S \cup {x} \in SUBSET saved
      BY <2>6
    <3> QED
      BY <2>6, <3>1, SizesOfCache
  <2>9. Cardinality(kept) <= MaxFiles
    BY <1>1, <2>5, <2>7, <2>8
  <2> QED
    BY <2>9 DEF kept
<1> QED
  BY <1>4, <1>5

\* Who is to prune.
Pruning == {w \in Workers : work[w].stage = "prune"}

LEMMA PruningNumber ==
    /\ IsFiniteSet(Workers) /\ Cardinality(Workers) \in Nat
    /\ IsFiniteSet(Pruning) /\ Cardinality(Pruning) \in Nat
    /\ Cardinality(Pruning) <= Cardinality(Workers)
    /\ MaxFiles \in Nat \ {0} /\ KeepVersions \in Nat \ {0}
<1>1. IsFiniteSet(Workers) /\ MaxFiles \in Nat \ {0} /\ KeepVersions \in Nat \ {0}
  BY AnalysisAssumption DEF AnalysisAssumption
<1>2. Pruning \in SUBSET Workers
  BY DEF Pruning
<1> QED
  BY <1>1, <1>2, FS_Subset, FS_CardinalityType

\* A step that leaves the cache alone: those that are to prune still are, or a
\* crash stops them.
LEMMA OthersKeepCache ==
    ASSUME CacheInv, faults \in Nat, UNCHANGED cache,
           \A w \in Workers : work'[w].victims \subseteq work[w].victims,
           (Pruning' = Pruning /\ faults' = faults) \/ faults' = faults + 1,
           Pruning' \subseteq Pruning
    PROVE  CacheInv'
<1>1. UNCHANGED <<disk, saved, newer, raced>>
  BY DEF cache
<1>2. CacheTyped' /\ NewestKept' /\ Ordered' /\ Doomed' /\ IsFiniteSet(saved')
  BY <1>1 DEF CacheInv, CacheKept, CacheTyped, NewestKept, Ordered, Doomed, Of, Ids, IdOf
<1>3. CacheBounded'
  <2> DEFINE c == Cardinality(Workers)
             p == Cardinality(Pruning)
             q == Cardinality(Pruning')
             d == Cardinality(disk)
  <2>1. c \in Nat /\ p \in Nat /\ p <= c /\ MaxFiles \in Nat
    BY PruningNumber
  <2>2. q \in Nat
    BY PruningNumber, FS_Subset, FS_CardinalityType
  <2>3. d <= MaxFiles + p + faults * c
    BY DEF CacheInv, CacheKept, CacheBounded, Pruning
  <2>4. d \in Nat
    BY SizesOfCache DEF CacheInv, CacheKept, CacheTyped
  <2>5. (q = p /\ faults' = faults) \/ faults' = faults + 1
    OBVIOUS
  <2> HIDE DEF c, p, q, d
  <2>6. d <= MaxFiles + q + faults' * c
    <3>1. CASE q = p /\ faults' = faults
      BY <2>3, <3>1
    <3>2. CASE faults' = faults + 1
      <4>1. (faults + 1) * c = faults * c + c /\ faults * c \in Nat
        BY <2>1
      <4> QED
        BY <2>1, <2>2, <2>3, <2>4, <3>2, <4>1
    <3> QED
      BY <2>5, <3>1, <3>2
  <2> QED
    BY <1>1, <2>6 DEF c, q, d, CacheBounded, Pruning
<1> QED
  BY <1>2, <1>3 DEF CacheInv, CacheKept

\* A snapshot that is written is the newest; the others have one newer one more.
LEMMA SaveKeepsCache ==
    ASSUME Shape, CacheInv, NEW w \in Workers, SaveSnapshot(w)
    PROVE  CacheInv'
<1> DEFINE p == PathOf(w)
<1>1. /\ disk' = disk \cup {p} /\ saved' = saved \cup {p}
      /\ newer' = [x \in Ids |-> IF x = p THEN {} ELSE newer[x] \cup {p}]
      /\ raced' = IF \E v \in Workers : p \in work[v].victims
                  THEN raced \cup {p} ELSE raced \ {p}
      /\ work' = [work EXCEPT ![w].stage = "prune",
                              ![w].victims = Surplus(disk', newer', p[1])]
      /\ work[w].stage = "fetch" /\ faults' = faults
  BY DEF SaveSnapshot, At
<1>2. p \in Ids
  <2>1. WorkerOK(work[w])
    BY DEF Shape
  <2>2. work[w].i \in Messages
    BY <1>1, <2>1 DEF WorkerOK
  <2> QED
    BY <2>2 DEF PathOf, Ids
<1>3. DOMAIN work = Workers
  BY DEF Shape
<1> HIDE DEF p
<1>4. /\ CacheTyped /\ NewestKept /\ CacheBounded /\ Ordered /\ Doomed /\ IsFiniteSet(saved)
  BY DEF CacheInv, CacheKept
<1>5. IsFiniteSet(saved')
  BY <1>1, <1>4, FS_AddElement
<1>6. /\ \A v \in Workers \ {w} : work'[v] = work[v]
      /\ work'[w].victims = Surplus(disk', newer', p[1])
      /\ work'[w].stage = "prune"
  <2>1. work[w] \in [i : Messages \cup {None}, stage : Stages \cup {"stopped"},
                     victims : {work[w].victims}]
    BY DEF Shape, WorkerOK
  <2> QED
    BY <1>1, <1>3, <2>1
<1>7. \A x \in Ids : newer'[x] = IF x = p THEN {} ELSE newer[x] \cup {p}
  BY <1>1
<1>8. CacheTyped'
  <2>1. newer' \in [Ids -> SUBSET saved']
    BY <1>1, <1>4 DEF CacheTyped
  <2>2. Surplus(disk', newer', p[1]) \subseteq disk'
    BY DEF Surplus
  <2>3. disk' \subseteq saved' /\ saved' \cup raced' \subseteq Ids
    BY <1>1, <1>2, <1>4 DEF CacheTyped
  <2>4. \A v \in Workers : work'[v].victims \subseteq Ids
    BY <1>4, <1>6, <2>2, <2>3 DEF CacheTyped
  <2> QED
    BY <2>1, <2>3, <2>4 DEF CacheTyped, Ids, IdOf
<1>9. Ordered'
  <2>1. ASSUME NEW x \in Ids, NEW y \in newer'[x]
        PROVE  x # y /\ newer'[y] \subseteq newer'[x]
    <3>1. x # p /\ newer'[x] = newer[x] \cup {p}
      BY <1>7, <2>1
    <3>2. CASE y = p
      BY <1>2, <1>7, <3>1, <3>2
    <3>3. CASE y # p
      <4>1. y \in newer[x] /\ y \in Ids
        BY <1>4, <2>1, <3>1, <3>3 DEF CacheTyped
      <4>2. y # x /\ newer[y] \subseteq newer[x]
        BY <1>4, <4>1 DEF Ordered
      <4> QED
        BY <1>7, <3>1, <3>3, <4>1, <4>2
    <3> QED
      BY <3>2, <3>3
  <2>2. ASSUME NEW x \in saved', NEW y \in saved'
        PROVE  x = y \/ x \in newer'[y] \/ y \in newer'[x]
    <3>1. x \in Ids /\ y \in Ids
      BY <1>1, <1>2, <1>4, <2>2 DEF CacheTyped
    <3>2. CASE x = p \/ y = p
      BY <1>7, <3>1, <3>2
    <3>3. CASE x # p /\ y # p
      <4>1. x \in saved /\ y \in saved
        BY <1>1, <2>2, <3>3
      <4> QED
        BY <1>4, <1>7, <3>1, <3>3, <4>1 DEF Ordered
    <3> QED
      BY <3>2, <3>3
  <2>3. \A x \in Ids : x \notin newer'[x] /\ \A y \in newer'[x] : newer'[y] \subseteq newer'[x]
    BY <2>1
  <2> QED
    BY <2>2, <2>3 DEF Ordered, Ids, IdOf
\* What was newer than another snapshot still is.
<1>10. ASSUME NEW x \in Ids, x # p
       PROVE  /\ Cardinality(newer[x]) >= MaxFiles => Cardinality(newer'[x]) >= MaxFiles
              /\ Cardinality(newer[x] \cap Of(x[1])) >= KeepVersions =>
                    Cardinality(newer'[x] \cap Of(x[1])) >= KeepVersions
  <2>1. newer[x] \subseteq newer'[x] /\ newer'[x] \subseteq saved'
    BY <1>10, <1>7, <1>8 DEF CacheTyped
  <2>2. saved' \in SUBSET saved' /\ IsFiniteSet(saved')
    BY <1>5
  <2>3. \A S \in SUBSET saved' : /\ IsFiniteSet(S) /\ Cardinality(S) \in Nat
                                 /\ \A T \in SUBSET S : Cardinality(T) <= Cardinality(S)
                                                        /\ Cardinality(T) \in Nat
    <3> TAKE S \in SUBSET saved'
    <3>1. IsFiniteSet(S) /\ Cardinality(S) \in Nat
      BY <1>5, FS_Subset, FS_CardinalityType
    <3>2. ASSUME NEW T \in SUBSET S
          PROVE  Cardinality(T) <= Cardinality(S) /\ Cardinality(T) \in Nat
      BY <3>1, FS_Subset, FS_CardinalityType
    <3> QED
      BY <3>1, <3>2
  <2>4. /\ Cardinality(newer[x]) <= Cardinality(newer'[x])
        /\ Cardinality(newer[x]) \in Nat /\ Cardinality(newer'[x]) \in Nat
    BY <2>1, <2>3
  <2>5. /\ Cardinality(newer[x] \cap Of(x[1])) <= Cardinality(newer'[x] \cap Of(x[1]))
        /\ Cardinality(newer[x] \cap Of(x[1])) \in Nat
        /\ Cardinality(newer'[x] \cap Of(x[1])) \in Nat
    <3>1. /\ newer[x] \cap Of(x[1]) \subseteq newer'[x] \cap Of(x[1])
          /\ newer'[x] \cap Of(x[1]) \subseteq saved'
      BY <2>1
    <3> QED
      BY <2>3, <3>1
  <2>6. MaxFiles \in Nat /\ KeepVersions \in Nat
    BY PruningNumber
  <2> QED
    BY <2>4, <2>5, <2>6
<1>11. NewestKept'
  <2>1. ASSUME NEW x \in saved' \ disk'
        PROVE  \/ x \in raced'
               \/ Cardinality(newer'[x]) >= MaxFiles
               \/ Cardinality(newer'[x] \cap Of(x[1])) >= KeepVersions
    <3>1. x # p /\ x \in saved \ disk /\ x \in Ids
      BY <1>1, <1>4, <2>1 DEF CacheTyped
    <3>2. x \in raced => x \in raced'
      BY <1>1, <3>1
    <3> QED
      BY <1>10, <1>4, <3>1, <3>2 DEF NewestKept
  <2> QED
    BY <2>1 DEF NewestKept, Of, Ids, IdOf
<1>12. Doomed'
  <2>1. ASSUME NEW v \in Workers, NEW x \in work'[v].victims
        PROVE  x \in raced' \/ Cardinality(newer'[x] \cap Of(x[1])) >= KeepVersions
    <3>1. x \in Ids
      BY <1>8, <2>1 DEF CacheTyped, Ids, IdOf
    <3>2. CASE v = w
      <4>1. /\ x[1] = p[1]
            /\ Cardinality(disk' \cap Of(p[1]) \cap newer'[x]) >= KeepVersions
        BY <1>6, <2>1, <3>2 DEF Surplus, Of
      <4> DEFINE S == newer'[x] \cap Of(x[1])
                 T == disk' \cap Of(p[1]) \cap newer'[x]
      <4>2. T \in SUBSET S /\ S \in SUBSET saved'
        BY <1>8, <3>1, <4>1 DEF CacheTyped, Ids, IdOf
      <4>3. Cardinality(T) <= Cardinality(S) /\ Cardinality(T) \in Nat /\ Cardinality(S) \in Nat
        <5> HIDE DEF S, T
        <5>1. IsFiniteSet(S)
          BY <1>5, <4>2, FS_Subset
        <5> QED
          BY <4>2, <5>1, FS_Subset, FS_CardinalityType
      <4>4. Cardinality(T) >= KeepVersions /\ KeepVersions \in Nat
        BY <4>1, PruningNumber
      <4> HIDE DEF S, T
      <4>5. Cardinality(S) >= KeepVersions
        BY <4>3, <4>4
      <4> QED
        BY <4>5 DEF S
    <3>3. CASE v # w
      <4>1. x \in work[v].victims
        BY <1>6, <2>1, <3>3
      <4>2. x \in raced \/ Cardinality(newer[x] \cap Of(x[1])) >= KeepVersions
        BY <1>4, <4>1 DEF Doomed
      <4>3. CASE x = p
        BY <1>1, <4>1, <4>3
      <4>4. CASE x # p
        <5>1. x \in raced => x \in raced'
          BY <1>1, <4>4
        <5> QED
          BY <1>10, <3>1, <4>2, <4>4, <5>1
      <4> QED
        BY <4>3, <4>4
    <3> QED
      BY <3>2, <3>3
  <2> QED
    BY <2>1 DEF Doomed, Of, Ids, IdOf
<1>13. CacheBounded'
  <2>1. Pruning' = Pruning \cup {w} /\ w \notin Pruning
    BY <1>1, <1>6 DEF Pruning
  <2>2. Cardinality(Pruning') = Cardinality(Pruning) + 1
    BY <2>1, PruningNumber, FS_AddElement
  <2>3. /\ Cardinality(disk') <= Cardinality(disk) + 1 /\ Cardinality(disk) \in Nat
        /\ Cardinality(disk') \in Nat
    <3>1. IsFiniteSet(disk)
      BY <1>4, SizesOfCache DEF CacheTyped
    <3>2. Cardinality(disk) \in Nat
      BY <3>1, FS_CardinalityType
    <3>3. Cardinality(disk \cup {p}) \in {Cardinality(disk), Cardinality(disk) + 1}
      BY <3>1, FS_AddElement
    <3> QED
      BY <1>1, <3>2, <3>3
  <2>4. Cardinality(disk) <= MaxFiles + Cardinality(Pruning) + faults * Cardinality(Workers)
    BY <1>4 DEF CacheBounded, Pruning
  <2>5. faults \in Nat /\ MaxFiles \in Nat
    BY PruningNumber DEF Shape
  <2> DEFINE k == faults * Cardinality(Workers)
  <2>6. k \in Nat
    BY <2>5, PruningNumber
  <2> HIDE DEF k
  <2>7. Cardinality(disk') <= MaxFiles + Cardinality(Pruning') + k
    BY <2>2, <2>3, <2>4, <2>5, <2>6, PruningNumber DEF k
  <2> QED
    BY <1>1, <2>7 DEF k, CacheBounded, Pruning
<1> QED
  BY <1>11, <1>12, <1>13, <1>5, <1>8, <1>9 DEF CacheInv, CacheKept

\* What a worker removes had enough newer snapshots when it was listed, or has
\* enough of them now.
LEMMA PruneKeepsCache ==
    ASSUME Shape, CacheInv, NEW w \in Workers, Prune(w)
    PROVE  CacheInv'
<1> DEFINE files == disk \ work[w].victims
<1>1. /\ disk' = Trim(files)
      /\ UNCHANGED <<saved, newer, raced, faults>>
      /\ work' = [work EXCEPT ![w].stage = "compare", ![w].victims = {}]
  BY DEF Prune
<1>2. /\ CacheTyped /\ NewestKept /\ Ordered /\ Doomed /\ IsFiniteSet(saved)
  BY DEF CacheInv, CacheKept
<1>3. files \subseteq disk /\ disk \subseteq saved /\ disk' \subseteq files
  BY <1>1, <1>2 DEF CacheTyped, Trim
<1>4. \A v \in Workers : work'[v].victims \subseteq work[v].victims
  <2>1. /\ DOMAIN work = Workers
        /\ work[w] \in [i : Messages \cup {None}, stage : Stages \cup {"stopped"},
                        victims : {work[w].victims}]
    BY DEF Shape, WorkerOK
  <2> QED
    BY <1>1, <2>1
<1>5. CacheTyped'
  <2>1. \A v \in Workers : work'[v].victims \subseteq Ids
    BY <1>2, <1>4 DEF CacheTyped
  <2> QED
    BY <1>1, <1>2, <1>3, <2>1 DEF CacheTyped, Ids, IdOf
<1>6. Ordered' /\ Doomed' /\ IsFiniteSet(saved')
  <2>1. Ordered' /\ IsFiniteSet(saved')
    BY <1>1, <1>2 DEF Ordered, Ids, IdOf
  <2>2. \A v \in Workers : \A x \in work'[v].victims :
          x \in raced \/ Cardinality(newer[x] \cap Of(x[1])) >= KeepVersions
    BY <1>2, <1>4 DEF Doomed
  <2> QED
    BY <1>1, <2>1, <2>2 DEF Doomed, Of, Ids, IdOf
<1>7. NewestKept'
  <2>1. ASSUME NEW x \in saved \ disk'
        PROVE  \/ x \in raced
               \/ Cardinality(newer[x]) >= MaxFiles
               \/ Cardinality(newer[x] \cap Of(x[1])) >= KeepVersions
    <3>1. CASE x \notin disk
      BY <1>2, <2>1, <3>1 DEF NewestKept
    <3>2. CASE x \in work[w].victims
      BY <1>2, <3>2 DEF Doomed
    <3>3. CASE x \in files
      <4>1. ~(Cardinality(files \cap newer[x]) < MaxFiles)
        BY <1>1, <2>1, <3>3 DEF Trim
      <4>2. x \in Ids /\ newer[x] \subseteq saved
        BY <1>2, <2>1 DEF CacheTyped
      <4>3. /\ Cardinality(files \cap newer[x]) <= Cardinality(newer[x])
            /\ Cardinality(files \cap newer[x]) \in Nat /\ Cardinality(newer[x]) \in Nat
        BY <1>2, <4>2, SizesOfCache
      <4>4. MaxFiles \in Nat
        BY PruningNumber
      <4> HIDE DEF files
      <4> QED
        BY <4>1, <4>3, <4>4
    <3> QED
      BY <2>1, <3>1, <3>2, <3>3
  <2> QED
    BY <1>1, <2>1 DEF NewestKept, Of, Ids, IdOf
<1>8. CacheBounded'
  <2>1. Cardinality(disk') <= MaxFiles
    <3>1. files \in SUBSET saved
      BY <1>3
    <3> HIDE DEF files
    <3> QED
      BY <1>1, <1>2, <3>1, TrimBound
  <2>2. Cardinality(disk') \in Nat
    BY <1>2, <1>3, SizesOfCache
  <2>3. Cardinality(Pruning') \in Nat
    <3>1. Pruning' \in SUBSET Workers
      BY DEF Pruning
    <3> QED
      BY <3>1, PruningNumber, FS_Subset, FS_CardinalityType
  <2>4. faults' * Cardinality(Workers) \in Nat /\ MaxFiles \in Nat
    <3>1. faults' \in Nat
      BY <1>1 DEF Shape
    <3> QED
      BY <3>1, PruningNumber
  <2> DEFINE k == faults' * Cardinality(Workers)
  <2> HIDE DEF k
  <2>5. Cardinality(disk') <= MaxFiles + Cardinality(Pruning') + k
    BY <2>1, <2>2, <2>3, <2>4 DEF k
  <2> QED
    BY <2>5 DEF k, CacheBounded, Pruning
<1> QED
  BY <1>5, <1>6, <1>7, <1>8 DEF CacheInv, CacheKept

\* The other steps.
LEMMA StepsKeepCache ==
    ASSUME Shape, CacheInv, [Next]_vars
    PROVE  CacheInv'
<1>f. faults \in Nat
  BY DEF Shape
<1>w. DOMAIN work = Workers /\ \A w \in Workers : WorkerOK(work[w])
  BY DEF Shape
<1>1. ASSUME NEW w \in Workers, SaveSnapshot(w) \/ Prune(w) PROVE CacheInv'
  BY <1>1, PruneKeepsCache, SaveKeepsCache
<1>2. ASSUME NEW w \in Workers, WorkerStep(w) \/ WorkerFault(w),
             ~SaveSnapshot(w), ~Prune(w)
      PROVE  CacheInv'
  <2>1. UNCHANGED cache /\ (faults' = faults \/ faults' = faults + 1)
    BY <1>2 DEF WorkerStep, WorkerFault, Receive, Oversized, AnalysisFails,
                SnapshotNotSaved, Finish, StopWorker, Fault
  <2>2. /\ \A v \in Workers \ {w} : work'[v] = work[v]
        /\ work'[w].victims \subseteq work[w].victims
        /\ work[w].stage # "prune" /\ work'[w].stage # "prune"
    <3>1. work[w] \in [i : Messages \cup {None}, stage : Stages \cup {"stopped"},
                       victims : {work[w].victims}]
      BY <1>w DEF WorkerOK
    <3>2. CASE Receive(w)
      BY <1>w, <3>1, <3>2 DEF Receive, At
    <3>3. CASE Oversized(w) \/ AnalysisFails(w) \/ Finish(w)
      <4>1. work' = [work EXCEPT ![w] = Idle] /\ work[w].stage \in {"fetch", "compare"}
        BY <3>3 DEF Oversized, AnalysisFails, Finish, At
      <4> QED
        BY <1>w, <4>1 DEF Idle
    <3>4. CASE SnapshotNotSaved(w)
      BY <1>w, <3>1, <3>4 DEF SnapshotNotSaved, At
    <3>5. CASE StopWorker(w)
      BY <1>w, <3>1, <3>5 DEF StopWorker
    <3> QED
      BY <1>2, <3>2, <3>3, <3>4, <3>5 DEF WorkerStep, WorkerFault
  <2>3. Pruning' = Pruning
    BY <2>2 DEF Pruning
  <2> QED
    BY <1>f, <2>1, <2>2, <2>3, OthersKeepCache
<1>3. CASE \/ Poll \/ CommitRefused \/ Enqueue \/ QueueFull
           \/ Shutdown \/ StopConsumer \/ Restart \/ UNCHANGED vars
  <2>1. /\ UNCHANGED <<cache, work>>
        /\ faults' = faults \/ faults' = faults + 1
    BY <1>3 DEF Poll, CommitRefused, Enqueue, QueueFull, Shutdown, StopConsumer, Restart,
                Fault, vars
  <2>2. Pruning' = Pruning
    BY <2>1 DEF Pruning
  <2> QED
    BY <1>f, <2>1, <2>2, OthersKeepCache
<1>4. CASE Stopped \/ Crash
  <2>1. UNCHANGED cache /\ work' = [w \in Workers |-> Idle]
    BY <1>4 DEF Stopped, Crash, Halt
  <2>2. Pruning' = {} /\ \A w \in Workers : work'[w].victims = {}
    BY <2>1 DEF Pruning, Idle
  <2>3. (Pruning = {} /\ faults' = faults) \/ faults' = faults + 1
    BY <1>4 DEF Stopped, Crash, Fault, Pruning
  <2> QED
    BY <1>f, <2>1, <2>2, <2>3, OthersKeepCache
<1> QED
  BY <1>1, <1>2, <1>3, <1>4 DEF Next

LEMMA InitCache == Init => CacheInv
<1> SUFFICES ASSUME Init PROVE CacheInv
  OBVIOUS
<1>1. /\ disk = {} /\ saved = {} /\ newer = [x \in Ids |-> {}] /\ raced = {} /\ faults = 0
      /\ work = [w \in Workers |-> Idle]
  BY DEF Init
<1>2. CacheTyped /\ NewestKept /\ Ordered /\ Doomed
  BY <1>1 DEF CacheTyped, NewestKept, Ordered, Doomed, Idle
<1>3. IsFiniteSet(saved) /\ Cardinality(disk) = 0
  BY <1>1, FS_EmptySet
<1>4. CacheBounded
  <2>1. faults * Cardinality(Workers) = 0
    BY <1>1, PruningNumber
  <2> QED
    BY <1>3, <2>1, PruningNumber DEF CacheBounded, Pruning
<1> QED
  BY <1>2, <1>3, <1>4 DEF CacheInv, CacheKept

\* THE NEWEST SNAPSHOTS STAY ON DISK, whichever workers write and prune at once
\* (main.rs: prune_package_snapshots and prune_snapshot_cache work on a list made
\* before), AND THE CACHE STAYS WITHIN ITS LIMIT but for the snapshots of those
\* that are still to prune.
THEOREM CacheIsKept == Spec => []CacheKept
<1>1. Init => Shape /\ Traced /\ CacheInv
  BY InitFates, InitCache
<1>2. ASSUME Shape, Traced, CacheInv, [Next]_vars PROVE Shape' /\ Traced' /\ CacheInv'
  BY <1>2, StepsKeepCache, WorkerKeepsFates, PollKeepsFates, SendKeepsFates, ModeKeepsFates,
     HaltKeepsFates
     DEF Next
<1>3. CacheInv => CacheKept
  BY DEF CacheInv
<1> QED
  BY <1>1, <1>2, <1>3, PTL DEF Spec
=============================================================================
