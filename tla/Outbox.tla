------------------------------- MODULE Outbox -------------------------------
(***************************************************************************)
(* The transactional outbox of apps/ingestion: the ingestion_outbox table  *)
(* (store/outbox.rs, migrations/..._add_outbox.sql) and the publisher loop *)
(* that empties it into Kafka (emit/outbox_publisher.rs), run by any       *)
(* number of workers (main.rs starts one per process, live or publish).    *)
(*                                                                         *)
(* Every SQL statement is one step, so that anything can happen between    *)
(* two statements of one worker.  Time is counted in minutes, as ages and  *)
(* countdowns: lockAge is NOW() - locked_at, retryIn is next_retry_at -    *)
(* NOW(), and a Tick moves them all.                                       *)
(***************************************************************************)
EXTENDS Integers, Sequences, FiniteSets

CONSTANTS
    Events,       \* event ids the ingestion workers may write
    Workers,      \* outbox publishers sharing the table
    BatchSize,    \* OutboxPublisherConfig.batch_size
    MaxAttempts,  \* OutboxPublisherConfig.max_attempts
    LockTimeout,  \* OutboxPublisherConfig.lock_timeout, in minutes
    FaultKinds,   \* the kinds of failure the environment may produce
    MaxFaults,    \* bound on how many failures it produces
    NoOne,        \* locked_by IS NULL
    NoEvent       \* no event is being processed

AllFaults == {"crash", "kafka", "db", "slow"}

ASSUME OutboxAssumption ==
    /\ IsFiniteSet(Events)
    /\ BatchSize \in Nat \ {0}
    /\ MaxAttempts \in Nat \ {0}
    /\ LockTimeout \in Nat \ {0}
    /\ MaxFaults \in Nat
    /\ FaultKinds \subseteq AllFaults
    /\ NoOne \notin Workers
    /\ NoEvent \notin Events

VARIABLES
    \* The columns of ingestion_outbox, by event_id (unique).
    status, attempts, lockedBy, lockAge, retryIn, born,
    \* The locals of each worker's run() loop.
    pc, batch, cur, seen,
    \* The Kafka topics, one sequence of records, oldest first.
    log,
    \* How many failures have happened.
    faults

rows   == <<status, attempts, lockedBy, lockAge, retryIn, born>>
locals == <<pc, batch, cur, seen>>
vars   == <<status, attempts, lockedBy, lockAge, retryIn, born,
            pc, batch, cur, seen, log, faults>>

Status == {"absent", "pending", "publishing", "published", "deadletter"}

\* Where a worker stands in run(): about to claim, at the top of the loop
\* over its batch, with a record acknowledged by Kafka, before the first and
\* before the second statement of mark_failed, before release_stuck_locks.
PC == {"poll", "batch", "mark", "fail", "reschedule", "sweep"}

OnLog == {log[i] : i \in DOMAIN log}

\* Events worker w has in memory.
Held(w) == batch[w] \cup (IF cur[w] = NoEvent THEN {} ELSE {cur[w]})

\* Minutes before the next try after the n-th attempt.
Backoff(n) ==
    CASE n = 1 -> 1
      [] n = 2 -> 2
      [] n = 3 -> 5
      [] n = 4 -> 10
      [] n = 5 -> 30
      [] OTHER -> 60

Init ==
    /\ status   = [e \in Events |-> "absent"]
    /\ attempts = [e \in Events |-> 0]
    /\ lockedBy = [e \in Events |-> NoOne]
    /\ lockAge  = [e \in Events |-> 0]
    /\ retryIn  = [e \in Events |-> 0]
    /\ born     = [e \in Events |-> 0]
    /\ pc    = [w \in Workers |-> "poll"]
    /\ batch = [w \in Workers |-> {}]
    /\ cur   = [w \in Workers |-> NoEvent]
    /\ seen  = [w \in Workers |-> 0]
    /\ log = <<>>
    /\ faults = 0

-----------------------------------------------------------------------------
\* The failures of the environment, MaxFaults of them at most.
Fault(kind) ==
    /\ kind \in FaultKinds
    /\ faults < MaxFaults
    /\ faults' = faults + 1

-----------------------------------------------------------------------------
(* The statements of OutboxRepo, as what each does to the rows.            *)

\* created_at of the rows of the next transaction: later than every row in
\* the table, and the same for all of them.
NextBorn == 1 + Cardinality({e \in Events : status[e] # "absent"})

\* INSERT ... ON CONFLICT (event_id) DO NOTHING, for the events of one
\* transaction.
Insert(S) ==
    LET new == {e \in S : status[e] = "absent"} IN
    /\ status'   = [e \in Events |-> IF e \in new THEN "pending" ELSE status[e]]
    /\ born'     = [e \in Events |-> IF e \in new THEN NextBorn ELSE born[e]]
    /\ UNCHANGED <<attempts, lockedBy, lockAge, retryIn>>

Claimable == {e \in Events : status[e] = "pending" /\ retryIn[e] = 0}

\* The sets of rows ORDER BY created_at LIMIT BatchSize may return: rows of
\* one transaction tie.
Batches ==
    {B \in SUBSET Claimable :
        /\ \/ Cardinality(B) = BatchSize
           \/ B = Claimable /\ Cardinality(B) <= BatchSize
        /\ \A b \in B, c \in Claimable \ B : born[b] <= born[c]}

ClaimRows(w, B) ==
    /\ status'   = [e \in Events |-> IF e \in B THEN "publishing" ELSE status[e]]
    /\ lockedBy' = [e \in Events |-> IF e \in B THEN w ELSE lockedBy[e]]
    /\ lockAge'  = [e \in Events |-> IF e \in B THEN 0 ELSE lockAge[e]]
    /\ UNCHANGED <<attempts, retryIn, born>>

SetPublished(e) ==
    /\ status'   = [status EXCEPT ![e] = "published"]
    /\ lockedBy' = [lockedBy EXCEPT ![e] = NoOne]
    /\ lockAge'  = [lockAge EXCEPT ![e] = 0]
    /\ UNCHANGED <<attempts, retryIn, born>>

\* First statement of mark_failed; the row keeps its status.
CountFailure(e) ==
    /\ attempts' = [attempts EXCEPT ![e] = @ + 1]
    /\ lockedBy' = [lockedBy EXCEPT ![e] = NoOne]
    /\ lockAge'  = [lockAge EXCEPT ![e] = 0]
    /\ UNCHANGED <<status, retryIn, born>>

\* Mutant: the documented but unused status 'failed' is written.
RescheduleFailed(e, n) ==
    /\ status'  = [status EXCEPT ![e] =
                      IF n >= MaxAttempts THEN "deadletter" ELSE "failed"]
    /\ retryIn' = [retryIn EXCEPT ![e] = Backoff(n)]
    /\ UNCHANGED <<attempts, lockedBy, lockAge, born>>

\* Second statement of mark_failed; n is the count the first one returned.
Reschedule(e, n) ==
    /\ status'  = [status EXCEPT ![e] =
                      IF n >= MaxAttempts THEN "deadletter" ELSE "pending"]
    /\ retryIn' = [retryIn EXCEPT ![e] = Backoff(n)]
    /\ UNCHANGED <<attempts, lockedBy, lockAge, born>>

\* Mutants: locks are released whatever their age, or one minute too soon.
StuckAnyAge == {e \in Events : status[e] = "publishing" /\ lockedBy[e] # NoOne}
StuckTooSoon == {e \in StuckAnyAge : lockAge[e] >= LockTimeout}

\* locked_at < NOW() - timeout is false when locked_at is NULL.
Stuck == {e \in Events : /\ status[e] = "publishing"
                         /\ lockedBy[e] # NoOne
                         /\ lockAge[e] > LockTimeout}

ReleaseStuckLocks ==
    /\ status'   = [e \in Events |-> IF e \in Stuck THEN "pending" ELSE status[e]]
    /\ lockedBy' = [e \in Events |-> IF e \in Stuck THEN NoOne ELSE lockedBy[e]]
    /\ lockAge'  = [e \in Events |-> IF e \in Stuck THEN 0 ELSE lockAge[e]]
    /\ attempts' = [e \in Events |-> IF e \in Stuck THEN attempts[e] + 1
                                                    ELSE attempts[e]]
    /\ UNCHANGED <<retryIn, born>>

-----------------------------------------------------------------------------
(* The publisher loop of worker w.                                         *)

\* process_batch goes on to its next event, or run() to its cleanup.
NextEvent(w) ==
    /\ pc'   = [pc EXCEPT ![w] = IF batch[w] = {} THEN "sweep" ELSE "batch"]
    /\ cur'  = [cur EXCEPT ![w] = NoEvent]
    /\ seen' = [seen EXCEPT ![w] = 0]
    /\ UNCHANGED batch

\* process_batch returns an error, or the process dies and is restarted:
\* either way what the worker had in memory is gone and it polls again.
BackToPoll(w) ==
    /\ pc'    = [pc EXCEPT ![w] = "poll"]
    /\ batch' = [batch EXCEPT ![w] = {}]
    /\ cur'   = [cur EXCEPT ![w] = NoEvent]
    /\ seen'  = [seen EXCEPT ![w] = 0]

\* Mutant: an idle worker skips the cleanup.
ClaimNoSweep(w) ==
    /\ pc[w] = "poll"
    /\ \E B \in Batches :
          /\ ClaimRows(w, B)
          /\ batch' = [batch EXCEPT ![w] = B]
          /\ pc' = [pc EXCEPT ![w] = IF B = {} THEN "poll" ELSE "batch"]
    /\ UNCHANGED <<cur, seen, log, faults>>

Claim(w) ==
    /\ pc[w] = "poll"
    /\ \E B \in Batches :
          /\ ClaimRows(w, B)
          /\ batch' = [batch EXCEPT ![w] = B]
          /\ pc' = [pc EXCEPT ![w] = IF B = {} THEN "sweep" ELSE "batch"]
    /\ UNCHANGED <<cur, seen, log, faults>>

\* The claim commits and its answer is lost; had it not committed, nothing
\* would have changed.
ClaimLost(w) ==
    /\ pc[w] = "poll"
    /\ Fault("db")
    /\ \E B \in Batches : B # {} /\ ClaimRows(w, B)
    /\ UNCHANGED <<locals, log>>

\* Mutant: the loop does not move past the event it has sent.
SendAckedKeep(w, e) ==
    /\ pc[w] = "batch"
    /\ e \in batch[w]
    /\ log' = Append(log, e)
    /\ cur' = [cur EXCEPT ![w] = e]
    /\ pc' = [pc EXCEPT ![w] = "mark"]
    /\ UNCHANGED <<rows, batch, seen, faults>>

\* process_event: Kafka acknowledges the record.  RETURNING is unordered, so
\* any event of the batch may come next.
SendAcked(w, e) ==
    /\ pc[w] = "batch"
    /\ e \in batch[w]
    /\ log' = Append(log, e)
    /\ batch' = [batch EXCEPT ![w] = @ \ {e}]
    /\ cur' = [cur EXCEPT ![w] = e]
    /\ pc' = [pc EXCEPT ![w] = "mark"]
    /\ UNCHANGED <<rows, seen, faults>>

\* Mutant: the error of the send is ignored.
SendErrorIgnored(w, e) ==
    /\ pc[w] = "batch"
    /\ e \in batch[w]
    /\ Fault("kafka")
    /\ log' \in {log, Append(log, e)}
    /\ batch' = [batch EXCEPT ![w] = @ \ {e}]
    /\ cur' = [cur EXCEPT ![w] = e]
    /\ pc' = [pc EXCEPT ![w] = "mark"]
    /\ UNCHANGED <<rows, seen>>

\* The send reports an error; the record may still have been written.
SendFails(w, e) ==
    /\ pc[w] = "batch"
    /\ e \in batch[w]
    /\ Fault("kafka")
    /\ log' \in {log, Append(log, e)}
    /\ batch' = [batch EXCEPT ![w] = @ \ {e}]
    /\ cur' = [cur EXCEPT ![w] = e]
    /\ pc' = [pc EXCEPT ![w] = "fail"]
    /\ UNCHANGED <<rows, seen>>

MarkPublished(w) ==
    /\ pc[w] = "mark"
    /\ SetPublished(cur[w])
    /\ NextEvent(w)
    /\ UNCHANGED <<log, faults>>

\* process_event turns an error of mark_published into a failed publish,
\* whether or not the statement was applied.
MarkPublishedFails(w) ==
    /\ pc[w] = "mark"
    /\ Fault("db")
    /\ SetPublished(cur[w]) \/ UNCHANGED rows
    /\ pc' = [pc EXCEPT ![w] = "fail"]
    /\ UNCHANGED <<batch, cur, seen, log>>

MarkFailed(w) ==
    /\ pc[w] = "fail"
    /\ CountFailure(cur[w])
    /\ seen' = [seen EXCEPT ![w] = attempts[cur[w]] + 1]
    /\ pc' = [pc EXCEPT ![w] = "reschedule"]
    /\ UNCHANGED <<batch, cur, log, faults>>

MarkFailedReschedule(w) ==
    /\ pc[w] = "reschedule"
    /\ Reschedule(cur[w], seen[w])
    /\ NextEvent(w)
    /\ UNCHANGED <<log, faults>>

\* Either statement of mark_failed fails, applied or not: the ? operator
\* leaves process_batch and the rest of the batch.
MarkFailedFails(w) ==
    /\ pc[w] \in {"fail", "reschedule"}
    /\ Fault("db")
    /\ \/ pc[w] = "fail" /\ CountFailure(cur[w])
       \/ pc[w] = "reschedule" /\ Reschedule(cur[w], seen[w])
       \/ UNCHANGED rows
    /\ BackToPoll(w)
    /\ UNCHANGED log

Sweep(w) ==
    /\ pc[w] = "sweep"
    /\ ReleaseStuckLocks
    /\ BackToPoll(w)
    /\ UNCHANGED <<log, faults>>

\* run() only logs the error of cleanup_stuck_locks.
SweepFails(w) ==
    /\ pc[w] = "sweep"
    /\ Fault("db")
    /\ ReleaseStuckLocks \/ UNCHANGED rows
    /\ BackToPoll(w)
    /\ UNCHANGED log

Crash(w) ==
    /\ Fault("crash")
    /\ BackToPoll(w)
    /\ UNCHANGED <<rows, log>>

-----------------------------------------------------------------------------
(* The environment: ingestion transactions and time.                       *)

Write ==
    /\ \E S \in SUBSET Events \ {{}} : Insert(S)
    /\ UNCHANGED <<locals, log, faults>>

\* A worker is slow when a lock of an event it still has in memory outlives
\* LockTimeout; a batch of 100 sends of up to 30 s each can take 50 minutes.
Overdue ==
    \E w \in Workers : \E e \in Held(w) :
        lockedBy[e] # NoOne /\ lockAge[e] = LockTimeout

\* A minute passes.  lockAge saturates just above LockTimeout.
Tick ==
    /\ IF Overdue THEN Fault("slow") ELSE UNCHANGED faults
    /\ lockAge' = [e \in Events |->
                      IF lockedBy[e] = NoOne THEN 0
                      ELSE IF lockAge[e] > LockTimeout THEN lockAge[e]
                      ELSE lockAge[e] + 1]
    /\ retryIn' = [e \in Events |-> IF retryIn[e] = 0 THEN 0 ELSE retryIn[e] - 1]
    /\ UNCHANGED <<status, attempts, lockedBy, born, locals, log>>

WorkerStep(w) ==
    \/ Claim(w)
    \/ \E e \in Events : SendAcked(w, e)
    \/ MarkPublished(w)
    \/ MarkFailed(w)
    \/ MarkFailedReschedule(w)
    \/ Sweep(w)

WorkerFault(w) ==
    \/ ClaimLost(w)
    \/ \E e \in Events : SendFails(w, e)
    \/ MarkPublishedFails(w)
    \/ MarkFailedFails(w)
    \/ SweepFails(w)
    \/ Crash(w)

Next ==
    \/ Write
    \/ Tick
    \/ \E w \in Workers : WorkerStep(w) \/ WorkerFault(w)

Spec == Init /\ [][Next]_vars

\* Every worker's loop keeps running (or is restarted) and time passes.
\* Writing an event is the ingestion's choice.
Fairness ==
    /\ WF_vars(Tick)
    /\ \A w \in Workers : WF_vars(WorkerStep(w))

FairSpec == Spec /\ Fairness
-----------------------------------------------------------------------------
(* Properties.                                                             *)

TypeOK ==
    /\ status   \in [Events -> Status]
    /\ attempts \in [Events -> Nat]
    /\ lockedBy \in [Events -> Workers \cup {NoOne}]
    /\ lockAge  \in [Events -> Nat]
    /\ retryIn  \in [Events -> Nat]
    /\ born     \in [Events -> Nat]
    /\ pc    \in [Workers -> PC]
    /\ batch \in [Workers -> SUBSET Events]
    /\ cur   \in [Workers -> Events \cup {NoEvent}]
    /\ seen  \in [Workers -> Nat]
    /\ log \in Seq(Events)
    /\ faults \in Nat

\* A row says 'published' only when a copy of its event is on the Kafka log,
\* whatever crashed, timed out or was retried between the send and the
\* UPDATE (process_event sends first and marks after).
PublishedOnLog == \A e \in Events : status[e] = "published" => e \in OnLog

\* An event is given up on only after max_attempts counted attempts, however
\* the two statements of mark_failed of several workers interleave.
DeadletterSpent ==
    \A e \in Events : status[e] = "deadletter" => attempts[e] >= MaxAttempts

\* Every counted attempt is the trace of a failure of its own: two workers
\* failing on one row, or a released lock, never count one failure twice.
AttemptsEarned == \A e \in Events : attempts[e] <= faults

\* What a row says of its fate is true.
Truthful == PublishedOnLog /\ DeadletterSpent

Copies(e) == Cardinality({i \in DOMAIN log : log[i] = e})

\* A failure costs at most one more copy of an event on the log; without
\* failures every event is published at most once.
CopiesBounded == \A e \in Events : Copies(e) <= 1 + faults

\* Failures alone make attempts and copies, one each.
FailuresAccount == AttemptsEarned /\ CopiesBounded

\* SKIP LOCKED and the lock timeout keep an event in the hands of one
\* worker, as long as no worker outlives the lock of its batch.
Exclusive ==
    \A v, w \in Workers : v # w => Held(v) \cap Held(w) = {}

\* A row that is offered to the workers is locked by none of them: the two
\* statements of mark_failed and release_stuck_locks, in whatever order the
\* workers issue them, do not leave a lock on a pending row.
PendingUnlocked ==
    \A e \in Events : status[e] = "pending" => lockedBy[e] = NoOne

\* The outbox keeps the promise of module Delivery.
Promise == INSTANCE Delivery WITH
    accepted <- {e \in Events : status[e] # "absent"},
    settled  <- {e \in Events : status[e] = "published"},
    dead     <- {e \in Events : status[e] = "deadletter"}
KeepsPromise == Promise!Spec

Over(e) == status[e] \in {"published", "deadletter"}

\* A row no worker has in memory, claimed and without a lock: a worker died
\* between the two statements of mark_failed.
HalfFailed(e) ==
    /\ status[e] = "publishing"
    /\ lockedBy[e] = NoOne
    /\ \A w \in Workers : e \notin Held(w)

\* Whatever fails, every row comes to rest for good, published, dead-lettered
\* or half failed: the retry schedule and release_stuck_locks reach every
\* other row, and late answers of slow workers move rows back and forth only
\* finitely often.
Settles == <>[](\A e \in Events : status[e] = "absent" \/ Over(e) \/ HalfFailed(e))
=============================================================================
