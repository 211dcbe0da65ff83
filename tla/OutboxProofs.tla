---------------------------- MODULE OutboxProofs ----------------------------
(***************************************************************************)
(* Theorems about the outbox, for every set of events and workers, every   *)
(* batch size, lock timeout and attempt limit, and any number of failures. *)
(***************************************************************************)
EXTENDS Outbox, FiniteSetTheorems, TLAPS

LEMMA NextBornType == TypeOK => NextBorn \in Nat
<1>1. IsFiniteSet({e \in Events : status[e] # "absent"})
  BY FS_Subset, OutboxAssumption DEF OutboxAssumption
<1>2. Cardinality({e \in Events : status[e] # "absent"}) \in Nat
  BY <1>1, FS_CardinalityType
<1> QED
  BY <1>2 DEF NextBorn

LEMMA BackoffType == ASSUME NEW n PROVE Backoff(n) \in Nat
  BY DEF Backoff

\* The columns stay well typed, whichever statement is executed.
LEMMA RowStatements ==
    ASSUME TypeOK, NEW e \in Events, NEW w \in Workers, NEW n \in Nat,
           NEW S \in SUBSET Events, NEW B \in SUBSET Events,
           \/ UNCHANGED rows
           \/ Insert(S)
           \/ ClaimRows(w, B)
           \/ SetPublished(e)
           \/ CountFailure(e)
           \/ Reschedule(e, n)
           \/ ReleaseStuckLocks
    PROVE  /\ status'   \in [Events -> Status]
           /\ attempts' \in [Events -> Nat]
           /\ lockedBy' \in [Events -> Workers \cup {NoOne}]
           /\ lockAge'  \in [Events -> Nat]
           /\ retryIn'  \in [Events -> Nat]
           /\ born'     \in [Events -> Nat]
<1> USE DEF TypeOK, Status
<1>1. CASE UNCHANGED rows
  BY <1>1 DEF rows
<1>2. CASE Insert(S)
  BY <1>2, NextBornType DEF Insert
<1>3. CASE ClaimRows(w, B)
  BY <1>3 DEF ClaimRows
<1>4. CASE SetPublished(e)
  BY <1>4 DEF SetPublished
<1>5. CASE CountFailure(e)
  BY <1>5 DEF CountFailure
<1>6. CASE Reschedule(e, n)
  BY <1>6, BackoffType DEF Reschedule
<1>7. CASE ReleaseStuckLocks
  BY <1>7 DEF ReleaseStuckLocks
<1> QED
  BY <1>1, <1>2, <1>3, <1>4, <1>5, <1>6, <1>7

\* A worker with a record in process knows which event it is.
Busy(w) == pc[w] \in {"mark", "fail", "reschedule"}
BusyHasEvent == \A w \in Workers : Busy(w) <=> cur[w] # NoEvent

TypeInv == TypeOK /\ BusyHasEvent

LEMMA TypeInit == Init => TypeInv
BY OutboxAssumption DEF OutboxAssumption, Init, TypeInv, TypeOK, BusyHasEvent, Busy, Status, PC

LEMMA TypeStep == TypeInv /\ [Next]_vars => TypeInv'
<1> SUFFICES ASSUME TypeInv, [Next]_vars PROVE TypeInv'
  OBVIOUS
<1> USE OutboxAssumption DEF OutboxAssumption, TypeInv, BusyHasEvent, Busy, PC
<1>1. CASE Write
  <2>1. PICK S \in SUBSET Events : Insert(S)
    BY <1>1 DEF Write
  <2> QED
    BY <1>1, <2>1, NextBornType DEF Write, Insert, locals, TypeOK, Status
<1>2. CASE Tick
  BY <1>2 DEF Tick, Fault, locals, TypeOK
<1>3. ASSUME NEW w \in Workers, Claim(w) PROVE TypeInv'
  <2>1. PICK B \in Batches :
            /\ ClaimRows(w, B)
            /\ batch' = [batch EXCEPT ![w] = B]
            /\ pc' = [pc EXCEPT ![w] = IF B = {} THEN "sweep" ELSE "batch"]
    BY <1>3 DEF Claim
  <2>2. B \in SUBSET Events
    BY <2>1 DEF Batches, Claimable
  <2> QED
    BY <1>3, <2>1, <2>2 DEF Claim, ClaimRows, TypeOK, Status
<1>4. ASSUME NEW w \in Workers, ClaimLost(w) PROVE TypeInv'
  <2>1. PICK B \in Batches : ClaimRows(w, B)
    BY <1>4 DEF ClaimLost
  <2>2. B \in SUBSET Events
    BY <2>1 DEF Batches, Claimable
  <2> QED
    BY <1>4, <2>1, <2>2 DEF ClaimLost, ClaimRows, Fault, locals, TypeOK, Status
<1>5. ASSUME NEW w \in Workers, NEW e \in Events, SendAcked(w, e) PROVE TypeInv'
  BY <1>5 DEF SendAcked, rows, TypeOK
<1>6. ASSUME NEW w \in Workers, NEW e \in Events, SendFails(w, e) PROVE TypeInv'
  <2>1. log' \in Seq(Events)
    <3>1. log \in Seq(Events) /\ (log' = log \/ log' = Append(log, e))
      BY <1>6 DEF SendFails, TypeOK
    <3> QED
      BY <3>1
  <2>2. /\ batch' \in [Workers -> SUBSET Events]
        /\ cur' \in [Workers -> Events \cup {NoEvent}]
        /\ pc' \in [Workers -> PC]
        /\ faults' \in Nat
    BY <1>6 DEF SendFails, Fault, TypeOK
  <2>3. BusyHasEvent'
    BY <1>6 DEF SendFails, TypeOK
  <2> QED
    BY <1>6, <2>1, <2>2, <2>3 DEF SendFails, rows, TypeOK
<1>7. ASSUME NEW w \in Workers, MarkPublished(w) PROVE TypeInv'
  <2>1. cur[w] \in Events
    BY <1>7 DEF MarkPublished, TypeOK
  <2> QED
    BY <1>7, <2>1 DEF MarkPublished, SetPublished, NextEvent, TypeOK, Status
<1>8. ASSUME NEW w \in Workers, MarkPublishedFails(w) PROVE TypeInv'
  <2>1. cur[w] \in Events
    BY <1>8 DEF MarkPublishedFails, TypeOK
  <2> QED
    <3>1. CASE SetPublished(cur[w])
      BY <1>8, <2>1, <3>1 DEF MarkPublishedFails, SetPublished, Fault, TypeOK, Status
    <3>2. CASE UNCHANGED rows
      BY <1>8, <2>1, <3>2 DEF MarkPublishedFails, Fault, rows, TypeOK
    <3> QED
      BY <1>8, <3>1, <3>2 DEF MarkPublishedFails
<1>9. ASSUME NEW w \in Workers, MarkFailed(w) PROVE TypeInv'
  <2>1. cur[w] \in Events
    BY <1>9 DEF MarkFailed, TypeOK
  <2> QED
    BY <1>9, <2>1 DEF MarkFailed, CountFailure, TypeOK
<1>10. ASSUME NEW w \in Workers, MarkFailedReschedule(w) PROVE TypeInv'
  <2>1. cur[w] \in Events /\ seen[w] \in Nat
    BY <1>10 DEF MarkFailedReschedule, TypeOK
  <2> QED
    BY <1>10, <2>1, BackoffType
    DEF MarkFailedReschedule, Reschedule, NextEvent, TypeOK, Status
<1>11. ASSUME NEW w \in Workers, MarkFailedFails(w) PROVE TypeInv'
  <2>1. cur[w] \in Events /\ seen[w] \in Nat
    BY <1>11 DEF MarkFailedFails, TypeOK
  <2>2. /\ status'   \in [Events -> Status]
        /\ attempts' \in [Events -> Nat]
        /\ lockedBy' \in [Events -> Workers \cup {NoOne}]
        /\ lockAge'  \in [Events -> Nat]
        /\ retryIn'  \in [Events -> Nat]
        /\ born'     \in [Events -> Nat]
    BY <1>11, <2>1, RowStatements DEF MarkFailedFails
  <2> QED
    BY SMTT(60), <1>11, <2>2 DEF MarkFailedFails, BackToPoll, Fault, TypeOK
<1>12. ASSUME NEW w \in Workers, Sweep(w) PROVE TypeInv'
  BY <1>12 DEF Sweep, ReleaseStuckLocks, BackToPoll, TypeOK, Status
<1>13. ASSUME NEW w \in Workers, SweepFails(w) PROVE TypeInv'
  <2>1. CASE ReleaseStuckLocks
    BY <1>13, <2>1 DEF SweepFails, ReleaseStuckLocks, BackToPoll, Fault, TypeOK, Status
  <2>2. CASE UNCHANGED rows
    BY <1>13, <2>2 DEF SweepFails, BackToPoll, Fault, rows, TypeOK
  <2> QED
    BY <1>13, <2>1, <2>2 DEF SweepFails
<1>14. ASSUME NEW w \in Workers, Crash(w) PROVE TypeInv'
  BY <1>14 DEF Crash, BackToPoll, Fault, rows, TypeOK
<1>15. CASE UNCHANGED vars
  BY <1>15 DEF vars, TypeOK
<1> QED
  BY <1>1, <1>2, <1>3, <1>4, <1>5, <1>6, <1>7, <1>8, <1>9, <1>10, <1>11, <1>12,
     <1>13, <1>14, <1>15 DEF Next, WorkerStep, WorkerFault

\* Every reachable state of the outbox is well typed, whatever fails.
THEOREM TypeCorrect == Spec => []TypeOK
<1>1. TypeInv => TypeOK
  BY DEF TypeInv
<1> QED
  BY <1>1, TypeInit, TypeStep, PTL DEF Spec

-----------------------------------------------------------------------------
(* Published rows are on the log, dead letters have used up their attempts.*)

\* What a worker knows between two statements: the record it is about to
\* mark was acknowledged, and the count it read can only have grown since.
KnowledgeHolds ==
    \A w \in Workers :
        /\ pc[w] = "mark" => cur[w] \in OnLog
        /\ pc[w] = "reschedule" => seen[w] <= attempts[cur[w]]

SafeInv == TypeInv /\ KnowledgeHolds /\ PublishedOnLog /\ DeadletterSpent

LEMMA LogGrows ==
    ASSUME log \in Seq(Events), NEW e \in Events,
           log' = log \/ log' = Append(log, e)
    PROVE  /\ OnLog \subseteq OnLog'
           /\ log' = Append(log, e) => e \in OnLog'
BY DEF OnLog

LEMMA SafeInit == Init => SafeInv
BY TypeInit DEF SafeInv, Init, KnowledgeHolds, PublishedOnLog, DeadletterSpent

LEMMA SafeStep == SafeInv /\ [Next]_vars => SafeInv'
<1> SUFFICES ASSUME SafeInv, [Next]_vars PROVE SafeInv'
  OBVIOUS
<1>0. TypeInv'
  BY TypeStep DEF SafeInv
<1> USE <1>0, OutboxAssumption
    DEF OutboxAssumption, SafeInv, TypeInv, TypeOK, BusyHasEvent, Busy,
        KnowledgeHolds, PublishedOnLog, DeadletterSpent
<1>1. CASE Write
  <2>1. PICK S \in SUBSET Events : Insert(S)
    BY <1>1 DEF Write
  <2> QED
    BY <1>1, <2>1 DEF Write, Insert, locals, OnLog
<1>2. CASE Tick
  BY <1>2 DEF Tick, locals, OnLog
<1>3. ASSUME NEW w \in Workers, Claim(w) PROVE SafeInv'
  <2>1. PICK B \in Batches :
            /\ ClaimRows(w, B)
            /\ pc' = [pc EXCEPT ![w] = IF B = {} THEN "sweep" ELSE "batch"]
    BY <1>3 DEF Claim
  <2> QED
    BY <1>3, <2>1 DEF Claim, ClaimRows, OnLog
<1>4. ASSUME NEW w \in Workers, ClaimLost(w) PROVE SafeInv'
  <2>1. PICK B \in Batches : ClaimRows(w, B)
    BY <1>4 DEF ClaimLost
  <2> QED
    BY <1>4, <2>1 DEF ClaimLost, ClaimRows, locals, OnLog
<1>5. ASSUME NEW w \in Workers, NEW e \in Events, SendAcked(w, e) PROVE SafeInv'
  <2>1. OnLog \subseteq OnLog' /\ e \in OnLog'
    BY <1>5, LogGrows DEF SendAcked
  <2> QED
    BY <1>5, <2>1 DEF SendAcked, rows
<1>6. ASSUME NEW w \in Workers, NEW e \in Events, SendFails(w, e) PROVE SafeInv'
  <2>1. OnLog \subseteq OnLog'
    BY <1>6, LogGrows DEF SendFails
  <2> QED
    BY <1>6, <2>1 DEF SendFails, rows
<1>7. ASSUME NEW w \in Workers, MarkPublished(w) PROVE SafeInv'
  <2>1. cur[w] \in Events /\ cur[w] \in OnLog /\ OnLog' = OnLog
    BY <1>7 DEF MarkPublished, OnLog
  <2>2. /\ status' = [status EXCEPT ![cur[w]] = "published"]
        /\ attempts' = attempts
    BY <1>7 DEF MarkPublished, SetPublished
  <2>3. PublishedOnLog' /\ DeadletterSpent'
    BY ZenonT(60), <2>1, <2>2
  <2>4. KnowledgeHolds'
    BY <1>7, <2>1, <2>2 DEF MarkPublished, NextEvent
  <2> QED
    BY <2>3, <2>4
<1>8. ASSUME NEW w \in Workers, MarkPublishedFails(w) PROVE SafeInv'
  <2>1. /\ cur[w] \in Events /\ cur[w] \in OnLog /\ OnLog' = OnLog
        /\ pc' = [pc EXCEPT ![w] = "fail"] /\ cur' = cur /\ seen' = seen
    BY <1>8 DEF MarkPublishedFails, OnLog
  <2>2. /\ \/ status' = [status EXCEPT ![cur[w]] = "published"]
           \/ status' = status
        /\ attempts' = attempts
    BY <1>8 DEF MarkPublishedFails, SetPublished, rows
  <2>3. PublishedOnLog' /\ DeadletterSpent'
    BY <2>1, <2>2
  <2>4. KnowledgeHolds'
    BY <2>1, <2>2
  <2> QED
    BY <2>3, <2>4
<1>9. ASSUME NEW w \in Workers, MarkFailed(w) PROVE SafeInv'
  BY <1>9 DEF MarkFailed, CountFailure, OnLog
<1>10. ASSUME NEW w \in Workers, MarkFailedReschedule(w) PROVE SafeInv'
  <2>1. /\ cur[w] \in Events
        /\ seen[w] <= attempts[cur[w]]
        /\ seen[w] \in Nat
    BY <1>10 DEF MarkFailedReschedule
  <2>2. /\ attempts' = attempts
        /\ OnLog' = OnLog
        /\ status' = [status EXCEPT ![cur[w]] =
                         IF seen[w] >= MaxAttempts THEN "deadletter" ELSE "pending"]
    BY <1>10 DEF MarkFailedReschedule, Reschedule, OnLog
  <2>3. PublishedOnLog' /\ DeadletterSpent'
    BY SMTT(60), <2>1, <2>2
  <2>4. KnowledgeHolds'
    BY <1>10, <2>1, <2>2 DEF MarkFailedReschedule, NextEvent
  <2> QED
    BY <2>3, <2>4
<1>11. ASSUME NEW w \in Workers, MarkFailedFails(w) PROVE SafeInv'
  <2>1. /\ cur[w] \in Events
        /\ seen[w] \in Nat
        /\ pc[w] = "reschedule" => seen[w] <= attempts[cur[w]]
    BY <1>11 DEF MarkFailedFails
  <2>2. CASE CountFailure(cur[w])
    BY <1>11, <2>1, <2>2 DEF MarkFailedFails, CountFailure, BackToPoll, OnLog
  <2>3. CASE pc[w] = "reschedule" /\ Reschedule(cur[w], seen[w])
    <3>1. /\ attempts' = attempts
          /\ OnLog' = OnLog
          /\ status' = [status EXCEPT ![cur[w]] =
                           IF seen[w] >= MaxAttempts THEN "deadletter" ELSE "pending"]
      BY <1>11, <2>3 DEF MarkFailedFails, Reschedule, OnLog
    <3>2. PublishedOnLog' /\ DeadletterSpent'
      BY SMTT(60), <2>1, <2>3, <3>1
    <3>3. KnowledgeHolds'
      BY <1>11, <2>1, <3>1 DEF MarkFailedFails, BackToPoll
    <3> QED
      BY <3>2, <3>3
  <2>4. CASE UNCHANGED rows
    BY <1>11, <2>4 DEF MarkFailedFails, BackToPoll, rows, OnLog
  <2> QED
    BY <1>11, <2>2, <2>3, <2>4 DEF MarkFailedFails
<1>12. ASSUME NEW w \in Workers, Sweep(w) PROVE SafeInv'
  BY <1>12 DEF Sweep, ReleaseStuckLocks, BackToPoll, OnLog
<1>13. ASSUME NEW w \in Workers, SweepFails(w) PROVE SafeInv'
  <2>1. CASE ReleaseStuckLocks
    BY <1>13, <2>1 DEF SweepFails, ReleaseStuckLocks, BackToPoll, OnLog
  <2>2. CASE UNCHANGED rows
    BY <1>13, <2>2 DEF SweepFails, BackToPoll, rows, OnLog
  <2> QED
    BY <1>13, <2>1, <2>2 DEF SweepFails
<1>14. ASSUME NEW w \in Workers, Crash(w) PROVE SafeInv'
  BY <1>14 DEF Crash, BackToPoll, rows, OnLog
<1>15. CASE UNCHANGED vars
  BY <1>15 DEF vars, OnLog
<1> QED
  BY <1>1, <1>2, <1>3, <1>4, <1>5, <1>6, <1>7, <1>8, <1>9, <1>10, <1>11, <1>12,
     <1>13, <1>14, <1>15 DEF Next, WorkerStep, WorkerFault

\* A published row is on the Kafka log, through any sequence of crashes,
\* timeouts, lost answers and slow workers.
THEOREM PublishedIsOnLog == Spec => []PublishedOnLog
<1>1. SafeInv => PublishedOnLog
  BY DEF SafeInv
<1> QED
  BY <1>1, SafeInit, SafeStep, PTL DEF Spec

\* No event is dead-lettered before max_attempts attempts were counted.
THEOREM DeadletterIsSpent == Spec => []DeadletterSpent
<1>1. SafeInv => DeadletterSpent
  BY DEF SafeInv
<1> QED
  BY <1>1, SafeInit, SafeStep, PTL DEF Spec

\* 'published' and 'deadletter' are said of an event only when it was
\* published, and when its attempts were spent.
THEOREM RowsAreTruthful == Spec => []Truthful
<1>1. PublishedOnLog /\ DeadletterSpent => Truthful
  BY DEF Truthful
<1> QED
  BY <1>1, PublishedIsOnLog, DeadletterIsSpent, PTL

-----------------------------------------------------------------------------
(* Workers that never outlive their locks: mutual exclusion.               *)

Owns(w, e) ==
    /\ status[e] = "publishing"
    /\ lockedBy[e] = w
    /\ lockAge[e] <= LockTimeout

\* A worker owns its batch and the event it is about to mark.  While it
\* fails an event, no one else can claim or release that row: it is still
\* locked by the worker, or unlocked but not pending.
Ownership ==
    \A w \in Workers :
        /\ \A e \in batch[w] : Owns(w, e) /\ e # cur[w]
        /\ pc[w] = "mark" => Owns(w, cur[w])
        /\ pc[w] = "fail" =>
              \/ Owns(w, cur[w])
              \/ status[cur[w]] = "published" /\ lockedBy[cur[w]] = NoOne
        /\ pc[w] = "reschedule" =>
              /\ status[cur[w]] \in {"publishing", "published"}
              /\ lockedBy[cur[w]] = NoOne

OnlyClaimedLocked ==
    \A e \in Events : lockedBy[e] # NoOne => status[e] = "publishing"

OwnInv == TypeInv /\ Ownership /\ OnlyClaimedLocked /\ Exclusive

\* A row in some worker's memory can be neither claimed nor released.
LEMMA HeldIsSafe ==
    ASSUME OwnInv, NEW w \in Workers, NEW e \in Held(w)
    PROVE  /\ e \in Events
           /\ status[e] \in {"publishing", "published"}
           /\ e \notin Claimable
           /\ e \notin Stuck
<1> USE OutboxAssumption
    DEF OutboxAssumption, OwnInv, TypeInv, TypeOK, BusyHasEvent, Busy, Ownership, Owns
<1>1. CASE e \in batch[w]
  BY <1>1 DEF Claimable, Stuck
<1>2. CASE e = cur[w] /\ cur[w] # NoEvent
  <2>1. e \in Events /\ pc[w] \in {"mark", "fail", "reschedule"}
    BY <1>2
  <2>2. \/ Owns(w, e)
        \/ status[e] \in {"publishing", "published"} /\ lockedBy[e] = NoOne
    BY <1>2, <2>1
  <2> QED
    BY <2>1, <2>2 DEF Claimable, Stuck
<1> QED
  BY <1>1, <1>2 DEF Held

LEMMA OwnInit == Init => OwnInv
BY TypeInit, OutboxAssumption
DEF OutboxAssumption, OwnInv, Init, Ownership, OnlyClaimedLocked, Exclusive, Held

LEMMA OwnStep ==
    ASSUME "slow" \notin FaultKinds
    PROVE  OwnInv /\ [Next]_vars => OwnInv'
<1> SUFFICES ASSUME OwnInv, [Next]_vars PROVE OwnInv'
  OBVIOUS
<1>0. TypeInv'
  BY TypeStep DEF OwnInv
<1> USE <1>0, OutboxAssumption
    DEF OutboxAssumption, OwnInv, TypeInv, TypeOK, BusyHasEvent, Busy
<1>1. CASE Write
  <2>1. PICK S \in SUBSET Events : Insert(S)
    BY <1>1 DEF Write
  <2>2. \A e \in Events : status[e] # "absent" => status'[e] = status[e]
    BY <2>1 DEF Insert
  <2>3. OnlyClaimedLocked'
    BY <2>1, <2>2 DEF Insert, OnlyClaimedLocked
  <2>4. Ownership'
    BY <1>1, <2>1, <2>2 DEF Write, Insert, locals, Ownership, Owns
  <2> QED
    BY <1>1, <2>3, <2>4 DEF Write, locals, Exclusive, Held
<1>2. CASE Tick
  <2>1. ~Overdue
    BY <1>2 DEF Tick, Fault
  <2>2. \A w \in Workers, e \in Events : e \in Held(w) /\ Owns(w, e) => Owns(w, e)'
    BY <1>2, <2>1 DEF Tick, Overdue, Owns
  <2>3. Ownership'
    BY <1>2, <2>2 DEF Tick, locals, Ownership, Held
  <2> QED
    BY ZenonT(60), <1>2, <2>3 DEF Tick, locals, OnlyClaimedLocked, Exclusive, Held
<1>3. ASSUME NEW w \in Workers, NEW B \in SUBSET Claimable, ClaimRows(w, B),
             UNCHANGED <<cur, seen>>,
             \/ UNCHANGED <<pc, batch>>
             \/ /\ pc[w] = "poll"
                /\ batch' = [batch EXCEPT ![w] = B]
                /\ pc' = [pc EXCEPT ![w] = IF B = {} THEN "sweep" ELSE "batch"]
      PROVE  OwnInv'
  <2>1. \A e \in B : e \in Events /\ \A v \in Workers : e \notin Held(v)
    BY HeldIsSafe DEF Claimable
  <2>2. \A e \in Events \ B :
            /\ status'[e] = status[e]
            /\ lockedBy'[e] = lockedBy[e]
            /\ lockAge'[e] = lockAge[e]
    BY <1>3 DEF ClaimRows
  <2>3. \A e \in B : Owns(w, e)'
    BY <1>3, <2>1 DEF ClaimRows, Owns
  <2>4. \A v \in Workers :
            \/ batch'[v] = batch[v]
            \/ v = w /\ batch'[v] = B /\ cur[v] = NoEvent
    <3>1. batch \in [Workers -> SUBSET Events] /\ (pc[w] = "poll" => cur[w] = NoEvent)
      OBVIOUS
    <3> HIDE DEF OwnInv, TypeInv, TypeOK, BusyHasEvent
    <3> QED
      BY <1>3, <3>1
  <2>5. \A v \in Workers : pc'[v] \in {"mark", "fail", "reschedule"} => pc'[v] = pc[v]
    BY <1>3
  <2>6. Ownership'
    <3> SUFFICES ASSUME NEW v \in Workers
                 PROVE  /\ \A e \in batch'[v] : Owns(v, e)' /\ e # cur'[v]
                        /\ (pc[v] = "mark" => Owns(v, cur[v]))'
                        /\ (pc[v] = "fail" =>
                              \/ Owns(v, cur[v])
                              \/ status[cur[v]] = "published" /\ lockedBy[cur[v]] = NoOne)'
                        /\ (pc[v] = "reschedule" =>
                              /\ status[cur[v]] \in {"publishing", "published"}
                              /\ lockedBy[cur[v]] = NoOne)'
      BY DEF Ownership
    <3>1. \A e \in batch'[v] : Owns(v, e)' /\ e # cur'[v]
      BY <1>3, <2>1, <2>2, <2>3, <2>4 DEF Ownership, Owns, Held
    <3>2. pc'[v] \in {"mark", "fail", "reschedule"} => cur[v] \in Events \ B
      BY <2>1, <2>5 DEF Held
    <3> QED
      BY <1>3, <2>2, <2>5, <3>1, <3>2 DEF Ownership, Owns
  <2>7. OnlyClaimedLocked'
    BY <1>3 DEF ClaimRows, OnlyClaimedLocked
  <2>8. Exclusive'
    <3>1. Exclusive
      OBVIOUS
    <3> HIDE DEF OwnInv, TypeInv, TypeOK, BusyHasEvent
    <3>2. \A v \in Workers : Held(v)' = Held(v) \/ (v = w /\ Held(v)' = B)
      BY <1>3, <2>4 DEF Held
    <3> QED
      BY <2>1, <3>1, <3>2 DEF Exclusive
  <2> QED
    BY <2>6, <2>7, <2>8
<1>4. ASSUME NEW w \in Workers, Claim(w) PROVE OwnInv'
  BY <1>3, <1>4 DEF Claim, Batches
<1>5. ASSUME NEW w \in Workers, ClaimLost(w) PROVE OwnInv'
  BY <1>3, <1>5 DEF ClaimLost, Batches, locals
<1>6. ASSUME NEW w \in Workers, NEW e \in batch[w], pc[w] = "batch", UNCHANGED rows,
             batch' = [batch EXCEPT ![w] = @ \ {e}],
             cur' = [cur EXCEPT ![w] = e],
             pc' \in {[pc EXCEPT ![w] = "mark"], [pc EXCEPT ![w] = "fail"]}
      PROVE  OwnInv'
  <2>1. cur[w] = NoEvent /\ e \in Events /\ Owns(w, e)
    BY <1>6 DEF Ownership
  <2>2. Held(w)' = Held(w)
    BY <1>6, <2>1 DEF Held
  <2>3. \A v \in Workers \ {w} :
            /\ Held(v)' = Held(v)
            /\ batch'[v] = batch[v]
            /\ cur'[v] = cur[v]
            /\ pc'[v] = pc[v]
    BY <1>6 DEF Held
  <2>4. Exclusive'
    <3>1. Exclusive
      OBVIOUS
    <3> HIDE DEF OwnInv, TypeInv, TypeOK, BusyHasEvent
    <3>2. \A v \in Workers : Held(v)' = Held(v)
      BY <2>2, <2>3
    <3> QED
      BY <3>1, <3>2 DEF Exclusive
  <2>5. \A f \in Events, v \in Workers : Owns(v, f)' = Owns(v, f)
    BY <1>6 DEF rows, Owns
  <2>6. batch'[w] = batch[w] \ {e} /\ cur'[w] = e /\ pc'[w] \in {"mark", "fail"}
    BY <1>6
  <2>7. Ownership'
    BY <1>6, <2>1, <2>3, <2>5, <2>6 DEF rows, Ownership
  <2> QED
    BY <1>6, <2>4, <2>7 DEF rows, OnlyClaimedLocked
<1>7. ASSUME NEW w \in Workers, NEW e \in Events, SendAcked(w, e) \/ SendFails(w, e)
      PROVE  OwnInv'
  BY <1>6, <1>7 DEF SendAcked, SendFails
<1>8. ASSUME NEW w \in Workers, cur[w] \in Events,
             \A f \in Events \ {cur[w]} :
                 /\ status'[f] = status[f]
                 /\ lockedBy'[f] = lockedBy[f]
                 /\ lockAge'[f] = lockAge[f],
             \A v \in Workers \ {w} :
                 /\ pc'[v] = pc[v]
                 /\ batch'[v] = batch[v]
                 /\ cur'[v] = cur[v],
             batch'[w] \subseteq batch[w],
             cur'[w] \in {cur[w], NoEvent},
             pc'[w] # "mark",
             pc'[w] = "fail" =>
                 \/ Owns(w, cur[w])'
                 \/ cur'[w] = cur[w] /\ status'[cur[w]] = "published" /\ lockedBy'[cur[w]] = NoOne,
             pc'[w] = "fail" => cur'[w] = cur[w],
             pc'[w] = "reschedule" =>
                 /\ cur'[w] = cur[w]
                 /\ status'[cur[w]] \in {"publishing", "published"}
                 /\ lockedBy'[cur[w]] = NoOne,
             lockedBy'[cur[w]] # NoOne => status'[cur[w]] = "publishing"
      PROVE  OwnInv'
  <2>1. \A v \in Workers \ {w} : cur[w] \notin Held(v)
    BY SMTT(60), <1>8 DEF Exclusive, Held
  <2>2. ASSUME NEW v \in Workers \ {w}
        PROVE  /\ \A e \in batch'[v] : Owns(v, e)' /\ e # cur'[v]
               /\ (pc[v] = "mark" => Owns(v, cur[v]))'
               /\ (pc[v] = "fail" =>
                     \/ Owns(v, cur[v])
                     \/ status[cur[v]] = "published" /\ lockedBy[cur[v]] = NoOne)'
               /\ (pc[v] = "reschedule" =>
                     /\ status[cur[v]] \in {"publishing", "published"}
                     /\ lockedBy[cur[v]] = NoOne)'
    <3>1. pc'[v] = pc[v] /\ batch'[v] = batch[v] /\ cur'[v] = cur[v]
      BY <1>8, <2>2
    <3>2. \A e \in Held(v) :
              /\ e \in Events
              /\ status'[e] = status[e]
              /\ lockedBy'[e] = lockedBy[e]
              /\ lockAge'[e] = lockAge[e]
      <4> SUFFICES ASSUME NEW e \in Held(v)
                   PROVE  /\ e \in Events
                          /\ status'[e] = status[e]
                          /\ lockedBy'[e] = lockedBy[e]
                          /\ lockAge'[e] = lockAge[e]
        OBVIOUS
      <4>1. e \in Events \ {cur[w]}
        BY <2>1, <2>2, HeldIsSafe
      <4> QED
        BY <1>8, <4>1
    <3>3. batch[v] \subseteq Held(v) /\ (cur[v] # NoEvent => cur[v] \in Held(v))
      BY DEF Held
    <3> QED
      BY SMTT(60), <2>2, <3>1, <3>2, <3>3 DEF Ownership, Owns
  <2>3. \A e \in batch'[w] : Owns(w, e)' /\ e # cur'[w]
    BY <1>8 DEF Ownership, Owns
  <2>4. Ownership'
    <3>1. /\ (pc[w] = "mark" => Owns(w, cur[w]))'
          /\ (pc[w] = "fail" =>
                \/ Owns(w, cur[w])
                \/ status[cur[w]] = "published" /\ lockedBy[cur[w]] = NoOne)'
          /\ (pc[w] = "reschedule" =>
                /\ status[cur[w]] \in {"publishing", "published"}
                /\ lockedBy[cur[w]] = NoOne)'
      BY <1>8 DEF Owns
    <3> QED
      BY SMTT(60), <2>2, <2>3, <3>1 DEF Ownership
  <2>5. OnlyClaimedLocked'
    BY ZenonT(60), <1>8 DEF OnlyClaimedLocked
  <2>6. \A v \in Workers : Held(v)' \subseteq Held(v)
    BY <1>8 DEF Held
  <2>7. Exclusive'
    BY <2>6 DEF Exclusive
  <2> QED
    BY <2>4, <2>5, <2>7
<1>9. ASSUME NEW w \in Workers, MarkPublished(w) PROVE OwnInv'
  BY ZenonT(60), <1>8, <1>9 DEF MarkPublished, SetPublished, NextEvent
<1>10. ASSUME NEW w \in Workers, MarkPublishedFails(w) PROVE OwnInv'
  <2>1. cur[w] \in Events /\ Owns(w, cur[w])
    BY <1>10 DEF MarkPublishedFails, Ownership
  <2>2. CASE SetPublished(cur[w])
    BY SMTT(60), <1>8, <1>10, <2>1, <2>2 DEF MarkPublishedFails, SetPublished
  <2>3. CASE UNCHANGED rows
    BY <1>8, <1>10, <2>1, <2>3 DEF MarkPublishedFails, rows, Owns
  <2> QED
    BY <1>10, <2>2, <2>3 DEF MarkPublishedFails
<1>11. ASSUME NEW w \in Workers, MarkFailed(w) PROVE OwnInv'
  <2>1. cur[w] \in Events /\ status[cur[w]] \in {"publishing", "published"}
    BY <1>11 DEF MarkFailed, Ownership, Owns
  <2> QED
    BY <1>8, <1>11, <2>1 DEF MarkFailed, CountFailure
<1>12. ASSUME NEW w \in Workers, MarkFailedReschedule(w) PROVE OwnInv'
  <2>1. cur[w] \in Events /\ lockedBy[cur[w]] = NoOne
    BY <1>12 DEF MarkFailedReschedule, Ownership
  <2> QED
    BY <1>8, <1>12, <2>1 DEF MarkFailedReschedule, Reschedule, NextEvent
<1>13. ASSUME NEW w \in Workers, MarkFailedFails(w) PROVE OwnInv'
  <2>1. cur[w] \in Events /\ (pc[w] = "reschedule" => lockedBy[cur[w]] = NoOne)
    BY <1>13 DEF MarkFailedFails, Ownership
  <2>2. CASE CountFailure(cur[w])
    BY <1>8, <1>13, <2>1, <2>2 DEF MarkFailedFails, CountFailure, BackToPoll
  <2>3. CASE pc[w] = "reschedule" /\ Reschedule(cur[w], seen[w])
    BY <1>8, <1>13, <2>1, <2>3 DEF MarkFailedFails, Reschedule, BackToPoll
  <2>4. CASE UNCHANGED rows
    BY <1>8, <1>13, <2>1, <2>4
    DEF MarkFailedFails, BackToPoll, rows, OnlyClaimedLocked
  <2> QED
    BY <1>13, <2>2, <2>3, <2>4 DEF MarkFailedFails
<1>14. ASSUME NEW w \in Workers, BackToPoll(w), UNCHANGED rows \/ ReleaseStuckLocks
      PROVE  OwnInv'
  <2>1. \A v \in Workers : Held(v)' \subseteq Held(v)
    BY <1>14 DEF BackToPoll, Held
  <2>2. \A v \in Workers : \A e \in Held(v) :
            /\ status'[e] = status[e]
            /\ lockedBy'[e] = lockedBy[e]
            /\ lockAge'[e] = lockAge[e]
    <3> SUFFICES ASSUME NEW v \in Workers, NEW e \in Held(v)
                 PROVE  /\ status'[e] = status[e]
                        /\ lockedBy'[e] = lockedBy[e]
                        /\ lockAge'[e] = lockAge[e]
      OBVIOUS
    <3>1. e \in Events /\ e \notin Stuck
      BY HeldIsSafe
    <3> QED
      BY <1>14, <3>1 DEF ReleaseStuckLocks, rows
  <2>3. ASSUME NEW v \in Workers
        PROVE  /\ \A e \in batch'[v] : Owns(v, e)' /\ e # cur'[v]
               /\ (pc[v] = "mark" => Owns(v, cur[v]))'
               /\ (pc[v] = "fail" =>
                     \/ Owns(v, cur[v])
                     \/ status[cur[v]] = "published" /\ lockedBy[cur[v]] = NoOne)'
               /\ (pc[v] = "reschedule" =>
                     /\ status[cur[v]] \in {"publishing", "published"}
                     /\ lockedBy[cur[v]] = NoOne)'
    <3>1. CASE v = w
      BY <1>14, <3>1 DEF BackToPoll
    <3>2. CASE v # w
      <4>1. pc'[v] = pc[v] /\ batch'[v] = batch[v] /\ cur'[v] = cur[v]
        BY <1>14, <3>2 DEF BackToPoll
      <4> QED
        BY <2>2, <4>1 DEF Ownership, Owns, Held
    <3> QED
      BY <3>1, <3>2
  <2>4. Ownership'
    BY <2>3 DEF Ownership
  <2>5. OnlyClaimedLocked'
    BY <1>14 DEF ReleaseStuckLocks, rows, OnlyClaimedLocked
  <2>6. Exclusive'
    BY <2>1 DEF Exclusive
  <2> QED
    BY <2>4, <2>5, <2>6
<1>15. ASSUME NEW w \in Workers, Sweep(w) \/ SweepFails(w) \/ Crash(w) PROVE OwnInv'
  BY <1>14, <1>15 DEF Sweep, SweepFails, Crash
<1>16. CASE UNCHANGED vars
  BY <1>16 DEF vars, Ownership, Owns, OnlyClaimedLocked, Exclusive, Held
<1> QED
  BY <1>1, <1>2, <1>4, <1>5, <1>7, <1>9, <1>10, <1>11, <1>12, <1>13, <1>15, <1>16
  DEF Next, WorkerStep, WorkerFault

\* As long as no worker outlives the lock of its batch, no event is ever in
\* the hands of two publishers: what SKIP LOCKED is used for.
THEOREM PublishersExclude ==
    ASSUME "slow" \notin FaultKinds
    PROVE  Spec => []Exclusive
<1>1. OwnInv => Exclusive
  BY DEF OwnInv
<1>2. OwnInv /\ [Next]_vars => OwnInv'
  BY OwnStep
<1> QED
  BY <1>1, <1>2, OwnInit, PTL DEF Spec

\* ... and a row offered for claiming carries no lock.
THEOREM PendingIsUnlocked ==
    ASSUME "slow" \notin FaultKinds
    PROVE  Spec => []PendingUnlocked
<1>1. OwnInv => PendingUnlocked
  BY DEF OwnInv, OnlyClaimedLocked, PendingUnlocked
<1>2. OwnInv /\ [Next]_vars => OwnInv'
  BY OwnStep
<1> QED
  BY <1>1, <1>2, OwnInit, PTL DEF Spec

-----------------------------------------------------------------------------
(* The outbox implements Delivery when the database answers every          *)
(* statement and no worker outlives its lock.                              *)

\* What a worker holds is still to be published: a row is settled or dead
\* only after the worker is done with it.
InWork == \A w \in Workers : \A e \in Held(w) : status[e] = "publishing"

WorkInv == OwnInv /\ SafeInv /\ InWork

LEMMA WorkInit == Init => WorkInv
BY OwnInit, SafeInit DEF WorkInv, InWork, Init, Held

LEMMA WorkStep ==
    ASSUME FaultKinds \subseteq {"crash", "kafka"}
    PROVE  WorkInv /\ [Next]_vars => WorkInv'
<1> SUFFICES ASSUME WorkInv, [Next]_vars PROVE WorkInv'
  OBVIOUS
<1>a. OwnInv /\ OwnInv' /\ SafeInv'
  <2>1. "slow" \notin FaultKinds
    OBVIOUS
  <2> QED
    BY <2>1, OwnStep, SafeStep DEF WorkInv
<1>b. SUFFICES ASSUME NEW v \in Workers, NEW d \in Held(v)'
               PROVE  status'[d] = "publishing"
  BY <1>a DEF WorkInv, InWork
<1>c. /\ pc \in [Workers -> PC]
      /\ batch \in [Workers -> SUBSET Events]
      /\ cur \in [Workers -> Events \cup {NoEvent}]
      /\ status \in [Events -> Status]
      /\ Exclusive
      /\ InWork
      /\ NoEvent \notin Events
      /\ \A w \in Workers : Busy(w) <=> cur[w] # NoEvent
  BY <1>a, OutboxAssumption
  DEF OutboxAssumption, WorkInv, OwnInv, TypeInv, TypeOK, BusyHasEvent
<1>d. ASSUME NEW w \in Workers, NEW e \in Held(w)
      PROVE  e \in Events /\ status[e] = "publishing" /\ e \notin Stuck
  BY <1>a, <1>c, HeldIsSafe DEF InWork
\* A step that keeps what the workers hold and the status of held rows.
<1>e. ASSUME Held(v)' \subseteq Held(v),
             \A e \in Held(v) : status'[e] = status[e]
      PROVE  status'[d] = "publishing"
  BY <1>b, <1>d, <1>e
<1>1. CASE Write
  <2>1. PICK S \in SUBSET Events : Insert(S)
    BY <1>1 DEF Write
  <2>2. \A e \in Held(v) : status'[e] = status[e]
    BY <1>d, <2>1 DEF Insert
  <2> QED
    BY <1>1, <1>e, <2>2 DEF Write, locals, Held
<1>2. CASE Tick
  BY <1>2, <1>e DEF Tick, locals, Held
<1>3. ASSUME NEW w \in Workers, Claim(w) PROVE status'[d] = "publishing"
  <2>1. PICK B \in Batches :
            /\ ClaimRows(w, B)
            /\ batch' = [batch EXCEPT ![w] = B]
    BY <1>3 DEF Claim
  <2>2. \A e \in Events : status[e] = "publishing" \/ e \in B => status'[e] = "publishing"
    BY <2>1 DEF ClaimRows
  <2>3. Held(v)' \subseteq Held(v) \cup B
    BY <1>3, <1>c, <2>1 DEF Claim, Held
  <2>4. d \in Events
    BY <1>d, <2>1, <2>3 DEF Batches, Claimable
  <2> QED
    BY <1>d, <2>2, <2>3, <2>4
<1>4. ASSUME NEW w \in Workers, NEW e \in Events, SendAcked(w, e) \/ SendFails(w, e)
      PROVE  status'[d] = "publishing"
  <2>1. cur[w] = NoEvent
    BY <1>4, <1>c DEF SendAcked, SendFails, Busy
  <2>2. /\ batch' = [batch EXCEPT ![w] = batch[w] \ {e}]
        /\ cur' = [cur EXCEPT ![w] = e]
        /\ e \in batch[w]
        /\ status' = status
    BY <1>4 DEF SendAcked, SendFails, rows
  <2>3. Held(v)' \subseteq Held(v)
    BY <1>c, <2>1, <2>2 DEF Held
  <2> QED
    BY <1>e, <2>2, <2>3
<1>5. ASSUME NEW w \in Workers, MarkPublished(w) \/ MarkFailedReschedule(w)
      PROVE  status'[d] = "publishing"
  <2>1. cur[w] # NoEvent /\ cur[w] \in Held(w)
    BY <1>5, <1>c DEF MarkPublished, MarkFailedReschedule, Busy, Held
  <2>2. \A e \in Events \ {cur[w]} : status'[e] = status[e]
    BY <1>5, <1>c DEF MarkPublished, SetPublished, MarkFailedReschedule, Reschedule
  <2>3. cur' = [cur EXCEPT ![w] = NoEvent] /\ batch' = batch
    BY <1>5 DEF MarkPublished, MarkFailedReschedule, NextEvent
  <2>4. Held(v)' \subseteq Held(v) \ {cur[w]}
    <3>1. CASE v = w
      BY <1>a, <1>c, <2>1, <2>3, <3>1 DEF Held, OwnInv, Ownership
    <3>2. CASE v # w
      BY <1>c, <2>1, <2>3, <3>2 DEF Held, Exclusive
    <3> QED
      BY <3>1, <3>2
  <2> QED
    BY <1>b, <1>d, <2>2, <2>4
<1>6. ASSUME NEW w \in Workers, MarkFailed(w) PROVE status'[d] = "publishing"
  BY <1>6, <1>e DEF MarkFailed, CountFailure, Held
<1>7. ASSUME NEW w \in Workers, Sweep(w) \/ Crash(w) PROVE status'[d] = "publishing"
  <2>1. Held(v)' \subseteq Held(v)
    BY <1>7, <1>c DEF Sweep, Crash, BackToPoll, Held
  <2>2. \A e \in Held(v) : status'[e] = status[e]
    BY <1>7, <1>d DEF Sweep, ReleaseStuckLocks, Crash, rows
  <2> QED
    BY <1>e, <2>1, <2>2
<1>8. CASE UNCHANGED vars
  BY <1>8, <1>e DEF vars, Held
<1>9. ~Fault("db")
  BY DEF Fault
<1> QED
  BY <1>1, <1>2, <1>3, <1>4, <1>5, <1>6, <1>7, <1>8, <1>9
  DEF Next, WorkerStep, WorkerFault, ClaimLost, MarkPublishedFails, MarkFailedFails, SweepFails

\* One step of the outbox is one step of Delivery, or none.
LEMMA StepKeepsPromise ==
    ASSUME FaultKinds \subseteq {"crash", "kafka"}
    PROVE  WorkInv /\ [Next]_vars => [Promise!Next]_(Promise!vars)
<1> DEFINE accepted == {e \in Events : status[e] # "absent"}
           settled  == {e \in Events : status[e] = "published"}
           dead     == {e \in Events : status[e] = "deadletter"}
<1> SUFFICES ASSUME WorkInv, [Next]_vars PROVE [Promise!Next]_(Promise!vars)
  OBVIOUS
<1>a. TypeOK /\ OwnInv /\ KnowledgeHolds
  BY DEF WorkInv, SafeInv, TypeInv
<1>b. ASSUME NEW w \in Workers, NEW e \in Held(w)
      PROVE  /\ e \in Events
             /\ status[e] = "publishing"
             /\ e \notin Claimable
             /\ e \notin Stuck
             /\ e \in Promise!Open
  <2>1. e \in Events /\ e \notin Claimable /\ e \notin Stuck
    BY <1>a, HeldIsSafe
  <2>2. status[e] = "publishing"
    BY DEF WorkInv, InWork
  <2> QED
    BY <2>1, <2>2 DEF Promise!Open
<1>c. ASSUME NEW w \in Workers, Busy(w)
      PROVE  cur[w] \in Held(w)
  BY <1>a, <1>c DEF OwnInv, TypeInv, BusyHasEvent, Held
\* A step that leaves the fate of every row and the log alone.
<1>d. ASSUME log' = log, accepted' = accepted, settled' = settled, dead' = dead
      PROVE  UNCHANGED Promise!vars
  BY <1>d DEF Promise!vars
<1>1. CASE Write
  <2>1. PICK S \in SUBSET Events : Insert(S)
    BY <1>1 DEF Write
  <2>2. accepted' = accepted \cup S
    BY <2>1, <1>a DEF Insert, TypeOK
  <2>3. settled' = settled /\ dead' = dead /\ log' = log
    BY <1>1, <2>1, <1>a DEF Write, Insert, TypeOK
  <2>4. Promise!Accept
    BY <2>2, <2>3 DEF Promise!Accept
  <2> QED
    BY <2>4 DEF Promise!Next
<1>2. CASE Tick
  BY <1>2, <1>d DEF Tick
<1>3. ASSUME NEW w \in Workers, Claim(w) PROVE UNCHANGED Promise!vars
  <2>1. PICK B \in Batches : ClaimRows(w, B)
    BY <1>3 DEF Claim
  <2>2. \A e \in Events : status'[e] = status[e]
                     \/ (status[e] = "pending" /\ status'[e] = "publishing")
    BY <2>1 DEF ClaimRows, Batches, Claimable
  <2> QED
    BY <1>3, <1>d, <2>2 DEF Claim
<1>4. ASSUME NEW w \in Workers, NEW e \in Events, SendAcked(w, e) \/ SendFails(w, e)
      PROVE  [Promise!Next]_(Promise!vars)
  <2>1. e \in Promise!Open
    BY <1>4, <1>b DEF SendAcked, SendFails, Held
  <2>2. status' = status /\ (log' = log \/ log' = Append(log, e))
    BY <1>4 DEF SendAcked, SendFails, rows
  <2>3. CASE log' = log
    BY <1>d, <2>2, <2>3
  <2>4. CASE log' = Append(log, e)
    <3>1. Promise!Publish(e)
      BY <2>2, <2>4 DEF Promise!Publish
    <3> QED
      BY <2>1, <3>1 DEF Promise!Next
  <2> QED
    BY <2>2, <2>3, <2>4
<1>5. ASSUME NEW w \in Workers, MarkPublished(w) PROVE Promise!Next
  <2>1. cur[w] \in Promise!Open /\ cur[w] \in Events
    BY <1>5, <1>b, <1>c DEF MarkPublished, Busy
  <2>2. cur[w] \in Promise!OnLog
    BY <1>5, <1>a DEF MarkPublished, KnowledgeHolds, OnLog, Promise!OnLog
  <2>3. status' = [status EXCEPT ![cur[w]] = "published"] /\ log' = log
    BY <1>5 DEF MarkPublished, SetPublished
  <2>4. /\ settled' = settled \cup {cur[w]}
        /\ accepted' = accepted
        /\ dead' = dead
    BY <1>5, <1>a, <1>b, <1>c, <2>1, <2>3 DEF TypeOK, MarkPublished, Busy
  <2>5. \E e \in Promise!Open : Promise!Settle(e)
    BY <2>1, <2>2, <2>3, <2>4 DEF Promise!Settle
  <2> QED
    BY <2>5 DEF Promise!Next
<1>6. ASSUME NEW w \in Workers, MarkFailed(w) PROVE UNCHANGED Promise!vars
  BY <1>6, <1>d DEF MarkFailed, CountFailure
<1>7. ASSUME NEW w \in Workers, MarkFailedReschedule(w)
      PROVE  [Promise!Next]_(Promise!vars)
  <2>1. /\ cur[w] \in Promise!Open
        /\ cur[w] \in Events
        /\ status[cur[w]] = "publishing"
    BY <1>7, <1>b, <1>c DEF MarkFailedReschedule, Busy
  <2>2. log' = log /\ Reschedule(cur[w], seen[w])
    BY <1>7 DEF MarkFailedReschedule
  <2>3. CASE seen[w] >= MaxAttempts
    <3>1. status' = [status EXCEPT ![cur[w]] = "deadletter"]
      BY <2>2, <2>3 DEF Reschedule
    <3>2. /\ dead' = dead \cup {cur[w]}
          /\ accepted' = accepted
          /\ settled' = settled
      BY <1>a, <2>1, <3>1 DEF TypeOK
    <3>3. \E e \in Promise!Open : Promise!Abandon(e)
      BY <2>1, <2>2, <3>2 DEF Promise!Abandon
    <3> QED
      BY <3>3 DEF Promise!Next
  <2>4. CASE ~(seen[w] >= MaxAttempts)
    <3>1. status' = [status EXCEPT ![cur[w]] = "pending"]
      BY <2>2, <2>4 DEF Reschedule
    <3>2. dead' = dead /\ accepted' = accepted /\ settled' = settled
      BY <1>a, <2>1, <3>1 DEF TypeOK
    <3> QED
      BY <1>d, <2>2, <3>2
  <2> QED
    BY <2>3, <2>4
<1>8. ASSUME NEW w \in Workers, Sweep(w) \/ Crash(w) PROVE UNCHANGED Promise!vars
  <2>1. \A e \in Events : status'[e] = status[e]
                     \/ (status[e] = "publishing" /\ status'[e] = "pending")
    BY <1>8, <1>a DEF Sweep, ReleaseStuckLocks, Stuck, Crash, rows, TypeOK
  <2> QED
    BY <1>8, <1>d, <2>1 DEF Sweep, Crash
<1>9. CASE UNCHANGED vars
  BY <1>9, <1>d DEF vars
<1>10. ~Fault("db")
  BY DEF Fault
<1> QED
  BY <1>1, <1>2, <1>3, <1>4, <1>5, <1>6, <1>7, <1>8, <1>9, <1>10
  DEF Next, WorkerStep, WorkerFault, ClaimLost, MarkPublishedFails, MarkFailedFails, SweepFails

\* With crashes and Kafka errors only, the publisher loop, its locks and its
\* retries implement Delivery: published and dead-lettered events are final,
\* and an event is reported as published only with a copy on the log.
THEOREM OutboxImplementsDelivery ==
    ASSUME FaultKinds \subseteq {"crash", "kafka"}
    PROVE  Spec => KeepsPromise
<1>1. Init => Promise!Init
  BY DEF Init, Promise!Init
<1>2. WorkInv /\ [Next]_vars => WorkInv'
  BY WorkStep
<1>3. WorkInv /\ [Next]_vars => [Promise!Next]_(Promise!vars)
  BY StepKeepsPromise
<1> QED
  BY <1>1, <1>2, <1>3, WorkInit, PTL DEF Spec, KeepsPromise, Promise!Spec

-----------------------------------------------------------------------------
(* Every counted attempt and every copy beyond the first is paid for by a  *)
(* failure of its own.                                                     *)

One(b) == IF b THEN 1 ELSE 0

\* What is still to come of an event: workers that will count a failure of it,
\* that will offer its row again, that will send it; and a lock that
\* release_stuck_locks may take away, because its holder has forgotten the
\* event or has outlived the lock.
Failing(e) == {w \in Workers : cur[w] = e /\ pc[w] = "fail"}
Returning(e) == {w \in Workers : cur[w] = e /\ pc[w] \in {"fail", "reschedule"}}
Sending(e) == {w \in Workers : e \in batch[w]}
Stray(e) ==
    /\ lockedBy[e] # NoOne
    /\ e \notin Held(lockedBy[e]) \/ lockAge[e] > LockTimeout
Offered(e) == status[e] \in {"absent", "pending"}

AttemptsDue(e) == attempts[e] + Cardinality(Failing(e)) + One(Stray(e))
CopiesDue(e) ==
    Copies(e) + Cardinality(Sending(e)) + Cardinality(Returning(e))
        + One(Offered(e)) + One(Stray(e))

Account ==
    \A e \in Events :
        /\ IsFiniteSet(Failing(e)) /\ IsFiniteSet(Sending(e)) /\ IsFiniteSet(Returning(e))
        /\ AttemptsDue(e) <= faults
        /\ CopiesDue(e) <= 1 + faults

\* A worker that polls has nothing in memory, and one that is about to
\* reschedule a row has given up its own lock of it.
IdleIsEmpty == \A w \in Workers : pc[w] \in {"poll", "sweep"} => batch[w] = {}
GaveUpLock == \A w \in Workers : pc[w] = "reschedule" => lockedBy[cur[w]] # w

AccountInv == TypeInv /\ IdleIsEmpty /\ GaveUpLock /\ Account

LEMMA OneType == ASSUME NEW b \in BOOLEAN PROVE One(b) \in 0..1
BY DEF One

\* A step of one worker moves at most that worker into or out of a set.
LEMMA OneMoves ==
    ASSUME NEW S, NEW T, NEW w, IsFiniteSet(S), S \ {w} = T \ {w}
    PROVE  /\ IsFiniteSet(T) /\ Cardinality(S) \in Nat /\ Cardinality(T) \in Nat
           /\ Cardinality(T) + One(w \in S) = Cardinality(S) + One(w \in T)
<1>1. Cardinality(S) \in Nat
  BY FS_CardinalityType
<1>2. CASE w \in T <=> w \in S
  <2>1. S = T
    BY <1>2
  <2>2. One(w \in S) = One(w \in T) /\ One(w \in T) \in Int
    BY <2>1 DEF One
  <2> QED
    BY <1>1, <2>1, <2>2
<1>3. CASE w \in T /\ w \notin S
  <2>1. T = S \cup {w}
    BY <1>3
  <2>2. IsFiniteSet(T) /\ Cardinality(T) = Cardinality(S) + 1
    BY <1>3, <2>1, FS_AddElement
  <2> QED
    BY <1>1, <1>3, <2>2 DEF One
<1>4. CASE w \notin T /\ w \in S
  <2>1. T = S \ {w}
    BY <1>4
  <2>2. IsFiniteSet(T) /\ Cardinality(T) = Cardinality(S) - 1
    BY <1>4, <2>1, FS_RemoveElement
  <2>3. Cardinality(T) \in Nat
    BY <2>2, FS_CardinalityType
  <2> QED
    BY <1>1, <1>4, <2>2, <2>3 DEF One
<1> QED
  BY <1>2, <1>3, <1>4

\* The log grows by copies of what is appended.
LEMMA CopiesGrow ==
    ASSUME log \in Seq(Events), NEW e \in Events, NEW x \in Events
    PROVE  /\ Copies(e) \in Nat
           /\ log' = log => Copies(e)' = Copies(e)
           /\ log' = Append(log, x) => Copies(e)' = Copies(e) + One(x = e)
<1> DEFINE C == {i \in DOMAIN log : log[i] = e}
<1>1. DOMAIN log = 1..Len(log) /\ Len(log) \in Nat
  OBVIOUS
<1>2. IsFiniteSet(1..Len(log))
  BY <1>1, FS_Interval
<1>3. C \in SUBSET (1..Len(log))
  BY <1>1
<1>4. IsFiniteSet(C) /\ Cardinality(C) \in Nat
  BY <1>2, <1>3, FS_Subset, FS_CardinalityType
<1>5. ASSUME log' = Append(log, x)
      PROVE  Copies(e)' = Copies(e) + One(x = e)
  <2>1. /\ DOMAIN log' = 1..Len(log) + 1 /\ log'[Len(log) + 1] = x
        /\ \A i \in 1..Len(log) : log'[i] = log[i]
    BY <1>1, <1>5
  <2>2. {i \in DOMAIN log' : log'[i] = e} = IF x = e THEN C \cup {Len(log) + 1} ELSE C
    BY <1>1, <2>1
  <2>3. Len(log) + 1 \notin C
    BY <1>1
  <2> HIDE DEF C
  <2>4. CASE x = e
    BY <1>4, <2>2, <2>3, <2>4, FS_AddElement DEF Copies, C, One
  <2>5. CASE x # e
    <3>1. Copies(e)' = Cardinality(C)
      BY <2>2, <2>5 DEF Copies
    <3>2. Copies(e) = Cardinality(C) /\ One(x = e) = 0
      BY <2>5 DEF Copies, C, One
    <3> QED
      BY <1>4, <3>1, <3>2
  <2> QED
    BY <2>4, <2>5
<1>6. log' = log => Copies(e)' = Copies(e)
  BY DEF Copies
<1> QED
  BY <1>4, <1>5, <1>6 DEF Copies

\* What a step of worker w must do to the parts of the account that are not
\* those of other workers.
Paid(w, e) ==
    /\ attempts'[e] + One(w \in Failing(e)') + One(Stray(e)')
         <= attempts[e] + One(w \in Failing(e)) + One(Stray(e)) + (faults' - faults)
    /\ Copies(e)' + One(w \in Sending(e)') + One(w \in Returning(e)')
                  + One(Offered(e)') + One(Stray(e)')
         <= Copies(e) + One(w \in Sending(e)) + One(w \in Returning(e))
                      + One(Offered(e)) + One(Stray(e)) + (faults' - faults)

OthersIdle(w) ==
    \A v \in Workers \ {w} : pc'[v] = pc[v] /\ batch'[v] = batch[v] /\ cur'[v] = cur[v]

LEMMA AccountKept ==
    ASSUME TypeInv, TypeInv', Account, NEW w \in Workers, OthersIdle(w),
           log' = log \/ \E x \in Events : log' = Append(log, x),
           \A e \in Events : Paid(w, e)
    PROVE  Account'
<1> SUFFICES ASSUME NEW e \in Events
             PROVE  /\ IsFiniteSet(Failing(e))' /\ IsFiniteSet(Sending(e))'
                    /\ IsFiniteSet(Returning(e))'
                    /\ AttemptsDue(e)' <= faults' /\ CopiesDue(e)' <= 1 + faults'
  BY DEF Account
<1>1. /\ Failing(e)' \ {w} = Failing(e) \ {w}
      /\ Sending(e)' \ {w} = Sending(e) \ {w}
      /\ Returning(e)' \ {w} = Returning(e) \ {w}
  BY DEF OthersIdle, Failing, Sending, Returning
<1>2. /\ IsFiniteSet(Failing(e)) /\ IsFiniteSet(Sending(e)) /\ IsFiniteSet(Returning(e))
      /\ AttemptsDue(e) <= faults /\ CopiesDue(e) <= 1 + faults
  BY DEF Account
<1>3. PICK F, S, R : F = Failing(e)' /\ S = Sending(e)' /\ R = Returning(e)'
  OBVIOUS
<1>4. PICK f \in Nat, f1 \in Nat, d \in Int, d1 \in Int :
          /\ f = Cardinality(Failing(e)) /\ f1 = Cardinality(Failing(e))' /\ IsFiniteSet(F)
          /\ d = One(w \in Failing(e)) /\ d1 = One(w \in Failing(e))' /\ f1 + d = f + d1
  <2>1. /\ IsFiniteSet(F) /\ Cardinality(Failing(e)) \in Nat /\ Cardinality(F) \in Nat
        /\ Cardinality(F) + One(w \in Failing(e)) = Cardinality(Failing(e)) + One(w \in F)
    BY <1>1, <1>2, <1>3, OneMoves
  <2>2. One(w \in Failing(e)) \in Int /\ One(w \in F) \in Int
    BY DEF One
  <2> QED
    BY <1>3, <2>1, <2>2
<1>5. PICK s \in Nat, s1 \in Nat, h \in Int, h1 \in Int :
          /\ s = Cardinality(Sending(e)) /\ s1 = Cardinality(Sending(e))' /\ IsFiniteSet(S)
          /\ h = One(w \in Sending(e)) /\ h1 = One(w \in Sending(e))' /\ s1 + h = s + h1
  <2>1. /\ IsFiniteSet(S) /\ Cardinality(Sending(e)) \in Nat /\ Cardinality(S) \in Nat
        /\ Cardinality(S) + One(w \in Sending(e)) = Cardinality(Sending(e)) + One(w \in S)
    BY <1>1, <1>2, <1>3, OneMoves
  <2>2. One(w \in Sending(e)) \in Int /\ One(w \in S) \in Int
    BY DEF One
  <2> QED
    BY <1>3, <2>1, <2>2
<1>6. PICK r \in Nat, r1 \in Nat, g \in Int, g1 \in Int :
          /\ r = Cardinality(Returning(e)) /\ r1 = Cardinality(Returning(e))' /\ IsFiniteSet(R)
          /\ g = One(w \in Returning(e)) /\ g1 = One(w \in Returning(e))' /\ r1 + g = r + g1
  <2>1. /\ IsFiniteSet(R) /\ Cardinality(Returning(e)) \in Nat /\ Cardinality(R) \in Nat
        /\ Cardinality(R) + One(w \in Returning(e)) = Cardinality(Returning(e)) + One(w \in R)
    BY <1>1, <1>2, <1>3, OneMoves
  <2>2. One(w \in Returning(e)) \in Int /\ One(w \in R) \in Int
    BY DEF One
  <2> QED
    BY <1>3, <2>1, <2>2
<1>7. PICK c \in Nat, c1 \in Int : c = Copies(e) /\ c1 = Copies(e)'
  <2>1. log \in Seq(Events)
    BY DEF TypeInv, TypeOK
  <2>2. One(FALSE) \in Int /\ One(TRUE) \in Int
    BY DEF One
  <2>3. Copies(e) \in Nat
    BY <2>1, CopiesGrow
  <2>4. ASSUME NEW x \in Events, log' = Append(log, x) PROVE Copies(e)' \in Int
    <3>1. Copies(e)' = Copies(e) + One(x = e)
      BY <2>1, <2>4, CopiesGrow
    <3>2. One(x = e) \in Int
      BY DEF One
    <3> QED
      BY <2>3, <3>1, <3>2
  <2>5. log' = log => Copies(e)' = Copies(e)
    BY <2>1, CopiesGrow
  <2> QED
    BY <2>3, <2>4, <2>5
<1>8. PICK t \in Int, t1 \in Int, o \in Int, o1 \in Int :
          /\ t = One(Stray(e)) /\ t1 = One(Stray(e))'
          /\ o = One(Offered(e)) /\ o1 = One(Offered(e))'
  BY DEF One
<1>9. PICK a \in Nat, a1 \in Nat, q \in Nat, q1 \in Nat :
          a = attempts[e] /\ a1 = attempts'[e] /\ q = faults /\ q1 = faults'
  BY DEF TypeInv, TypeOK
<1>10. a1 + d1 + t1 <= a + d + t + (q1 - q)
  BY <1>4, <1>8, <1>9 DEF Paid
<1>11. c1 + h1 + g1 + o1 + t1 <= c + h + g + o + t + (q1 - q)
  BY <1>5, <1>6, <1>7, <1>8, <1>9 DEF Paid
<1>12. a + f + t <= q /\ c + s + r + o + t <= 1 + q
  BY <1>2, <1>4, <1>5, <1>6, <1>7, <1>8, <1>9 DEF AttemptsDue, CopiesDue
<1>13. a1 + f1 + t1 <= q1 /\ c1 + s1 + r1 + o1 + t1 <= 1 + q1
  <2>1. f1 + d = f + d1 /\ s1 + h = s + h1 /\ r1 + g = r + g1
    BY <1>4, <1>5, <1>6
  <2>2. a1 + f1 + t1 <= q1
    BY <2>1, <1>10, <1>12
  <2>3. (c1 + h1 + g1) + (o1 + t1) <= (c + h + g) + (o + t) + (q1 - q)
    BY <1>11
  <2>4. c1 + (s1 - s) + (r1 - r) + (o1 + t1) <= c + (o + t) + (q1 - q)
    BY <2>1, <2>3
  <2>5. c1 + s1 + r1 + o1 + t1 <= 1 + q1
    BY <2>4, <1>12
  <2> QED
    BY <2>2, <2>5
<1>14. AttemptsDue(e)' <= faults'
  BY <1>4, <1>8, <1>9, <1>13 DEF AttemptsDue
<1>15. CopiesDue(e)' <= 1 + faults'
  BY <1>5, <1>6, <1>7, <1>8, <1>9, <1>13 DEF CopiesDue
<1>16. /\ IsFiniteSet(Failing(e))' /\ IsFiniteSet(Sending(e))'
       /\ IsFiniteSet(Returning(e))'
  BY <1>3, <1>4, <1>5, <1>6, Zenon
<1> QED
  BY <1>14, <1>15, <1>16

\* A lock that the step leaves alone becomes stray only if its holder lets go
\* of the event.
LEMMA StrayKept ==
    ASSUME TypeInv, NEW w \in Workers, OthersIdle(w), NEW e \in Events,
           lockedBy'[e] = lockedBy[e], lockAge'[e] = lockAge[e],
           lockedBy[e] = w /\ e \in Held(w) => e \in Held(w)'
    PROVE  Stray(e)' => Stray(e)
<1>1. lockedBy[e] \in Workers \cup {NoOne}
  BY DEF TypeInv, TypeOK
<1>2. CASE lockedBy[e] = w
  BY <1>2 DEF Stray
<1>3. CASE lockedBy[e] \in Workers \ {w}
  <2>2. PICK v \in Workers \ {w} : v = lockedBy[e]
    BY <1>3
  <2>3. Held(v)' = Held(v)
    BY <2>2 DEF OthersIdle, Held
  <2>4. lockedBy'[e] = v
    BY <2>2
  <2> QED
    BY <2>2, <2>3, <2>4 DEF Stray
<1>4. CASE lockedBy[e] = NoOne
  BY <1>4 DEF Stray
<1> QED
  BY <1>1, <1>2, <1>3, <1>4

\* The other workers keep what they are known to do.
LEMMA OthersKeep ==
    ASSUME TypeInv, IdleIsEmpty, GaveUpLock, NEW w \in Workers, OthersIdle(w),
           \A e \in Events : lockedBy'[e] \in {lockedBy[e], w, NoOne},
           pc'[w] \in {"poll", "sweep"} => batch'[w] = {},
           pc'[w] = "reschedule" => lockedBy'[cur'[w]] # w
    PROVE  IdleIsEmpty' /\ GaveUpLock'
<1>1. ASSUME NEW v \in Workers
      PROVE  /\ pc'[v] \in {"poll", "sweep"} => batch'[v] = {}
             /\ pc'[v] = "reschedule" => lockedBy'[cur'[v]] # v
  <2>1. CASE v = w
    BY <2>1
  <2>2. CASE v # w
    <3>1. pc'[v] = pc[v] /\ batch'[v] = batch[v] /\ cur'[v] = cur[v]
      BY <2>2 DEF OthersIdle
    <3>2. pc[v] = "reschedule" => cur[v] \in Events
      BY DEF TypeInv, TypeOK, BusyHasEvent, Busy
    <3>3. NoOne # v
      BY OutboxAssumption DEF OutboxAssumption
    <3> QED
      BY <2>2, <3>1, <3>2, <3>3 DEF IdleIsEmpty, GaveUpLock
  <2> QED
    BY <2>1, <2>2
<1> QED
  BY <1>1 DEF IdleIsEmpty, GaveUpLock

LEMMA AccountInit == Init => AccountInv
<1> SUFFICES ASSUME Init PROVE AccountInv
  OBVIOUS
<1>1. TypeInv
  BY TypeInit
<1>2. IdleIsEmpty /\ GaveUpLock
  BY OutboxAssumption DEF OutboxAssumption, Init, IdleIsEmpty, GaveUpLock
<1>3. ASSUME NEW e \in Events
      PROVE  /\ Failing(e) = {} /\ Sending(e) = {} /\ Returning(e) = {}
             /\ Copies(e) = 0 /\ attempts[e] = 0 /\ ~Stray(e) /\ Offered(e) /\ faults = 0
  <2>1. Failing(e) = {} /\ Sending(e) = {} /\ Returning(e) = {}
    BY DEF Init, Failing, Sending, Returning
  <2>2. {i \in DOMAIN log : log[i] = e} = {}
    BY DEF Init
  <2>3. Copies(e) = 0
    BY <2>2, FS_EmptySet DEF Copies
  <2> QED
    BY <2>1, <2>3 DEF Init, Stray, Offered
<1>4. ASSUME NEW e \in Events
      PROVE  /\ IsFiniteSet(Failing(e)) /\ IsFiniteSet(Sending(e)) /\ IsFiniteSet(Returning(e))
             /\ AttemptsDue(e) <= faults /\ CopiesDue(e) <= 1 + faults
  <2>1. IsFiniteSet(Failing(e)) /\ IsFiniteSet(Sending(e)) /\ IsFiniteSet(Returning(e))
    BY <1>3, FS_EmptySet, Zenon
  <2>2. Cardinality(Failing(e)) = 0 /\ Cardinality(Sending(e)) = 0 /\ Cardinality(Returning(e)) = 0
    BY <1>3, FS_EmptySet, Zenon
  <2>3. One(Stray(e)) = 0 /\ One(Offered(e)) = 1
    BY <1>3 DEF One
  <2> QED
    BY <1>3, <2>1, <2>2, <2>3 DEF AttemptsDue, CopiesDue
<1> QED
  BY <1>1, <1>2, <1>4 DEF AccountInv, Account

LEMMA AccountStep == AccountInv /\ [Next]_vars => AccountInv'
<1> SUFFICES ASSUME AccountInv, [Next]_vars PROVE AccountInv'
  OBVIOUS
<1>0. TypeInv' /\ TypeInv /\ IdleIsEmpty /\ GaveUpLock /\ Account
  BY TypeStep DEF AccountInv
<1>t. /\ status \in [Events -> Status] /\ attempts \in [Events -> Nat]
      /\ lockedBy \in [Events -> Workers \cup {NoOne}] /\ lockAge \in [Events -> Nat]
      /\ pc \in [Workers -> PC] /\ batch \in [Workers -> SUBSET Events]
      /\ cur \in [Workers -> Events \cup {NoEvent}] /\ seen \in [Workers -> Nat]
      /\ log \in Seq(Events) /\ faults \in Nat
      /\ \A w \in Workers : Busy(w) <=> cur[w] # NoEvent
      /\ NoOne \notin Workers /\ NoEvent \notin Events /\ LockTimeout \in Nat \ {0}
  BY <1>0, OutboxAssumption DEF OutboxAssumption, TypeInv, TypeOK, BusyHasEvent
<1>c. ASSUME NEW e \in Events
      PROVE  Copies(e) \in Nat /\ (log' = log => Copies(e)' = Copies(e))
  BY <1>t, <1>c, CopiesGrow
\* Nothing but a lock changes the debts of a step in which no worker moves.
<1>1. CASE Write
  <2>1. PICK S \in SUBSET Events : Insert(S)
    BY <1>1 DEF Write
  <2>2. IdleIsEmpty' /\ GaveUpLock'
    BY <1>0, <1>1, <2>1 DEF Write, Insert, locals, IdleIsEmpty, GaveUpLock
  <2>3. ASSUME NEW e \in Events
        PROVE  /\ Failing(e)' = Failing(e) /\ Sending(e)' = Sending(e)
               /\ Returning(e)' = Returning(e) /\ (Stray(e)' <=> Stray(e))
    <3>1. UNCHANGED <<pc, batch, cur, lockedBy, lockAge>>
      BY <1>1, <2>1 DEF Write, Insert, locals
    <3> QED
      BY <3>1 DEF Failing, Sending, Returning, Stray, Held
  <2>4. ASSUME NEW e \in Events
        PROVE  /\ (Offered(e)' <=> Offered(e))
               /\ Copies(e)' = Copies(e) /\ attempts'[e] = attempts[e] /\ faults' = faults
    BY <1>t, <1>c, <1>1, <2>1 DEF Write, Insert, Offered
  <2>5. Account'
    <3> SUFFICES ASSUME NEW e \in Events
                 PROVE  /\ IsFiniteSet(Failing(e))' /\ IsFiniteSet(Sending(e))'
                        /\ IsFiniteSet(Returning(e))'
                        /\ AttemptsDue(e)' <= faults' /\ CopiesDue(e)' <= 1 + faults'
      BY DEF Account
    <3>1. /\ IsFiniteSet(Failing(e)) /\ IsFiniteSet(Sending(e)) /\ IsFiniteSet(Returning(e))
          /\ AttemptsDue(e) <= faults /\ CopiesDue(e) <= 1 + faults
      BY <1>0 DEF Account
    <3>2. One(Stray(e))' = One(Stray(e)) /\ One(Offered(e))' = One(Offered(e))
      BY <2>3, <2>4 DEF One
    <3>3. AttemptsDue(e)' = AttemptsDue(e) /\ CopiesDue(e)' = CopiesDue(e)
      BY <2>3, <2>4, <3>2 DEF AttemptsDue, CopiesDue
    <3> QED
      BY <2>3, <2>4, <3>1, <3>3
  <2> QED
    BY <1>0, <2>2, <2>5 DEF AccountInv
\* Time makes locks stray that are held no more, or one that outlives its
\* worker, which is a failure.
<1>2. CASE Tick
  <2>1. UNCHANGED <<status, attempts, lockedBy, pc, batch, cur, log>>
    BY <1>2 DEF Tick, locals
  <2>2. IdleIsEmpty' /\ GaveUpLock'
    BY <1>0, <2>1 DEF IdleIsEmpty, GaveUpLock
  <2>3. ASSUME NEW e \in Events
        PROVE  /\ Failing(e)' = Failing(e) /\ Sending(e)' = Sending(e)
               /\ Returning(e)' = Returning(e) /\ (Offered(e)' <=> Offered(e))
               /\ Copies(e)' = Copies(e) /\ attempts'[e] = attempts[e]
    BY <1>c, <2>1 DEF Failing, Sending, Returning, Offered
  <2>4. ASSUME NEW e \in Events
        PROVE  faults' >= faults /\ (Stray(e)' /\ ~Stray(e) => faults' = faults + 1)
    <3>1. faults' = faults \/ faults' = faults + 1
      BY <1>2 DEF Tick, Fault
    <3>2. ASSUME Stray(e)', ~Stray(e) PROVE Overdue
      <4>1. PICK v \in Workers : v = lockedBy[e]
        BY <1>t, <2>1, <3>2 DEF Stray
      <4>2. e \in Held(v) /\ ~(lockAge[e] > LockTimeout)
        BY <1>t, <3>2, <4>1 DEF Stray
      <4>3. e \in Held(v)'
        BY <2>1, <4>2 DEF Held
      <4>4. lockAge'[e] > LockTimeout
        BY <2>1, <3>2, <4>1, <4>3 DEF Stray
      <4>5. lockAge[e] = LockTimeout
        BY <1>t, <1>2, <4>1, <4>2, <4>4 DEF Tick
      <4> QED
        BY <1>t, <4>1, <4>2, <4>5 DEF Overdue
    <3>3. Overdue => faults' = faults + 1
      BY <1>2 DEF Tick, Fault
    <3> QED
      BY <1>t, <3>1, <3>2, <3>3
  <2>5. Account'
    <3> SUFFICES ASSUME NEW e \in Events
                 PROVE  /\ IsFiniteSet(Failing(e))' /\ IsFiniteSet(Sending(e))'
                        /\ IsFiniteSet(Returning(e))'
                        /\ AttemptsDue(e)' <= faults' /\ CopiesDue(e)' <= 1 + faults'
      BY DEF Account
    <3>1. /\ IsFiniteSet(Failing(e)) /\ IsFiniteSet(Sending(e)) /\ IsFiniteSet(Returning(e))
          /\ AttemptsDue(e) <= faults /\ CopiesDue(e) <= 1 + faults
      BY <1>0 DEF Account
    <3>2. PICK t \in Int, t1 \in Int, o \in Int :
             /\ t = One(Stray(e)) /\ t1 = One(Stray(e))'
             /\ o = One(Offered(e)) /\ o = One(Offered(e))'
      BY <2>3 DEF One
    <3>b. t1 <= t + (faults' - faults)
      <4>1. PICK p \in Nat, p1 \in Nat : p = faults /\ p1 = faults'
        BY <1>0 DEF TypeInv, TypeOK
      <4>2. CASE Stray(e)' /\ ~Stray(e)
        <5>1. t = 0 /\ t1 = 1 /\ p1 = p + 1
          BY <2>4, <3>2, <4>1, <4>2 DEF One
        <5> QED
          BY <4>1, <5>1
      <4>3. CASE ~(Stray(e)' /\ ~Stray(e))
        <5>1. t1 <= t /\ p1 >= p
          BY <2>4, <3>2, <4>1, <4>3 DEF One
        <5>2. t1 <= t + (p1 - p)
          BY <5>1
        <5> QED
          BY <4>1, <5>2
      <4> QED
        BY <4>2, <4>3
    <3>3. PICK f \in Nat, s \in Nat, r \in Nat, c \in Nat, a \in Nat :
             /\ f = Cardinality(Failing(e)) /\ s = Cardinality(Sending(e))
             /\ r = Cardinality(Returning(e)) /\ c = Copies(e) /\ a = attempts[e]
      BY <1>t, <1>c, <3>1, FS_CardinalityType
    <3>4. a + f + t <= faults /\ c + s + r + o + t <= 1 + faults
      BY <3>1, <3>2, <3>3 DEF AttemptsDue, CopiesDue
    <3>5. a + f + t1 <= faults' /\ c + s + r + o + t1 <= 1 + faults'
      <4>1. PICK p \in Nat, p1 \in Nat : p = faults /\ p1 = faults'
        BY <1>0 DEF TypeInv, TypeOK
      <4>2. PICK k \in Int, m \in Int : k = c + s + r + o /\ m = a + f
        OBVIOUS
      <4>3. t1 <= t + (p1 - p) /\ m + t <= p /\ k + t <= 1 + p
        BY <3>b, <3>4, <4>1, <4>2
      <4>4. m + t1 <= p1 /\ k + t1 <= 1 + p1
        BY <4>3
      <4> QED
        BY <4>1, <4>2, <4>4
    <3>6. AttemptsDue(e)' <= faults' /\ CopiesDue(e)' <= 1 + faults'
      BY <2>3, <3>2, <3>3, <3>5 DEF AttemptsDue, CopiesDue
    <3> QED
      BY <2>3, <3>1, <3>6
  <2> QED
    BY <1>0, <2>2, <2>5 DEF AccountInv
<1>3. ASSUME NEW w \in Workers, Claim(w) PROVE AccountInv'
  <2>1. PICK B \in Batches :
            /\ ClaimRows(w, B)
            /\ batch' = [batch EXCEPT ![w] = B]
            /\ pc' = [pc EXCEPT ![w] = IF B = {} THEN "sweep" ELSE "batch"]
    BY <1>3 DEF Claim
  <2>2. /\ B \in SUBSET Claimable /\ pc[w] = "poll" /\ batch[w] = {} /\ cur[w] = NoEvent
        /\ UNCHANGED <<cur, log, faults, attempts>>
    BY <1>0, <1>t, <1>3, <2>1 DEF Claim, ClaimRows, Batches, IdleIsEmpty, Busy
  <2>3. /\ \A e \in B : lockedBy'[e] = w /\ lockAge'[e] = 0 /\ status'[e] = "publishing"
        /\ \A e \in Events \ B : /\ lockedBy'[e] = lockedBy[e] /\ lockAge'[e] = lockAge[e]
                                 /\ status'[e] = status[e]
    BY <1>t, <2>1, <2>2 DEF ClaimRows, Claimable
  <2>4. /\ OthersIdle(w) /\ batch'[w] = B /\ pc'[w] \in {"sweep", "batch"}
        /\ pc'[w] = "sweep" => B = {}
    BY <1>t, <2>1, <2>2 DEF OthersIdle
  <2>5. IdleIsEmpty' /\ GaveUpLock'
    <3>1. \A e \in Events : lockedBy'[e] \in {lockedBy[e], w, NoOne}
      BY <2>3
    <3> QED
      BY <1>0, <2>4, <3>1, OthersKeep
  <2>6. ASSUME NEW e \in Events PROVE Paid(w, e)
    <3>1. /\ w \notin Failing(e) /\ w \notin Failing(e)'
          /\ w \notin Returning(e) /\ w \notin Returning(e)'
          /\ w \notin Sending(e) /\ (w \in Sending(e)' <=> e \in B)
      BY <1>t, <2>2, <2>4 DEF Failing, Returning, Sending
    <3>2. CASE e \in B
      <4>1. ~Stray(e)' /\ Offered(e) /\ ~Offered(e)'
        BY <1>t, <2>2, <2>3, <2>4, <3>2 DEF Stray, Held, Offered, Claimable
      <4> QED
        BY <1>t, <1>c, <2>2, <3>1, <3>2, <4>1 DEF Paid, One
    <3>3. CASE e \notin B
      <4>1. Offered(e)' <=> Offered(e)
        BY <2>3, <3>3 DEF Offered
      <4>2. Stray(e)' => Stray(e)
        <5>1. e \notin Held(w)
          BY <1>t, <2>2 DEF Held
        <5> QED
          BY <1>0, <2>3, <2>4, <3>3, <5>1, StrayKept
      <4> QED
        BY <1>t, <1>c, <2>2, <3>1, <3>3, <4>1, <4>2 DEF Paid, One
    <3> QED
      BY <3>2, <3>3
  <2> QED
    BY <1>0, <2>2, <2>4, <2>5, <2>6, AccountKept DEF AccountInv
<1>4. ASSUME NEW w \in Workers, ClaimLost(w) PROVE AccountInv'
  <2>1. PICK B \in Batches : ClaimRows(w, B)
    BY <1>4 DEF ClaimLost
  <2>2. /\ B \in SUBSET Claimable /\ pc[w] = "poll" /\ batch[w] = {} /\ cur[w] = NoEvent
        /\ UNCHANGED <<pc, batch, cur, log, attempts>> /\ faults' = faults + 1
    BY <1>0, <1>t, <1>4, <2>1
    DEF ClaimLost, ClaimRows, Batches, IdleIsEmpty, Busy, Fault, locals
  <2>3. /\ \A e \in B : lockedBy'[e] = w /\ status'[e] = "publishing"
        /\ \A e \in Events \ B : /\ lockedBy'[e] = lockedBy[e] /\ lockAge'[e] = lockAge[e]
                                 /\ status'[e] = status[e]
    BY <1>t, <2>1, <2>2 DEF ClaimRows, Claimable
  <2>4. OthersIdle(w)
    BY <2>2 DEF OthersIdle
  <2>5. IdleIsEmpty' /\ GaveUpLock'
    <3>1. \A e \in Events : lockedBy'[e] \in {lockedBy[e], w, NoOne}
      BY <2>3
    <3> QED
      BY <1>0, <2>2, <2>4, <3>1, OthersKeep
  <2>6. ASSUME NEW e \in Events PROVE Paid(w, e)
    <3>1. /\ w \notin Failing(e) /\ w \notin Failing(e)'
          /\ w \notin Returning(e) /\ w \notin Returning(e)'
          /\ w \notin Sending(e) /\ w \notin Sending(e)'
      BY <1>t, <2>2 DEF Failing, Returning, Sending
    <3>2. CASE e \in B
      <4>1. Offered(e) /\ ~Offered(e)'
        BY <1>t, <2>2, <2>3, <3>2 DEF Offered, Claimable
      <4> QED
        BY <1>t, <1>c, <2>2, <3>1, <3>2, <4>1 DEF Paid, One
    <3>3. CASE e \notin B
      <4>1. Offered(e)' <=> Offered(e)
        BY <2>3, <3>3 DEF Offered
      <4>2. Stray(e)' => Stray(e)
        <5>1. e \notin Held(w)
          BY <1>t, <2>2 DEF Held
        <5> QED
          BY <1>0, <2>3, <2>4, <3>3, <5>1, StrayKept
      <4> QED
        BY <1>t, <1>c, <2>2, <3>1, <3>3, <4>1, <4>2 DEF Paid, One
    <3> QED
      BY <3>2, <3>3
  <2> QED
    BY <1>0, <2>2, <2>4, <2>5, <2>6, AccountKept DEF AccountInv
\* A send takes the copy from what is due, and makes the next one due with a
\* failure.
<1>5. ASSUME NEW w \in Workers, NEW x \in Events, SendAcked(w, x) PROVE AccountInv'
  <2>1. /\ pc[w] = "batch" /\ x \in batch[w] /\ cur[w] = NoEvent /\ log' = Append(log, x)
        /\ batch' = [batch EXCEPT ![w] = @ \ {x}] /\ cur' = [cur EXCEPT ![w] = x]
        /\ pc' = [pc EXCEPT ![w] = "mark"]
        /\ UNCHANGED <<status, attempts, lockedBy, lockAge, faults>>
    BY <1>t, <1>5 DEF SendAcked, rows, Busy
  <2>2. /\ pc'[w] = "mark" /\ batch'[w] = batch[w] \ {x} /\ cur'[w] = x
        /\ OthersIdle(w)
    BY <1>t, <2>1 DEF OthersIdle
  <2>3. IdleIsEmpty' /\ GaveUpLock'
    BY <1>0, <2>1, <2>2, OthersKeep
  <2>4. ASSUME NEW e \in Events PROVE Paid(w, e)
    <3>1. /\ w \notin Failing(e) /\ w \notin Failing(e)'
          /\ w \notin Returning(e) /\ w \notin Returning(e)'
          /\ (w \in Sending(e) <=> e \in batch[w])
          /\ (w \in Sending(e)' <=> (e \in batch[w] /\ e # x))
      BY <1>t, <2>1, <2>2 DEF Failing, Returning, Sending
    <3>2. Held(w)' = Held(w)
      BY <1>t, <2>1, <2>2 DEF Held
    <3>3. (Stray(e)' => Stray(e)) /\ (Offered(e)' <=> Offered(e))
      BY <1>0, <2>1, <2>2, <3>2, StrayKept DEF Offered
    <3>4. Copies(e)' = Copies(e) + One(x = e) /\ Copies(e) \in Nat
      BY <1>t, <2>1, CopiesGrow
    <3> QED
      BY <1>t, <2>1, <3>1, <3>3, <3>4 DEF Paid, One
  <2> QED
    BY <1>0, <2>1, <2>2, <2>3, <2>4, AccountKept DEF AccountInv
<1>6. ASSUME NEW w \in Workers, NEW x \in Events, SendFails(w, x) PROVE AccountInv'
  <2>1. /\ pc[w] = "batch" /\ x \in batch[w] /\ cur[w] = NoEvent
        /\ log' = log \/ log' = Append(log, x)
        /\ batch' = [batch EXCEPT ![w] = @ \ {x}] /\ cur' = [cur EXCEPT ![w] = x]
        /\ pc' = [pc EXCEPT ![w] = "fail"] /\ faults' = faults + 1
        /\ UNCHANGED <<status, attempts, lockedBy, lockAge>>
    BY <1>t, <1>6 DEF SendFails, rows, Busy, Fault
  <2>2. /\ pc'[w] = "fail" /\ batch'[w] = batch[w] \ {x} /\ cur'[w] = x
        /\ OthersIdle(w)
    BY <1>t, <2>1 DEF OthersIdle
  <2>3. IdleIsEmpty' /\ GaveUpLock'
    BY <1>0, <2>1, <2>2, OthersKeep
  <2>4. ASSUME NEW e \in Events PROVE Paid(w, e)
    <3>1. /\ w \notin Failing(e) /\ (w \in Failing(e)' <=> x = e)
          /\ w \notin Returning(e) /\ (w \in Returning(e)' <=> x = e)
          /\ (w \in Sending(e) <=> e \in batch[w])
          /\ (w \in Sending(e)' <=> (e \in batch[w] /\ e # x))
      BY <1>t, <2>1, <2>2 DEF Failing, Returning, Sending
    <3>2. Held(w)' = Held(w)
      BY <1>t, <2>1, <2>2 DEF Held
    <3>3. (Stray(e)' => Stray(e)) /\ (Offered(e)' <=> Offered(e))
      BY <1>0, <2>1, <2>2, <3>2, StrayKept DEF Offered
    <3>4. /\ Copies(e) \in Nat
          /\ Copies(e)' = Copies(e) \/ Copies(e)' = Copies(e) + One(x = e)
      BY <1>t, <2>1, CopiesGrow
    <3>5. CASE x = e
      BY <1>t, <2>1, <3>1, <3>3, <3>4, <3>5 DEF Paid, One
    <3>6. CASE x # e
      BY SMTT(60), <1>t, <2>1, <3>1, <3>3, <3>4, <3>6 DEF Paid, One
    <3> QED
      BY <3>5, <3>6
  <2> QED
    BY <1>0, <2>1, <2>2, <2>3, <2>4, AccountKept DEF AccountInv
\* What a worker learns of its own event: the row of the event it lets go of is
\* locked by it no more.
<1>7. ASSUME NEW w \in Workers, MarkPublished(w) PROVE AccountInv'
  <2>1. PICK x \in Events : x = cur[w]
    BY <1>t, <1>7 DEF MarkPublished, Busy
  <2>2. /\ pc[w] = "mark" /\ SetPublished(x) /\ NextEvent(w)
        /\ UNCHANGED <<attempts, batch, log, faults>>
    BY <1>7, <2>1 DEF MarkPublished, SetPublished, NextEvent
  <2>3. /\ pc'[w] \in {"sweep", "batch"} /\ cur'[w] = NoEvent /\ OthersIdle(w)
        /\ pc'[w] = "sweep" => batch'[w] = {}
    BY <1>t, <2>2 DEF NextEvent, OthersIdle
  <2>4. /\ lockedBy'[x] = NoOne /\ status'[x] = "published"
        /\ \A e \in Events \ {x} : /\ lockedBy'[e] = lockedBy[e] /\ lockAge'[e] = lockAge[e]
                                   /\ status'[e] = status[e]
    BY <1>t, <2>2 DEF SetPublished
  <2>5. IdleIsEmpty' /\ GaveUpLock'
    <3>1. \A e \in Events : lockedBy'[e] \in {lockedBy[e], w, NoOne}
      BY <2>4
    <3> QED
      BY <1>0, <2>3, <3>1, OthersKeep
  <2>6. ASSUME NEW e \in Events PROVE Paid(w, e)
    <3>1. /\ w \notin Failing(e) /\ w \notin Failing(e)'
          /\ w \notin Returning(e) /\ w \notin Returning(e)'
          /\ (w \in Sending(e)' <=> w \in Sending(e))
      BY <1>t, <2>2, <2>3 DEF Failing, Returning, Sending
    <3>2. CASE e = x
      <4>1. ~Stray(e)' /\ ~Offered(e)'
        BY <2>4, <3>2 DEF Stray, Offered
      <4> QED
        BY <1>t, <1>c, <2>2, <3>1, <4>1 DEF Paid, One
    <3>3. CASE e # x
      <4>1. e \in Held(w) => e \in Held(w)'
        BY <1>t, <2>1, <2>2, <3>3 DEF Held
      <4>2. (Stray(e)' => Stray(e)) /\ (Offered(e)' <=> Offered(e))
        BY <1>0, <2>3, <2>4, <3>3, <4>1, StrayKept DEF Offered
      <4> QED
        BY <1>t, <1>c, <2>2, <3>1, <4>2 DEF Paid, One
    <3> QED
      BY <3>2, <3>3
  <2> QED
    BY <1>0, <2>2, <2>3, <2>5, <2>6, AccountKept DEF AccountInv
<1>8. ASSUME NEW w \in Workers, MarkPublishedFails(w) PROVE AccountInv'
  <2>1. PICK x \in Events : x = cur[w]
    BY <1>t, <1>8 DEF MarkPublishedFails, Busy
  <2>2. /\ pc[w] = "mark" /\ (SetPublished(x) \/ UNCHANGED rows)
        /\ pc' = [pc EXCEPT ![w] = "fail"] /\ faults' = faults + 1
        /\ UNCHANGED <<attempts, batch, cur, log>>
    BY <1>8, <2>1 DEF MarkPublishedFails, SetPublished, Fault, rows
  <2>3. pc'[w] = "fail" /\ OthersIdle(w) /\ Held(w)' = Held(w)
    BY <1>t, <2>2 DEF OthersIdle, Held
  <2>4. ASSUME NEW e \in Events
        PROVE  \/ e = x /\ lockedBy'[e] = NoOne /\ status'[e] = "published"
               \/ lockedBy'[e] = lockedBy[e] /\ lockAge'[e] = lockAge[e] /\ status'[e] = status[e]
    BY <1>t, <2>2 DEF SetPublished, rows
  <2>5. IdleIsEmpty' /\ GaveUpLock'
    <3>1. \A e \in Events : lockedBy'[e] \in {lockedBy[e], w, NoOne}
      BY <2>4
    <3> QED
      BY <1>0, <2>3, <3>1, OthersKeep
  <2>6. ASSUME NEW e \in Events PROVE Paid(w, e)
    <3>1. /\ w \notin Failing(e) /\ (w \in Failing(e)' <=> x = e)
          /\ w \notin Returning(e) /\ (w \in Returning(e)' <=> x = e)
          /\ (w \in Sending(e)' <=> w \in Sending(e))
      BY <1>t, <2>1, <2>2, <2>3 DEF Failing, Returning, Sending
    <3>2. (Stray(e)' => Stray(e)) /\ (Offered(e)' => Offered(e))
      <4>1. CASE lockedBy'[e] = NoOne /\ status'[e] = "published"
        BY <4>1 DEF Stray, Offered
      <4>2. CASE lockedBy'[e] = lockedBy[e] /\ lockAge'[e] = lockAge[e] /\ status'[e] = status[e]
        BY <1>0, <2>3, <4>2, StrayKept DEF Offered
      <4> QED
        BY <2>4, <4>1, <4>2
    <3>3. CASE x = e
      BY <1>t, <1>c, <2>2, <3>1, <3>2, <3>3 DEF Paid, One
    <3>4. CASE x # e
      BY SMTT(60), <1>t, <1>c, <2>2, <3>1, <3>2, <3>4 DEF Paid, One
    <3> QED
      BY <3>3, <3>4
  <2> QED
    BY <1>0, <2>2, <2>3, <2>5, <2>6, AccountKept DEF AccountInv
<1>9. ASSUME NEW w \in Workers, MarkFailed(w) PROVE AccountInv'
  <2>1. PICK x \in Events : x = cur[w]
    BY <1>t, <1>9 DEF MarkFailed, Busy
  <2>2. /\ pc[w] = "fail" /\ CountFailure(x) /\ pc' = [pc EXCEPT ![w] = "reschedule"]
        /\ UNCHANGED <<status, batch, cur, log, faults>>
    BY <1>9, <2>1 DEF MarkFailed, CountFailure
  <2>3. pc'[w] = "reschedule" /\ OthersIdle(w) /\ Held(w)' = Held(w)
    BY <1>t, <2>2 DEF OthersIdle, Held
  <2>4. /\ lockedBy'[x] = NoOne /\ attempts'[x] = attempts[x] + 1
        /\ \A e \in Events \ {x} : /\ lockedBy'[e] = lockedBy[e] /\ lockAge'[e] = lockAge[e]
                                   /\ attempts'[e] = attempts[e]
    BY <1>t, <2>2 DEF CountFailure
  <2>5. IdleIsEmpty' /\ GaveUpLock'
    <3>1. \A e \in Events : lockedBy'[e] \in {lockedBy[e], w, NoOne}
      BY <2>4
    <3>2. lockedBy'[cur'[w]] # w
      BY <1>t, <2>1, <2>2, <2>4
    <3> QED
      BY <1>0, <2>3, <3>1, <3>2, OthersKeep
  <2>6. ASSUME NEW e \in Events PROVE Paid(w, e)
    <3>1. /\ (w \in Failing(e) <=> x = e) /\ w \notin Failing(e)'
          /\ (w \in Returning(e)' <=> w \in Returning(e))
          /\ (w \in Sending(e)' <=> w \in Sending(e))
      BY <1>t, <2>1, <2>2, <2>3 DEF Failing, Returning, Sending
    <3>2. Offered(e)' <=> Offered(e)
      BY <2>2 DEF Offered
    <3>3. CASE e = x
      <4>1. ~Stray(e)'
        BY <2>4, <3>3 DEF Stray
      <4> QED
        BY <1>t, <1>c, <2>2, <2>4, <3>1, <3>2, <3>3, <4>1 DEF Paid, One
    <3>4. CASE e # x
      <4>1. Stray(e)' => Stray(e)
        BY <1>0, <2>3, <2>4, <3>4, StrayKept
      <4> QED
        BY SMTT(60), <1>t, <1>c, <2>2, <2>4, <3>1, <3>2, <3>4, <4>1 DEF Paid, One
    <3> QED
      BY <3>3, <3>4
  <2> QED
    BY <1>0, <2>2, <2>3, <2>5, <2>6, AccountKept DEF AccountInv
<1>10. ASSUME NEW w \in Workers, MarkFailedReschedule(w) PROVE AccountInv'
  <2>1. PICK x \in Events : x = cur[w]
    BY <1>t, <1>10 DEF MarkFailedReschedule, Busy
  <2>2. /\ pc[w] = "reschedule" /\ Reschedule(x, seen[w]) /\ NextEvent(w)
        /\ UNCHANGED <<attempts, lockedBy, lockAge, batch, log, faults>>
    BY <1>10, <2>1 DEF MarkFailedReschedule, Reschedule, NextEvent
  <2>3. /\ pc'[w] \in {"sweep", "batch"} /\ cur'[w] = NoEvent /\ OthersIdle(w)
        /\ pc'[w] = "sweep" => batch'[w] = {}
    BY <1>t, <2>2 DEF NextEvent, OthersIdle
  <2>4. \A e \in Events \ {x} : status'[e] = status[e]
    BY <1>t, <2>2 DEF Reschedule
  <2>5. IdleIsEmpty' /\ GaveUpLock'
    BY <1>0, <2>2, <2>3, OthersKeep
  <2>6. ASSUME NEW e \in Events PROVE Paid(w, e)
    <3>1. /\ w \notin Failing(e) /\ w \notin Failing(e)'
          /\ (w \in Returning(e) <=> x = e) /\ w \notin Returning(e)'
          /\ (w \in Sending(e)' <=> w \in Sending(e))
      BY <1>t, <2>1, <2>2, <2>3 DEF Failing, Returning, Sending
    <3>2. lockedBy[e] = w /\ e \in Held(w) => e \in Held(w)'
      <4>1. lockedBy[x] # w
        BY <1>0, <2>1, <2>2 DEF GaveUpLock
      <4> QED
        BY <1>t, <2>1, <2>2, <4>1 DEF Held
    <3>3. Stray(e)' => Stray(e)
      BY <1>0, <2>2, <2>3, <3>2, StrayKept
    <3>4. e # x => (Offered(e)' <=> Offered(e))
      BY <2>4 DEF Offered
    <3> QED
      BY SMTT(60), <1>t, <1>c, <2>2, <3>1, <3>3, <3>4 DEF Paid, One
  <2> QED
    BY <1>0, <2>2, <2>3, <2>5, <2>6, AccountKept DEF AccountInv
\* A worker that dies or gives up leaves the locks of what it held, which is a
\* failure.
<1>11. ASSUME NEW w \in Workers, MarkFailedFails(w) PROVE AccountInv'
  <2>1. PICK x \in Events : x = cur[w]
    BY <1>t, <1>11 DEF MarkFailedFails, Busy
  <2>2. /\ \/ pc[w] = "fail" /\ CountFailure(x)
           \/ pc[w] = "reschedule" /\ Reschedule(x, seen[w])
           \/ pc[w] \in {"fail", "reschedule"} /\ UNCHANGED rows
        /\ BackToPoll(w) /\ log' = log /\ faults' = faults + 1
    BY <1>11, <2>1 DEF MarkFailedFails, Fault
  <2>3. pc'[w] = "poll" /\ cur'[w] = NoEvent /\ batch'[w] = {} /\ OthersIdle(w)
    BY <1>t, <2>2 DEF BackToPoll, OthersIdle
  <2>4. ASSUME NEW e \in Events
        PROVE  \/ /\ attempts'[e] = attempts[e] /\ status'[e] = status[e]
                  /\ lockedBy'[e] = lockedBy[e]
               \/ /\ pc[w] = "fail" /\ e = x
                  /\ attempts'[e] = attempts[e] + 1 /\ status'[e] = status[e]
                  /\ lockedBy'[e] = NoOne
               \/ /\ pc[w] = "reschedule" /\ e = x
                  /\ attempts'[e] = attempts[e] /\ lockedBy'[e] = lockedBy[e]
    BY <1>t, <2>2 DEF CountFailure, Reschedule, rows
  <2>5. IdleIsEmpty' /\ GaveUpLock'
    <3>1. \A e \in Events : lockedBy'[e] \in {lockedBy[e], w, NoOne}
      BY <2>4
    <3> QED
      BY <1>0, <2>3, <3>1, OthersKeep
  <2>6. ASSUME NEW e \in Events PROVE Paid(w, e)
    <3>1. /\ (w \in Failing(e) <=> (x = e /\ pc[w] = "fail")) /\ w \notin Failing(e)'
          /\ (w \in Returning(e) <=> x = e) /\ w \notin Returning(e)'
          /\ w \notin Sending(e)'
      BY <1>t, <2>1, <2>2, <2>3 DEF Failing, Returning, Sending
    <3>2. CASE /\ attempts'[e] = attempts[e] /\ status'[e] = status[e]
      <4>1. Offered(e)' <=> Offered(e)
        BY <3>2 DEF Offered
      <4>2. One(Offered(e))' = One(Offered(e)) /\ One(Offered(e)) \in 0..1
        BY <4>1 DEF One
      <4>3. /\ One(w \in Failing(e)') = 0 /\ One(w \in Returning(e)') = 0
            /\ One(w \in Sending(e)') = 0 /\ One(w \in Failing(e)) \in 0..1
            /\ One(w \in Returning(e)) \in 0..1 /\ One(w \in Sending(e)) \in 0..1
            /\ One(Stray(e)) \in 0..1 /\ One(Stray(e))' \in 0..1
        BY <3>1 DEF One
      <4>4. PICK a \in Nat, c \in Nat, p \in Nat :
                /\ a = attempts[e] /\ a = attempts'[e] /\ c = Copies(e) /\ c = Copies(e)'
                /\ p = faults /\ faults' = p + 1
        BY <1>t, <1>c, <2>2, <3>2
      <4>5. PICK s \in 0..1, t \in 0..1 : s = One(Stray(e)) /\ t = One(Stray(e))'
        BY <4>3
      <4>6. a + 0 + t <= a + One(w \in Failing(e)) + s + (p + 1) - p
        BY <4>3, <4>4, <4>5
      <4>7. PICK o \in 0..1, m \in 0..1, r \in 0..1 :
                /\ o = One(Offered(e)) /\ o = One(Offered(e))'
                /\ m = One(w \in Sending(e)) /\ r = One(w \in Returning(e))
        BY <4>2, <4>3
      <4>8. c + 0 + 0 + o + t <= c + m + r + o + s + (p + 1) - p
        BY <4>4, <4>5, <4>7
      <4> QED
        BY <4>3, <4>4, <4>5, <4>6, <4>7, <4>8 DEF Paid
    <3>3. CASE /\ pc[w] = "fail" /\ e = x
               /\ attempts'[e] = attempts[e] + 1 /\ status'[e] = status[e]
               /\ lockedBy'[e] = NoOne
      <4>1. (Offered(e)' <=> Offered(e)) /\ ~Stray(e)'
        BY <3>3 DEF Offered, Stray
      <4> QED
        BY <1>t, <1>c, <2>2, <3>1, <3>3, <4>1 DEF Paid, One
    <3>4. CASE pc[w] = "reschedule" /\ e = x /\ attempts'[e] = attempts[e]
      BY <1>t, <1>c, <2>2, <3>1, <3>4 DEF Paid, One
    <3> QED
      BY <2>4, <3>2, <3>3, <3>4
  <2> QED
    BY <1>0, <2>2, <2>3, <2>5, <2>6, AccountKept DEF AccountInv
\* The sweep turns a stray lock into an attempt and an offer.
<1>s. ASSUME NEW w \in Workers, pc[w] = "sweep", BackToPoll(w), log' = log,
             ReleaseStuckLocks \/ UNCHANGED rows,
             faults' = faults \/ faults' = faults + 1
      PROVE  AccountInv'
  <2>1. batch[w] = {} /\ cur[w] = NoEvent
    BY <1>0, <1>t, <1>s DEF IdleIsEmpty, Busy
  <2>2. /\ pc'[w] = "poll" /\ cur'[w] = NoEvent /\ batch'[w] = {} /\ OthersIdle(w)
        /\ Held(w)' = Held(w)
    BY <1>t, <1>s, <2>1 DEF BackToPoll, OthersIdle, Held
  <2>3. ASSUME NEW e \in Events
        PROVE  \/ /\ attempts'[e] = attempts[e] /\ status'[e] = status[e]
                  /\ lockedBy'[e] = lockedBy[e] /\ lockAge'[e] = lockAge[e]
               \/ /\ attempts'[e] = attempts[e] + 1 /\ lockedBy'[e] = NoOne
                  /\ e \in Stuck
    BY <1>t, <1>s DEF ReleaseStuckLocks, rows
  <2>4. IdleIsEmpty' /\ GaveUpLock'
    <3>1. \A e \in Events : lockedBy'[e] \in {lockedBy[e], w, NoOne}
      BY <2>3
    <3> QED
      BY <1>0, <2>2, <3>1, OthersKeep
  <2>5. ASSUME NEW e \in Events PROVE Paid(w, e)
    <3>1. /\ w \notin Failing(e) /\ w \notin Failing(e)'
          /\ w \notin Returning(e) /\ w \notin Returning(e)'
          /\ w \notin Sending(e) /\ w \notin Sending(e)'
      BY <1>t, <2>1, <2>2 DEF Failing, Returning, Sending
    <3>2. CASE /\ attempts'[e] = attempts[e] /\ status'[e] = status[e]
               /\ lockedBy'[e] = lockedBy[e] /\ lockAge'[e] = lockAge[e]
      <4>1. (Offered(e)' <=> Offered(e)) /\ (Stray(e)' => Stray(e))
        BY <1>0, <2>2, <3>2, StrayKept DEF Offered
      <4> QED
        BY <1>t, <1>c, <1>s, <3>1, <3>2, <4>1 DEF Paid, One
    <3>3. CASE attempts'[e] = attempts[e] + 1 /\ lockedBy'[e] = NoOne /\ e \in Stuck
      <4>1. Stray(e) /\ ~Stray(e)' /\ ~Offered(e)
        BY <3>3 DEF Stray, Stuck, Offered
      <4> QED
        BY <1>t, <1>c, <1>s, <3>1, <3>3, <4>1 DEF Paid, One
    <3> QED
      BY <2>3, <3>2, <3>3
  <2> QED
    BY <1>0, <1>s, <2>2, <2>4, <2>5, AccountKept DEF AccountInv
<1>12. ASSUME NEW w \in Workers, Sweep(w) PROVE AccountInv'
  BY <1>12, <1>s DEF Sweep
<1>13. ASSUME NEW w \in Workers, SweepFails(w) PROVE AccountInv'
  BY <1>13, <1>s DEF SweepFails, Fault
<1>14. ASSUME NEW w \in Workers, Crash(w) PROVE AccountInv'
  <2>1. /\ BackToPoll(w) /\ log' = log /\ faults' = faults + 1
        /\ UNCHANGED <<status, attempts, lockedBy>>
    BY <1>14 DEF Crash, Fault, rows
  <2>2. pc'[w] = "poll" /\ cur'[w] = NoEvent /\ batch'[w] = {} /\ OthersIdle(w)
    BY <1>t, <2>1 DEF BackToPoll, OthersIdle
  <2>3. IdleIsEmpty' /\ GaveUpLock'
    BY <1>0, <2>1, <2>2, OthersKeep
  <2>4. ASSUME NEW e \in Events PROVE Paid(w, e)
    <3>1. w \notin Failing(e)' /\ w \notin Returning(e)' /\ w \notin Sending(e)'
      BY <1>t, <2>2 DEF Failing, Returning, Sending
    <3>2. Offered(e)' <=> Offered(e)
      BY <2>1 DEF Offered
    <3> QED
      BY <1>t, <1>c, <2>1, <3>1, <3>2 DEF Paid, One
  <2> QED
    BY <1>0, <2>1, <2>2, <2>3, <2>4, AccountKept DEF AccountInv
<1>15. CASE UNCHANGED vars
  <2>1. UNCHANGED <<status, attempts, lockedBy, lockAge, pc, batch, cur, log, faults>>
    BY <1>15 DEF vars
  <2>2. IdleIsEmpty' /\ GaveUpLock'
    BY <1>0, <2>1 DEF IdleIsEmpty, GaveUpLock
  <2>3. ASSUME NEW e \in Events
        PROVE  /\ Failing(e)' = Failing(e) /\ Sending(e)' = Sending(e)
               /\ Returning(e)' = Returning(e) /\ AttemptsDue(e)' = AttemptsDue(e)
               /\ CopiesDue(e)' = CopiesDue(e)
    BY <2>1 DEF Failing, Sending, Returning, Stray, Held, Offered, Copies, AttemptsDue, CopiesDue
  <2>4. Account'
    BY <1>0, <2>1, <2>3 DEF Account
  <2> QED
    BY <1>0, <2>2, <2>4 DEF AccountInv
<1> QED
  BY <1>1, <1>2, <1>3, <1>4, <1>5, <1>6, <1>7, <1>8, <1>9, <1>10, <1>11, <1>12,
     <1>13, <1>14, <1>15 DEF Next, WorkerStep, WorkerFault

\* Every attempt that is counted on a row, and every copy of an event beyond
\* its first, is the trace of a failure of its own: of no crash, lost answer,
\* failed send or outlived lock does an event make two, however the workers,
\* the sweeps and the two statements of mark_failed interleave (outbox.rs,
\* outbox_publisher.rs).
THEOREM FailuresAreAccounted == Spec => []FailuresAccount
<1>1. AccountInv => FailuresAccount
  <2> SUFFICES ASSUME AccountInv, NEW e \in Events
               PROVE  attempts[e] <= faults /\ Copies(e) <= 1 + faults
    BY DEF FailuresAccount, AttemptsEarned, CopiesBounded
  <2>1. PICK a \in Nat, q \in Nat, c \in Nat : a = attempts[e] /\ q = faults /\ c = Copies(e)
    BY CopiesGrow DEF AccountInv, TypeInv, TypeOK
  <2>2. PICK f \in Nat, s \in Nat, r \in Nat :
            /\ f = Cardinality(Failing(e)) /\ s = Cardinality(Sending(e))
            /\ r = Cardinality(Returning(e))
    BY FS_CardinalityType DEF AccountInv, Account
  <2>3. PICK t \in Nat, o \in Nat : t = One(Stray(e)) /\ o = One(Offered(e))
    BY DEF One
  <2>4. a + f + t <= q /\ c + s + r + o + t <= 1 + q
    BY <2>1, <2>2, <2>3 DEF AccountInv, Account, AttemptsDue, CopiesDue
  <2> QED
    BY <2>1, <2>4
<1> QED
  BY <1>1, AccountInit, AccountStep, PTL DEF Spec
=============================================================================
