----------------------------- MODULE Resilience -----------------------------
(***************************************************************************)
(* with_resilience (packages/storage/src/resilience.rs) around calls that  *)
(* go through a bulkhead (bulkhead.rs): a timeout for each attempt, which  *)
(* drops the attempt wherever it is, and retries after a growing delay for *)
(* the errors that classify() takes for retryable, a full bulkhead among   *)
(* them.  The semaphore serves its waiters in order.                       *)
(***************************************************************************)
EXTENDS Integers, Sequences, SequencesExt, FiniteSets

CONSTANTS Callers, MaxConcurrent, MaxRetries, BaseDelay, MaxDelay

ResilienceAssumption ==
    /\ IsFiniteSet(Callers) /\ MaxConcurrent \in Nat \ {0} /\ MaxRetries \in Nat
    /\ BaseDelay \in Nat /\ MaxDelay \in Nat

VARIABLES
    permits,     \* available_permits
    waiting,     \* the queue of the semaphore
    pc,          \* "idle", "waiting", "running", "sleeping", "ok" or "failed"
    attempt,
    delay        \* what is left of the delay before the next attempt

vars == <<permits, waiting, pc, attempt, delay>>

\* What an attempt ends with, as classify() reads the message of the error.
Errors == {"connection", "timeout", "transient", "bulkhead", "circuit", "other"}
Retryable(e) == e \in {"connection", "timeout", "transient", "bulkhead"}

Running == {c \in Callers : pc[c] = "running"}

\* The delays that may follow attempt n: base * 2^(n - 1), capped; with jitter,
\* anything from 0 to that.
Backoff(n) == {d \in 0 .. MaxDelay : d <= BaseDelay * 2 ^ (n - 1)}

Init ==
    /\ permits = MaxConcurrent
    /\ waiting = <<>>
    /\ pc = [c \in Callers |-> "idle"]
    /\ attempt = [c \in Callers |-> 0]
    /\ delay = [c \in Callers |-> 0]

\* An attempt starts by asking the bulkhead for a permit.
Start(c) ==
    /\ \/ pc[c] = "idle"
       \/ pc[c] = "sleeping" /\ delay[c] = 0
    /\ attempt' = [attempt EXCEPT ![c] = @ + 1]
    /\ waiting' = Append(waiting, c)
    /\ pc' = [pc EXCEPT ![c] = "waiting"]
    /\ UNCHANGED <<permits, delay>>

Acquire(c) ==
    /\ waiting # <<>> /\ Head(waiting) = c /\ permits > 0
    /\ waiting' = Tail(waiting)
    /\ permits' = permits - 1
    /\ pc' = [pc EXCEPT ![c] = "running"]
    /\ UNCHANGED <<attempt, delay>>

\* After an attempt: the next one, once a delay has passed, or the end.
Retry(c, retryable) ==
    IF retryable /\ attempt[c] <= MaxRetries
    THEN /\ pc' = [pc EXCEPT ![c] = "sleeping"]
         /\ \E d \in Backoff(attempt[c]) : delay' = [delay EXCEPT ![c] = d]
    ELSE /\ pc' = [pc EXCEPT ![c] = "failed"]
         /\ UNCHANGED delay

\* Whoever stops waiting leaves the queue from its place.
LeaveQueue(c) ==
    \E n \in DOMAIN waiting : waiting[n] = c /\ waiting' = RemoveAt(waiting, n)

\* No permit within acquire_timeout: the bulkhead is full.
Rejected(c) ==
    /\ pc[c] = "waiting"
    /\ LeaveQueue(c)
    /\ Retry(c, Retryable("bulkhead"))
    /\ UNCHANGED <<permits, attempt>>

Succeed(c) ==
    /\ pc[c] = "running"
    /\ permits' = permits + 1
    /\ pc' = [pc EXCEPT ![c] = "ok"]
    /\ UNCHANGED <<waiting, attempt, delay>>

\* The permit is dropped with the scope of the call, on errors as on success.
Fail(c, e) ==
    /\ pc[c] = "running"
    /\ permits' = permits + 1
    /\ Retry(c, Retryable(e))
    /\ UNCHANGED <<waiting, attempt>>

\* The timeout as it would be if the permit were given back after the operation.
TimeoutForgets(c) ==
    /\ \/ pc[c] = "waiting" /\ LeaveQueue(c)
       \/ pc[c] = "running" /\ UNCHANGED waiting
    /\ Retry(c, TRUE)
    /\ UNCHANGED <<permits, attempt>>

\* The timeout of the attempt drops its future: out of the queue, or out of
\* the operation with its permit.
TimeoutElapsed(c) ==
    /\ \/ pc[c] = "waiting" /\ LeaveQueue(c) /\ UNCHANGED permits
       \/ pc[c] = "running" /\ permits' = permits + 1 /\ UNCHANGED waiting
    /\ Retry(c, TRUE)
    /\ UNCHANGED attempt

Sleep(c) ==
    /\ pc[c] = "sleeping" /\ delay[c] > 0
    /\ delay' = [delay EXCEPT ![c] = @ - 1]
    /\ UNCHANGED <<permits, waiting, pc, attempt>>

Step(c) ==
    \/ Start(c) \/ Acquire(c) \/ Rejected(c) \/ Succeed(c)
    \/ \E e \in Errors : Fail(c, e)
    \/ TimeoutElapsed(c) \/ Sleep(c)

Next == \E c \in Callers : Step(c)

Spec == Init /\ [][Next]_vars

-----------------------------------------------------------------------------
\* The permits and the running calls add up, whatever was dropped or retried,
\* so a permit is never lost nor given twice; who waits is in the queue once.
PermitsKept ==
    /\ permits + Cardinality(Running) = MaxConcurrent
    /\ \A c \in Callers : (pc[c] = "waiting") = (c \in ToSet(waiting))
    /\ \A i, j \in DOMAIN waiting : waiting[i] = waiting[j] => i = j

\* No call makes more attempts than the retries allow it.
AttemptsBounded ==
    \A c \in Callers : attempt[c] <= MaxRetries + 1 /\ delay[c] <= MaxDelay

Returned(c) == pc[c] \in {"ok", "failed"}
=============================================================================
