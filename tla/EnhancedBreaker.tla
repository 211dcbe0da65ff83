--------------------------- MODULE EnhancedBreaker ---------------------------
(***************************************************************************)
(* The circuit breaker with a sliding window and a limit on concurrent     *)
(* calls (packages/storage/src/enhanced_circuit_breaker.rs).  Its state,   *)
(* its opening time and its window have a lock each, its counters are      *)
(* atomic: a step of a caller is what it does between two of those         *)
(* accesses.  The future of a call may be dropped at any await.            *)
(***************************************************************************)
EXTENDS Integers, FiniteSets, Functions

CONSTANTS
    Callers,
    FailurePercent,     \* failure_threshold
    SuccessThreshold, MinRequests, MaxConcurrent,
    Timeout,            \* ticks for which the circuit stays open
    WindowSize,         \* ticks for which a request counts
    MaxRecent,          \* bound: requests in the window
    MaxDrops            \* bound: dropped calls

EnhancedAssumption ==
    /\ IsFiniteSet(Callers) /\ FailurePercent \in 0 .. 100
    /\ SuccessThreshold \in Nat \ {0} /\ MinRequests \in Nat /\ MaxConcurrent \in Nat
    /\ Timeout \in Nat /\ WindowSize \in Nat \ {0}

VARIABLES
    state,       \* "closed", "open" or "halfOpen"
    opened,      \* the age of opened_at, up to Timeout; -1 for None
    successes,   \* half_open_successes
    concurrent,  \* concurrent_requests
    recent,      \* the sliding window: requests by age and outcome
    pc,          \* what each caller does next
    healthy,     \* the operations succeed from now on
    drops,
    leaked       \* dropped calls that held a slot

vars == <<state, opened, successes, concurrent, recent, pc, healthy, drops, leaked>>

Ages == 0 .. WindowSize - 1
Go(c, next) == pc' = [pc EXCEPT ![c] = next]
At(stage) == {c \in Callers : pc[c] = stage}

Init ==
    /\ state = "closed" /\ opened = -1 /\ successes = 0 /\ concurrent = 0
    /\ recent = [e \in Ages \X BOOLEAN |-> 0]
    /\ pc = [c \in Callers |-> "idle"]
    /\ healthy = FALSE /\ drops = 0 /\ leaked = 0

\* count: the window holds MaxRecent requests at most, those under way included.
Count == SumFunction(recent)
Failures == SumFunctionOnSet(recent, {<<a, FALSE>> : a \in Ages})

\* check_state reads the state.
Call(c) ==
    /\ pc[c] = "idle"
    /\ Count + Cardinality({d \in Callers : pc[d] # "idle"}) < MaxRecent
    /\ Go(c, IF state = "open" THEN "elapsed" ELSE "acquire")
    /\ UNCHANGED <<state, opened, successes, concurrent, recent, healthy, drops, leaked>>

\* check_state reads opened_at: the call is rejected before the timeout, or
\* when the circuit has been closed in the meantime.
Elapsed(c) ==
    /\ pc[c] = "elapsed"
    /\ Go(c, IF opened >= Timeout THEN "toHalfOpen" ELSE "idle")
    /\ UNCHANGED <<state, opened, successes, concurrent, recent, healthy, drops, leaked>>

\* Half open whatever the state is by now.
ToHalfOpen(c) ==
    /\ pc[c] = "toHalfOpen"
    /\ state' = "halfOpen" /\ successes' = 0
    /\ Go(c, "acquire")
    /\ UNCHANGED <<opened, concurrent, recent, healthy, drops, leaked>>

\* try_acquire adds one, and takes it back if that was too many.
Acquire(c) ==
    /\ pc[c] = "acquire"
    /\ concurrent' = concurrent + 1
    /\ Go(c, IF concurrent >= MaxConcurrent THEN "giveBack" ELSE "running")
    /\ UNCHANGED <<state, opened, successes, recent, healthy, drops, leaked>>

GiveBack(c) ==
    /\ pc[c] = "giveBack"
    /\ concurrent' = concurrent - 1
    /\ Go(c, "idle")
    /\ UNCHANGED <<state, opened, successes, recent, healthy, drops, leaked>>

\* The operation ends; its slot is free and its outcome in the window.
Finish(c, ok) ==
    /\ pc[c] = "running" /\ (healthy => ok)
    /\ concurrent' = concurrent - 1
    /\ recent' = [recent EXCEPT ![<<0, ok>>] = @ + 1]
    /\ Go(c, IF ok THEN "succeeded" ELSE "failed")
    /\ UNCHANGED <<state, opened, successes, healthy, drops, leaked>>

\* on_success reads the state.
Succeeded(c) ==
    /\ pc[c] = "succeeded"
    /\ Go(c, IF state = "halfOpen" THEN "countSuccess" ELSE "idle")
    /\ UNCHANGED <<state, opened, successes, concurrent, recent, healthy, drops, leaked>>

CountSuccess(c) ==
    /\ pc[c] = "countSuccess"
    /\ successes' = successes + 1
    /\ Go(c, IF successes + 1 >= SuccessThreshold THEN "toClosed" ELSE "idle")
    /\ UNCHANGED <<state, opened, concurrent, recent, healthy, drops, leaked>>

\* Closed whatever the state is by now.
ToClosed(c) ==
    /\ pc[c] = "toClosed"
    /\ state' = "closed" /\ opened' = -1 /\ successes' = 0
    /\ Go(c, "idle")
    /\ UNCHANGED <<concurrent, recent, healthy, drops, leaked>>

\* on_failure reads the state.
Failed(c) ==
    /\ pc[c] = "failed"
    /\ Go(c, CASE state = "closed" -> "count"
               [] state = "halfOpen" -> "toOpen"
               [] state = "open" -> "idle")
    /\ UNCHANGED <<state, opened, successes, concurrent, recent, healthy, drops, leaked>>

CountRequests(c) ==
    /\ pc[c] = "count"
    /\ Go(c, IF Count >= MinRequests THEN "rate" ELSE "idle")
    /\ UNCHANGED <<state, opened, successes, concurrent, recent, healthy, drops, leaked>>

ErrorRate(c) ==
    /\ pc[c] = "rate"
    /\ Go(c, IF (IF Count = 0 THEN 0 ELSE 100 * Failures) >= FailurePercent * Count
             THEN "toOpen" ELSE "idle")
    /\ UNCHANGED <<state, opened, successes, concurrent, recent, healthy, drops, leaked>>

\* transition_to_open as it would be if the opening time were set on closing only.
ToOpenUndated(c) ==
    /\ pc[c] = "toOpen"
    /\ state' = "open"
    /\ opened' = IF state = "closed" THEN 0 ELSE -1
    /\ Go(c, "idle")
    /\ UNCHANGED <<successes, concurrent, recent, healthy, drops, leaked>>

ToOpen(c) ==
    /\ pc[c] = "toOpen"
    /\ state' = "open"
    /\ opened' = IF state = "open" THEN opened ELSE 0
    /\ Go(c, "idle")
    /\ UNCHANGED <<successes, concurrent, recent, healthy, drops, leaked>>

\* The future of the call is dropped at an await; that of the operation leaves
\* its slot taken.
Drop(c) ==
    /\ pc[c] \notin {"idle", "giveBack", "countSuccess"} /\ drops < MaxDrops
    /\ drops' = drops + 1
    /\ leaked' = IF pc[c] = "running" THEN leaked + 1 ELSE leaked
    /\ Go(c, "idle")
    /\ UNCHANGED <<state, opened, successes, concurrent, recent, healthy>>

\* Requests age and leave the window.
Tick ==
    /\ opened' = IF opened \in 0 .. Timeout - 1 THEN opened + 1 ELSE opened
    /\ recent' = [e \in Ages \X BOOLEAN |-> IF e[1] = 0 THEN 0 ELSE recent[<<e[1] - 1, e[2]>>]]
    /\ UNCHANGED <<state, successes, concurrent, pc, healthy, drops, leaked>>

Heal ==
    /\ ~healthy /\ healthy' = TRUE
    /\ UNCHANGED <<state, opened, successes, concurrent, recent, pc, drops, leaked>>

Step(c) ==
    \/ Call(c) \/ Elapsed(c) \/ ToHalfOpen(c) \/ Acquire(c) \/ GiveBack(c)
    \/ \E ok \in BOOLEAN : Finish(c, ok)
    \/ Succeeded(c) \/ CountSuccess(c) \/ ToClosed(c)
    \/ Failed(c) \/ CountRequests(c) \/ ErrorRate(c) \/ ToOpen(c)

Next == Tick \/ Heal \/ \E c \in Callers : Step(c) \/ Drop(c)

Spec == Init /\ [][Next]_vars

-----------------------------------------------------------------------------
\* Every taken slot is that of a running call, of one that is about to give it
\* back, or of one that was dropped; and no more calls run than the limit,
\* whatever the additions and subtractions of try_acquire interleave to.
SlotsCounted ==
    /\ concurrent = Cardinality(At("running")) + Cardinality(At("giveBack")) + leaked
    /\ Cardinality(At("running")) + leaked <= MaxConcurrent

\* An open circuit knows when it was opened, so that it can be half open again.
Dated == state = "open" => opened >= 0

\* The circuit is closed, or its calls all hold slots that were leaked.
Recovered == state = "closed" \/ leaked >= MaxConcurrent
=============================================================================
