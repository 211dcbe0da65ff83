--------------------------- MODULE CircuitBreaker ---------------------------
(***************************************************************************)
(* packages/storage/src/circuit_breaker.rs: the breaker every Memgraph,    *)
(* Qdrant and Redis call of the platform goes through.                     *)
(*                                                                         *)
(* A breaker is five atomics and no lock.  One step is one load, store or  *)
(* fetch_add of one caller, so that the transitions of several callers,    *)
(* three or four stores each, interleave in every way.  Steps take effect  *)
(* in one global order.                                                    *)
(***************************************************************************)
EXTENDS Integers, Sequences, FiniteSets

CONSTANTS
    Callers,           \* tasks that share the breaker
    FailureThreshold,  \* CircuitBreakerConfig.failure_threshold
    SuccessThreshold,  \* CircuitBreakerConfig.success_threshold
    HalfOpenRequests,  \* CircuitBreakerConfig.half_open_requests
    WordSize,          \* number of values of an AtomicU32
    MaxErrors,         \* bound on the operations that fail
    MaxDrops           \* bound on the calls dropped by a timeout

ASSUME CircuitBreakerAssumption ==
    /\ FailureThreshold \in Nat \ {0}
    /\ SuccessThreshold \in Nat \ {0}
    /\ HalfOpenRequests \in Nat \ {0}
    /\ WordSize \in Nat
    /\ HalfOpenRequests < WordSize
    /\ FailureThreshold < WordSize
    /\ SuccessThreshold < WordSize
    /\ MaxErrors \in Nat
    /\ MaxDrops \in Nat

VARIABLES
    \* The atomics; of last_failure_time, whether timeout_ms has passed since.
    state, failures, successes, calls, elapsed,
    \* Where each caller is in call(), and the writes it has yet to issue.
    pc, todo,
    \* Callers that read the clock before the last store of
    \* last_failure_time and have not loaded it yet.
    behind,
    \* How many operations have failed, how many calls were dropped; whether a
    \* success was counted since the breaker was last made half-open.
    errors, drops, proven

atomics == <<state, failures, successes, calls, elapsed, proven>>
vars == <<state, failures, successes, calls, elapsed,
          pc, todo, behind, errors, drops, proven>>

State == {"Closed", "Open", "HalfOpen"}

\* Where a caller stands in call(): outside; clock read, last_failure_time
\* not loaded; before the fetch_add of half_open_calls; in a transition to
\* half-open; in operation.await; about to load the state in on_success or
\* on_failure; before the fetch_add of success_count or failure_count;
\* issuing its last writes.
PC == {"idle", "check", "enter", "probe", "run", "ok", "err",
       "countSuccess", "countFailure", "write"}

\* The stores of the three transitions, in their order.
ToOpen     == <<"open", "stamp", "noFailures", "noSuccesses">>
ToHalfOpen == <<"halfOpen", "noSuccesses", "noCalls">>
ToClosed   == <<"closed", "noFailures", "noSuccesses", "noCalls">>
Writes == {"open", "halfOpen", "closed", "stamp", "noFailures", "noSuccesses",
           "noCalls", "leave"}

Init ==
    /\ state = "Closed"
    /\ failures = 0
    /\ successes = 0
    /\ calls = 0
    /\ elapsed = TRUE
    /\ pc = [c \in Callers |-> "idle"]
    /\ todo = [c \in Callers |-> <<>>]
    /\ behind = {}
    /\ errors = 0
    /\ drops = 0
    /\ proven = FALSE

-----------------------------------------------------------------------------
(* The steps of caller c.                                                  *)

\* half_open_calls.fetch_sub(1).
Fewer == (calls - 1) % WordSize

Goto(c, l) == pc' = [pc EXCEPT ![c] = l]

\* c goes on to issue the writes s, and to l while it does.
Issue(c, l, s) ==
    /\ Goto(c, l)
    /\ todo' = [todo EXCEPT ![c] = s]

\* call() loads the state, and reads the clock when it is Open.
Look(c) ==
    /\ pc[c] = "idle"
    /\ Goto(c, CASE state = "Closed"   -> "run"
                 [] state = "Open"     -> "check"
                 [] state = "HalfOpen" -> "enter")
    /\ UNCHANGED <<atomics, todo, behind, errors, drops>>

\* now - last_failure >= timeout_ms, in u64: a caller whose clock reading is
\* older than last_failure_time wraps around and sees the timeout elapsed.
\* Within one millisecond the two are equal, so it may also see it pending.
TimedOut(c) == elapsed \/ c \in behind
Pending     == ~elapsed

CheckElapsed(c) ==
    /\ pc[c] = "check"
    /\ TimedOut(c)
    /\ Issue(c, "probe", ToHalfOpen)
    /\ behind' = behind \ {c}
    /\ UNCHANGED <<atomics, errors, drops>>

CheckRejects(c) ==
    /\ pc[c] = "check"
    /\ Pending
    /\ Goto(c, "idle")
    /\ behind' = behind \ {c}
    /\ UNCHANGED <<atomics, todo, errors, drops>>

\* Half-open: the call counts itself, and takes itself out again when there
\* are enough without it.
Enter(c) ==
    /\ pc[c] = "enter"
    /\ calls' = (calls + 1) % WordSize
    /\ IF calls >= HalfOpenRequests
       THEN Issue(c, "write", <<"leave">>)
       ELSE Goto(c, "run") /\ UNCHANGED todo
    /\ UNCHANGED <<state, failures, successes, elapsed, behind, errors, drops, proven>>

Succeed(c) ==
    /\ pc[c] = "run"
    /\ Goto(c, "ok")
    /\ UNCHANGED <<atomics, todo, behind, errors, drops>>

Fail(c) ==
    /\ pc[c] = "run"
    /\ errors < MaxErrors
    /\ errors' = errors + 1
    /\ Goto(c, "err")
    /\ UNCHANGED <<atomics, todo, behind, drops>>

\* The timeout of with_resilience drops the future in its only await: none
\* of on_success and on_failure runs.
Drop(c) ==
    /\ pc[c] = "run"
    /\ drops < MaxDrops
    /\ drops' = drops + 1
    /\ Goto(c, "idle")
    /\ UNCHANGED <<atomics, todo, behind, errors>>

\* on_success loads the state, which may have changed since the call began.
OnSuccess(c) ==
    /\ pc[c] = "ok"
    /\ \/ state = "HalfOpen" /\ Goto(c, "countSuccess") /\ UNCHANGED todo
       \/ state = "Closed" /\ Issue(c, "write", <<"noFailures">>)
       \/ state = "Open" /\ Issue(c, "write", <<"leave">>)
    /\ UNCHANGED <<atomics, behind, errors, drops>>

\* Mutant: one success too many is asked for.
CountSuccessMore(c) ==
    /\ pc[c] = "countSuccess"
    /\ successes' = (successes + 1) % WordSize /\ proven' = TRUE
    /\ Issue(c, "write", IF successes' > SuccessThreshold
                         THEN <<"leave">> \o ToClosed ELSE <<"leave">>)
    /\ UNCHANGED <<state, failures, calls, elapsed, behind, errors, drops>>

CountSuccess(c) ==
    /\ pc[c] = "countSuccess"
    /\ successes' = (successes + 1) % WordSize /\ proven' = TRUE
    /\ Issue(c, "write", IF successes' >= SuccessThreshold
                         THEN <<"leave">> \o ToClosed ELSE <<"leave">>)
    /\ UNCHANGED <<state, failures, calls, elapsed, behind, errors, drops>>

\* Mutant: a failed probe leaves without reopening the circuit.
OnFailureStays(c) ==
    /\ pc[c] = "err"
    /\ \/ state = "HalfOpen" /\ Issue(c, "write", <<"leave">>)
       \/ state = "Closed" /\ Goto(c, "countFailure") /\ UNCHANGED todo
       \/ state = "Open" /\ Issue(c, "write", <<"stamp">>)
    /\ UNCHANGED <<atomics, behind, errors, drops>>

OnFailure(c) ==
    /\ pc[c] = "err"
    /\ \/ state = "HalfOpen" /\ Issue(c, "write", <<"leave">> \o ToOpen)
       \/ state = "Closed" /\ Goto(c, "countFailure") /\ UNCHANGED todo
       \/ state = "Open" /\ Issue(c, "write", <<"stamp">>)
    /\ UNCHANGED <<atomics, behind, errors, drops>>

\* Mutant: the threshold is missed by one.
CountFailureLate(c) ==
    /\ pc[c] = "countFailure"
    /\ failures' = (failures + 1) % WordSize
    /\ IF failures' > FailureThreshold
       THEN Issue(c, "write", ToOpen)
       ELSE Goto(c, "idle") /\ UNCHANGED todo
    /\ UNCHANGED <<state, successes, calls, elapsed, behind, errors, drops, proven>>

CountFailure(c) ==
    /\ pc[c] = "countFailure"
    /\ failures' = (failures + 1) % WordSize
    /\ IF failures' >= FailureThreshold
       THEN Issue(c, "write", ToOpen)
       ELSE Goto(c, "idle") /\ UNCHANGED todo
    /\ UNCHANGED <<state, successes, calls, elapsed, behind, errors, drops, proven>>

\* The next write of c; its last one ends the call, or begins the operation
\* of the caller that made the breaker half-open.
Write(c) ==
    /\ pc[c] \in {"probe", "write"}
    /\ LET x == Head(todo[c]) IN
       /\ state' = CASE x = "open"     -> "Open"
                     [] x = "halfOpen" -> "HalfOpen"
                     [] x = "closed"   -> "Closed"
                     [] OTHER          -> state
       /\ failures'  = IF x = "noFailures" THEN 0 ELSE failures
       /\ successes' = IF x = "noSuccesses" THEN 0 ELSE successes
       /\ calls' = CASE x = "noCalls" -> 0
                     [] x = "leave"   -> Fewer
                     [] OTHER         -> calls
       /\ elapsed' = IF x = "stamp" THEN FALSE ELSE elapsed
       /\ proven' = (proven /\ x # "halfOpen")
       /\ behind'  = IF x = "stamp" THEN {d \in Callers : pc[d] = "check"} ELSE behind
    /\ todo' = [todo EXCEPT ![c] = Tail(@)]
    /\ Goto(c, IF Len(todo[c]) > 1 THEN pc[c]
               ELSE IF pc[c] = "probe" THEN "run" ELSE "idle")
    /\ UNCHANGED <<errors, drops>>

\* timeout_ms pass without a failure.
Elapse ==
    /\ ~elapsed
    /\ elapsed' = TRUE
    /\ UNCHANGED <<state, failures, successes, calls, pc, todo, behind, errors, drops, proven>>

Step(c) ==
    \/ Look(c)
    \/ CheckElapsed(c)
    \/ CheckRejects(c)
    \/ Enter(c)
    \/ Succeed(c)
    \/ OnSuccess(c)
    \/ CountSuccess(c)
    \/ OnFailure(c)
    \/ CountFailure(c)
    \/ Write(c)

Next ==
    \/ Elapse
    \/ \E c \in Callers : Step(c) \/ Fail(c) \/ Drop(c)

Spec == Init /\ [][Next]_vars

\* Time passes, no caller stops half-way, and the platform keeps calling.
FairSpec == Spec /\ WF_vars(Elapse) /\ \A c \in Callers : WF_vars(Step(c))
-----------------------------------------------------------------------------
(* Properties.                                                             *)

TypeOK ==
    /\ state \in State
    /\ failures  \in 0..WordSize - 1
    /\ successes \in 0..WordSize - 1
    /\ calls     \in 0..WordSize - 1
    /\ elapsed \in BOOLEAN
    /\ pc \in [Callers -> PC]
    /\ todo \in [Callers -> Seq(Writes)]
    /\ behind \subseteq Callers
    /\ errors \in Nat
    /\ drops \in Nat
    /\ proven \in BOOLEAN

Quiet == \A c \in Callers : pc[c] = "idle"

\* "Number of failures before opening circuit" (line 40): when no call is in
\* flight a closed breaker has seen fewer failures in a row than it takes to
\* open it, however the counts, resets and transitions of several callers
\* interleaved.
Armed == Quiet /\ state = "Closed" => failures < FailureThreshold

\* A half-open breaker on which no success was counted yet has a call in flight,
\* which will count one or open it again, as long as no call was dropped: no
\* rejected or failed probe, and no late answer of an earlier period, leaves the
\* breaker half-open with nobody to settle it (transition_to_half_open, called
\* by the caller that goes on to be the first probe).
Probed == state = "HalfOpen" /\ ~proven /\ drops = 0 => ~Quiet

\* Once operations succeed again, and no call was dropped, the circuit closes
\* and stays closed, whatever probes, late successes and late failures of
\* earlier periods met in between.
Recovers == [](drops = 0) => <>[](state = "Closed")
=============================================================================
