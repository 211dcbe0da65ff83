---------------------------- MODULE GuardsProofs ----------------------------
(***************************************************************************)
(* What holds of the components that guard the databases and the API: the  *)
(* types of CircuitBreaker and its invariants Armed and Probed, for any    *)
(* number of callers, any thresholds and any word size; and, of MCGuards,  *)
(* HeldCounted for any connections, callers, limits and times,             *)
(* StreamsKept for any log, instances, clients, filters and capacity, and  *)
(* LimitsKept for any tiers, limits, requests and instances.               *)
(***************************************************************************)
EXTENDS CircuitBreaker, MCGuards, SequenceTheorems, FiniteSetTheorems,
        WellFoundedInduction, TLAPS

\* An atomic that wraps around stays within its word.
LEMMA WordRange ==
    ASSUME NEW n \in Int
    PROVE  n % WordSize \in 0..WordSize - 1
BY CircuitBreakerAssumption DEF CircuitBreakerAssumption

LEMMA TransitionTypes ==
    /\ ToOpen \in Seq(Writes)
    /\ ToHalfOpen \in Seq(Writes)
    /\ ToClosed \in Seq(Writes)
    /\ <<"leave">> \in Seq(Writes)
    /\ <<"stamp">> \in Seq(Writes)
    /\ <<"noFailures">> \in Seq(Writes)
    /\ <<"leave">> \o ToOpen \in Seq(Writes)
    /\ <<"leave">> \o ToClosed \in Seq(Writes)
BY DEF ToOpen, ToHalfOpen, ToClosed, Writes

LEMMA TailFacts ==
    ASSUME NEW S, NEW s \in Seq(S), s # <<>>
    PROVE  /\ Tail(s) \in Seq(S)
           /\ Tail(s) # <<>> <=> Len(s) > 1
<1>1. Tail(s) \in Seq(S) /\ Len(Tail(s)) = Len(s) - 1
  BY HeadTailProperties
<1>2. Len(s) \in Nat \ {0}
  BY EmptySeq
<1>3. Tail(s) = <<>> => Len(Tail(s)) = 0
  BY EmptySeq
<1>4. Tail(s) # <<>> => Len(Tail(s)) \in Nat \ {0}
  BY <1>1, EmptySeq
<1> QED
  BY <1>1, <1>2, <1>3, <1>4

\* A caller has writes to issue exactly while it is in a transition.
TodoBusy == \A c \in Callers : todo[c] # <<>> <=> pc[c] \in {"probe", "write"}

TypeInv == TypeOK /\ TodoBusy

LEMMA TypeInit == Init => TypeInv
<1> SUFFICES ASSUME Init PROVE TypeInv
  OBVIOUS
<1>1. elapsed \in BOOLEAN /\ proven \in BOOLEAN
  BY Zenon DEF Init
<1> QED
  BY <1>1, CircuitBreakerAssumption
     DEF CircuitBreakerAssumption, Init, TypeInv, TypeOK, TodoBusy, State, PC

LEMMA TypeStep == TypeInv /\ [Next]_vars => TypeInv'
<1> SUFFICES ASSUME TypeInv, [Next]_vars PROVE TypeInv'
  OBVIOUS
<1> USE CircuitBreakerAssumption DEF CircuitBreakerAssumption, TypeInv, TypeOK, TodoBusy
\* The two ways a step moves a caller that has no writes to issue.
<1>i. ASSUME NEW c \in Callers, NEW l \in {"probe", "write"},
             NEW s \in Seq(Writes), s # <<>>, Issue(c, l, s)
      PROVE  pc' \in [Callers -> PC] /\ todo' \in [Callers -> Seq(Writes)] /\ TodoBusy'
  BY <1>i DEF Issue, Goto, PC
<1>g. ASSUME NEW c \in Callers, pc[c] \notin {"probe", "write"},
             NEW l \in PC \ {"probe", "write"}, Goto(c, l), UNCHANGED todo
      PROVE  pc' \in [Callers -> PC] /\ todo' \in [Callers -> Seq(Writes)] /\ TodoBusy'
  BY <1>g DEF Goto
<1>1. CASE Elapse
  BY <1>1 DEF Elapse
<1>2. ASSUME NEW c \in Callers, Look(c) PROVE TypeInv'
  BY <1>2 DEF Look, Goto, atomics, State, PC
<1>3. ASSUME NEW c \in Callers, CheckElapsed(c) PROVE TypeInv'
  BY <1>3, TransitionTypes DEF CheckElapsed, Issue, Goto, atomics, PC, ToHalfOpen
<1>4. ASSUME NEW c \in Callers, CheckRejects(c) PROVE TypeInv'
  BY <1>4 DEF CheckRejects, Goto, atomics, PC
<1>5. ASSUME NEW c \in Callers, Enter(c) PROVE TypeInv'
  <2>1. calls + 1 \in Int /\ calls' = (calls + 1) % WordSize
    BY <1>5 DEF Enter
  <2>2. calls' \in 0..WordSize - 1
    BY <2>1, WordRange
  <2>3. pc' \in [Callers -> PC] /\ todo' \in [Callers -> Seq(Writes)] /\ TodoBusy'
    <3>1. CASE Issue(c, "write", <<"leave">>)
      BY <1>i, <3>1, TransitionTypes
    <3>2. CASE Goto(c, "run") /\ UNCHANGED todo
      BY <1>5, <1>g, <3>2 DEF Enter, PC
    <3> QED
      BY <1>5, <3>1, <3>2 DEF Enter
  <2> QED
    BY <1>5, <2>2, <2>3 DEF Enter
<1>6. ASSUME NEW c \in Callers, Succeed(c) PROVE TypeInv'
  BY <1>6 DEF Succeed, Goto, atomics, PC
<1>7. ASSUME NEW c \in Callers, Fail(c) PROVE TypeInv'
  BY <1>7 DEF Fail, Goto, atomics, PC
<1>8. ASSUME NEW c \in Callers, Drop(c) PROVE TypeInv'
  BY <1>8 DEF Drop, Goto, atomics, PC
<1>9. ASSUME NEW c \in Callers, OnSuccess(c) PROVE TypeInv'
  <2>1. CASE Goto(c, "countSuccess") /\ UNCHANGED todo
    BY <1>9, <1>g, <2>1 DEF OnSuccess, atomics, PC
  <2>2. CASE Issue(c, "write", <<"noFailures">>)
    BY <1>9, <1>i, <2>2, TransitionTypes DEF OnSuccess, atomics
  <2>3. CASE Issue(c, "write", <<"leave">>)
    BY <1>9, <1>i, <2>3, TransitionTypes DEF OnSuccess, atomics
  <2> QED
    BY <1>9, <2>1, <2>2, <2>3 DEF OnSuccess
<1>10. ASSUME NEW c \in Callers, CountSuccess(c) PROVE TypeInv'
  <2>1. successes + 1 \in Int /\ successes' = (successes + 1) % WordSize
    BY <1>10 DEF CountSuccess
  <2>2. successes' \in 0..WordSize - 1
    BY <2>1, WordRange
  <2>3. <<"leave">> \o ToClosed # <<>>
    BY DEF ToClosed
  <2>4. PICK s \in {<<"leave">> \o ToClosed, <<"leave">>} : Issue(c, "write", s)
    BY <1>10 DEF CountSuccess
  <2>5. pc' \in [Callers -> PC] /\ todo' \in [Callers -> Seq(Writes)] /\ TodoBusy'
    BY <1>i, <2>3, <2>4, TransitionTypes
  <2> QED
    BY <1>10, <2>2, <2>5 DEF CountSuccess
<1>11. ASSUME NEW c \in Callers, OnFailure(c) PROVE TypeInv'
  <2>1. <<"leave">> \o ToOpen # <<>>
    BY DEF ToOpen
  <2>2. CASE Issue(c, "write", <<"leave">> \o ToOpen)
    BY <1>11, <1>i, <2>1, <2>2, TransitionTypes DEF OnFailure, atomics
  <2>3. CASE Goto(c, "countFailure") /\ UNCHANGED todo
    BY <1>11, <1>g, <2>3 DEF OnFailure, atomics, PC
  <2>4. CASE Issue(c, "write", <<"stamp">>)
    BY <1>11, <1>i, <2>4, TransitionTypes DEF OnFailure, atomics
  <2> QED
    BY <1>11, <2>2, <2>3, <2>4 DEF OnFailure
<1>12. ASSUME NEW c \in Callers, CountFailure(c) PROVE TypeInv'
  <2>1. failures + 1 \in Int /\ failures' = (failures + 1) % WordSize
    BY <1>12 DEF CountFailure
  <2>2. failures' \in 0..WordSize - 1
    BY <2>1, WordRange
  <2>3. CASE Issue(c, "write", ToOpen)
    <3>1. ToOpen # <<>>
      BY DEF ToOpen
    <3> QED
      BY <1>12, <1>i, <2>2, <2>3, <3>1, TransitionTypes DEF CountFailure
  <2>4. CASE Goto(c, "idle") /\ UNCHANGED todo
    BY <1>12, <1>g, <2>2, <2>4 DEF CountFailure, PC
  <2> QED
    BY <1>12, <2>3, <2>4 DEF CountFailure
<1>13. ASSUME NEW c \in Callers, Write(c) PROVE TypeInv'
  <2>1. todo[c] \in Seq(Writes) /\ todo[c] # <<>>
    BY <1>13 DEF Write
  <2>2. /\ Tail(todo[c]) \in Seq(Writes)
        /\ Tail(todo[c]) # <<>> <=> Len(todo[c]) > 1
    BY <2>1, TailFacts
  <2>3. calls' \in 0..WordSize - 1
    <3>1. Fewer \in 0..WordSize - 1
      <4>1. calls - 1 \in Int
        OBVIOUS
      <4> QED
        BY <4>1, WordRange DEF Fewer
    <3>2. calls' = 0 \/ calls' = Fewer \/ calls' = calls
      BY <1>13 DEF Write
    <3> QED
      BY <3>1, <3>2
  <2>4. /\ state' \in State
        /\ failures' \in 0..WordSize - 1
        /\ successes' \in 0..WordSize - 1
        /\ elapsed' \in BOOLEAN
        /\ behind' \subseteq Callers
        /\ errors' \in Nat
        /\ drops' \in Nat
        /\ proven' \in BOOLEAN
    <3> DEFINE x == Head(todo[c])
    <3>1. /\ state' = CASE x = "open"     -> "Open"
                         [] x = "halfOpen" -> "HalfOpen"
                         [] x = "closed"   -> "Closed"
                         [] OTHER          -> state
          /\ failures'  = IF x = "noFailures" THEN 0 ELSE failures
          /\ successes' = IF x = "noSuccesses" THEN 0 ELSE successes
          /\ elapsed' = IF x = "stamp" THEN FALSE ELSE elapsed
          /\ behind' = IF x = "stamp" THEN {d \in Callers : pc[d] = "check"} ELSE behind
          /\ errors' = errors /\ drops' = drops
          /\ proven' = (proven /\ x # "halfOpen")
      BY <1>13 DEF Write
    <3> HIDE DEF x
    <3>2. state' \in State
      BY <3>1 DEF State
    <3>3. elapsed' \in BOOLEAN /\ behind' \subseteq Callers
      BY <3>1
    <3>4. failures' \in 0..WordSize - 1 /\ successes' \in 0..WordSize - 1
      BY <3>1
    <3>5. proven' \in BOOLEAN
      BY <3>1
    <3> QED
      BY <3>1, <3>2, <3>3, <3>4, <3>5
  <2>5. todo' = [todo EXCEPT ![c] = Tail(todo[c])]
    BY <1>13 DEF Write
  <2>6. pc' = [pc EXCEPT ![c] = IF Len(todo[c]) > 1 THEN pc[c]
                                ELSE IF pc[c] = "probe" THEN "run" ELSE "idle"]
    BY <1>13 DEF Write, Goto
  <2>7. todo' \in [Callers -> Seq(Writes)]
    BY <2>2, <2>5
  <2>8. pc' \in [Callers -> PC]
    BY <2>6 DEF PC
  <2>9. TodoBusy'
    BY <1>13, <2>2, <2>5, <2>6 DEF Write
  <2> QED
    BY <2>3, <2>4, <2>7, <2>8, <2>9
<1>14. CASE UNCHANGED vars
  BY <1>14 DEF vars
<1> QED
  BY <1>1, <1>2, <1>3, <1>4, <1>5, <1>6, <1>7, <1>8, <1>9, <1>10, <1>11, <1>12,
     <1>13, <1>14 DEF Next, Step

\* Every atomic stays within its word and every caller has a place in call().
THEOREM TypeCorrect == Spec => []TypeOK
<1>1. TypeInv => TypeOK
  BY DEF TypeInv
<1> QED
  BY <1>1, TypeInit, TypeStep, PTL DEF Spec

-----------------------------------------------------------------------------
(* A breaker at rest is armed.                                             *)

HasWrite(c, x) == \E i \in 1..Len(todo[c]) : todo[c][i] = x

Owes(c) == HasWrite(c, "noFailures")

\* A count that has reached the threshold is about to be reset: whoever
\* counted the last failure has the reset of its transition still to issue.
ResetDue == failures >= FailureThreshold => \E c \in Callers : Owes(c)

ArmedInv == TypeInv /\ ResetDue

LEMMA ArmedInit == Init => ArmedInv
BY TypeInit, CircuitBreakerAssumption
   DEF CircuitBreakerAssumption, ArmedInv, Init, ResetDue

\* A write leaves the others where they were to be issued.
LEMMA WriteStays ==
    ASSUME NEW s \in Seq(Writes), s # <<>>, NEW x, Head(s) # x,
           \E i \in 1..Len(s) : s[i] = x
    PROVE  \E i \in 1..Len(Tail(s)) : Tail(s)[i] = x
<1>1. PICK i \in 1..Len(s) : s[i] = x
  OBVIOUS
<1>2. i # 1
  BY <1>1
<1>3. i - 1 \in 1..Len(Tail(s)) /\ Tail(s)[i - 1] = s[i]
  BY <1>1, <1>2
<1> QED
  BY <1>1, <1>3

LEMMA ArmedStep == ArmedInv /\ [Next]_vars => ArmedInv'
<1> SUFFICES ASSUME ArmedInv, [Next]_vars PROVE ArmedInv'
  OBVIOUS
<1>0. TypeInv'
  BY TypeStep DEF ArmedInv
<1>t. /\ todo \in [Callers -> Seq(Writes)]
      /\ pc \in [Callers -> PC]
      /\ \A c \in Callers : pc[c] \notin {"probe", "write"} => todo[c] = <<>>
      /\ \A c \in Callers : pc[c] \in {"probe", "write"} => todo[c] # <<>>
  BY DEF ArmedInv, TypeInv, TypeOK, TodoBusy
<1>r. ResetDue
  BY DEF ArmedInv
\* A step that keeps the count and only gives writes to a caller without any.
<1>k. ASSUME NEW c \in Callers, pc[c] \notin {"probe", "write"},
             failures' = failures,
             \A d \in Callers \ {c} : todo'[d] = todo[d]
      PROVE  ResetDue'
  <2>1. ~Owes(c)
    BY <1>k, <1>t DEF Owes, HasWrite
  <2>2. \A d \in Callers \ {c} : Owes(d) => Owes(d)'
    BY <1>k DEF Owes, HasWrite
  <2> QED
    BY <1>k, <1>r, <2>1, <2>2 DEF ResetDue
<1>1. CASE Elapse
  BY <1>0, <1>1, <1>r DEF Elapse, ResetDue, Owes, HasWrite, ArmedInv
<1>2. ASSUME NEW c \in Callers,
             \/ Look(c) \/ CheckElapsed(c) \/ CheckRejects(c) \/ Enter(c)
             \/ Succeed(c) \/ Fail(c) \/ Drop(c) \/ OnSuccess(c)
             \/ CountSuccess(c) \/ OnFailure(c)
      PROVE  ArmedInv'
  <2>1. pc[c] \notin {"probe", "write"} /\ failures' = failures
    BY <1>2 DEF Look, CheckElapsed, CheckRejects, Enter, Succeed, Fail, Drop,
                OnSuccess, CountSuccess, OnFailure, atomics
  <2>2. \A d \in Callers \ {c} : todo'[d] = todo[d]
    BY <1>2, <1>t DEF Look, CheckElapsed, CheckRejects, Enter, Succeed, Fail, Drop,
                OnSuccess, CountSuccess, OnFailure, Issue
  <2> QED
    BY <1>0, <1>k, <2>1, <2>2 DEF ArmedInv
<1>3. ASSUME NEW c \in Callers, CountFailure(c) PROVE ArmedInv'
  <2>1. CASE failures' >= FailureThreshold
    <3>1. todo'[c] = ToOpen
      BY <1>3, <1>t, <2>1 DEF CountFailure, Issue
    <3>2. Owes(c)'
      BY <3>1 DEF Owes, HasWrite, ToOpen
    <3> QED
      BY <1>0, <3>2 DEF ArmedInv, ResetDue
  <2>2. CASE ~(failures' >= FailureThreshold)
    BY <1>0, <2>2 DEF ArmedInv, ResetDue
  <2> QED
    BY <2>1, <2>2
<1>4. ASSUME NEW c \in Callers, Write(c) PROVE ArmedInv'
  <2>1. todo' = [todo EXCEPT ![c] = Tail(todo[c])]
    BY <1>4 DEF Write
  <2>2. todo[c] \in Seq(Writes) /\ todo[c] # <<>>
    BY <1>4, <1>t DEF Write
  <2>3. CASE Head(todo[c]) = "noFailures"
    <3>1. failures' = 0
      BY <1>4, <2>3 DEF Write
    <3> QED
      BY <1>0, <3>1, CircuitBreakerAssumption
         DEF ArmedInv, ResetDue, CircuitBreakerAssumption
  <2>4. CASE Head(todo[c]) # "noFailures"
    <3>1. failures' = failures
      BY <1>4, <2>4 DEF Write
    <3>2. Owes(c) => Owes(c)'
      <4>1. todo'[c] = Tail(todo[c])
        BY <1>t, <2>1
      <4> QED
        BY <2>2, <2>4, <4>1, WriteStays DEF Owes, HasWrite
    <3>3. \A d \in Callers \ {c} : Owes(d) => Owes(d)'
      BY <1>t, <2>1 DEF Owes, HasWrite
    <3>4. \A d \in Callers : Owes(d) => Owes(d)'
      BY <3>2, <3>3
    <3> QED
      BY <1>0, <1>r, <3>1, <3>4 DEF ArmedInv, ResetDue
  <2> QED
    BY <2>3, <2>4
<1>5. CASE UNCHANGED vars
  BY <1>0, <1>5, <1>r DEF vars, ResetDue, Owes, HasWrite, ArmedInv
<1> QED
  BY <1>1, <1>2, <1>3, <1>4, <1>5 DEF Next, Step

\* A breaker with no call in flight has counted fewer failures than it takes
\* to open it: one more failure than the threshold never goes unnoticed.
THEOREM BreakerIsArmed == Spec => []Armed
<1>1. ArmedInv => Armed
  <2> SUFFICES ASSUME ArmedInv, Quiet PROVE failures < FailureThreshold
    BY DEF Armed
  <2>1. \A c \in Callers : todo[c] = <<>>
    BY DEF ArmedInv, TypeInv, TypeOK, TodoBusy, Quiet
  <2>2. \A c \in Callers : ~Owes(c)
    BY <2>1 DEF Owes, HasWrite
  <2>3. failures \in Nat /\ FailureThreshold \in Nat
    BY CircuitBreakerAssumption
       DEF CircuitBreakerAssumption, ArmedInv, TypeInv, TypeOK
  <2> QED
    BY <2>2, <2>3 DEF ArmedInv, ResetDue
<1> QED
  BY <1>1, ArmedInit, ArmedStep, PTL DEF Spec

-----------------------------------------------------------------------------
(* A half-open breaker is being probed.                                    *)

\* A caller that goes on to count a success or to open the breaker, should it
\* find it half-open.
Settles(c) ==
    \/ pc[c] \in {"probe", "run", "ok", "err", "countSuccess"}
    \/ HasWrite(c, "open")

\* Only who goes on to probe makes the breaker half-open.
ProbeWrites == \A c \in Callers : HasWrite(c, "halfOpen") => pc[c] = "probe"

\* Nobody is gone before a success is counted or the breaker opens again.
Watched == state = "HalfOpen" /\ ~proven /\ drops = 0 => \E c \in Callers : Settles(c)

ProbedInv == TypeInv /\ ProbeWrites /\ Watched

LEMMA ProbedInit == Init => ProbedInv
<1> SUFFICES ASSUME Init PROVE ProbedInv
  OBVIOUS
<1>1. ProbeWrites
  BY DEF Init, ProbeWrites, HasWrite
<1>2. Watched
  BY DEF Init, Watched
<1> QED
  BY <1>1, <1>2, TypeInit DEF ProbedInv

\* What a caller has left to write once it has issued the first of its writes.
LEMMA WriteTail ==
    ASSUME TypeInv, NEW c \in Callers, Write(c)
    PROVE  /\ \A d \in Callers \ {c} : todo'[d] = todo[d] /\ pc'[d] = pc[d]
           /\ \A x : HasWrite(c, x)' => HasWrite(c, x)
           /\ \A x : HasWrite(c, x) /\ Head(todo[c]) # x => HasWrite(c, x)'
           /\ HasWrite(c, Head(todo[c]))
           /\ pc'[c] = pc[c] \/ (pc[c] = "probe" /\ pc'[c] = "run") \/ Tail(todo[c]) = <<>>
<1>1. todo[c] \in Seq(Writes) /\ todo[c] # <<>>
  BY DEF TypeInv, TypeOK, TodoBusy, Write
<1>2. todo' = [todo EXCEPT ![c] = Tail(todo[c])]
  BY DEF Write
<1>3. todo'[c] = Tail(todo[c])
  BY <1>2 DEF TypeInv, TypeOK
<1>4. \A d \in Callers \ {c} : todo'[d] = todo[d] /\ pc'[d] = pc[d]
  BY <1>2 DEF TypeInv, TypeOK, Write, Goto
<1>5. ASSUME NEW x, HasWrite(c, x)' PROVE HasWrite(c, x)
  <2>1. PICK i \in 1..Len(Tail(todo[c])) : Tail(todo[c])[i] = x
    BY <1>3, <1>5 DEF HasWrite
  <2>2. i + 1 \in 1..Len(todo[c]) /\ todo[c][i + 1] = x
    BY <1>1, <2>1
  <2> QED
    BY <2>2 DEF HasWrite
<1>6. ASSUME NEW x, HasWrite(c, x), Head(todo[c]) # x PROVE HasWrite(c, x)'
  BY <1>1, <1>3, <1>6, WriteStays DEF HasWrite
<1>7. HasWrite(c, Head(todo[c]))
  <2>1. 1 \in 1..Len(todo[c]) /\ todo[c][1] = Head(todo[c])
    BY <1>1
  <2> QED
    BY <2>1 DEF HasWrite
<1>8. pc'[c] = pc[c] \/ (pc[c] = "probe" /\ pc'[c] = "run") \/ Tail(todo[c]) = <<>>
  <2>1. Tail(todo[c]) # <<>> <=> Len(todo[c]) > 1
    BY <1>1, TailFacts
  <2>2. pc'[c] = IF Len(todo[c]) > 1 THEN pc[c]
                 ELSE IF pc[c] = "probe" THEN "run" ELSE "idle"
    BY DEF TypeInv, TypeOK, Write, Goto
  <2> QED
    BY <2>1, <2>2
<1> QED
  BY <1>4, <1>5, <1>6, <1>7, <1>8

LEMMA ProbedStep == ProbedInv /\ [Next]_vars => ProbedInv'
<1> SUFFICES ASSUME ProbedInv, [Next]_vars PROVE ProbedInv'
  OBVIOUS
<1>0. TypeInv /\ TypeInv'
  BY TypeStep DEF ProbedInv
<1>t. /\ todo \in [Callers -> Seq(Writes)]
      /\ pc \in [Callers -> PC]
      /\ \A c \in Callers : pc[c] \notin {"probe", "write"} => todo[c] = <<>>
      /\ drops \in Nat
  BY <1>0 DEF TypeInv, TypeOK, TodoBusy
<1>p. ProbeWrites /\ Watched
  BY DEF ProbedInv
\* A caller without writes that moves on, or is given the writes s: the others
\* are as they were.
<1>k. ASSUME NEW c \in Callers, pc[c] \notin {"probe", "write"},
             \A d \in Callers \ {c} : todo'[d] = todo[d] /\ pc'[d] = pc[d],
             HasWrite(c, "halfOpen")' => pc'[c] = "probe",
             state' = state,
             drops' = drops \/ drops' = drops + 1,
             \/ proven'
             \/ /\ proven' = proven
                /\ state = "HalfOpen" /\ drops' = 0 /\ Settles(c) => Settles(c)'
      PROVE  ProbedInv'
  <2>1. \A d \in Callers \ {c} : /\ Settles(d)' <=> Settles(d)
                                 /\ \A x : HasWrite(d, x)' <=> HasWrite(d, x)
    BY <1>k DEF Settles, HasWrite
  <2>2. ProbeWrites'
    BY <1>k, <1>p, <2>1 DEF ProbeWrites
  <2>3. Watched'
    BY <1>k, <1>p, <1>t, <2>1 DEF Watched
  <2> QED
    BY <1>0, <2>2, <2>3 DEF ProbedInv
<1>1. CASE Elapse
  BY <1>0, <1>1, <1>p DEF Elapse, ProbedInv, ProbeWrites, Watched, Settles, HasWrite
<1>2. ASSUME NEW c \in Callers, Look(c) \/ CheckRejects(c) PROVE ProbedInv'
  BY <1>2, <1>k, <1>t DEF Look, CheckRejects, Goto, atomics, Settles, HasWrite
<1>3. ASSUME NEW c \in Callers, CheckElapsed(c) PROVE ProbedInv'
  BY <1>3, <1>k, <1>t DEF CheckElapsed, Issue, Goto, atomics, Settles, HasWrite
<1>4. ASSUME NEW c \in Callers, Enter(c) PROVE ProbedInv'
  <2>1. ~Settles(c) /\ pc[c] = "enter"
    BY <1>4, <1>t DEF Enter, Settles, HasWrite
  <2>2. HasWrite(c, "halfOpen")' => pc'[c] = "probe"
    BY <1>4, <1>t, <2>1 DEF Enter, Issue, Goto, HasWrite
  <2> QED
    BY <1>4, <1>k, <1>t, <2>1, <2>2 DEF Enter, Issue, Goto
<1>5. ASSUME NEW c \in Callers, Succeed(c) \/ Fail(c) \/ Drop(c) PROVE ProbedInv'
  <2>1. pc[c] = "run" /\ state' = state /\ proven' = proven /\ todo' = todo
    BY <1>5 DEF Succeed, Fail, Drop, atomics
  <2>2. HasWrite(c, "halfOpen")' => pc'[c] = "probe"
    BY <1>t, <2>1 DEF HasWrite
  <2>3. drops' = drops + 1 \/ (drops' = drops /\ Settles(c)')
    BY <1>5, <1>t DEF Succeed, Fail, Drop, Goto, Settles
  <2>4. \A d \in Callers \ {c} : pc'[d] = pc[d]
    BY <1>5, <1>t DEF Succeed, Fail, Drop, Goto
  <2> QED
    BY <1>k, <1>t, <2>1, <2>2, <2>3, <2>4
<1>6. ASSUME NEW c \in Callers, OnSuccess(c) PROVE ProbedInv'
  <2>1. /\ pc[c] = "ok" /\ state' = state /\ proven' = proven /\ drops' = drops
        /\ \A d \in Callers \ {c} : todo'[d] = todo[d] /\ pc'[d] = pc[d]
    BY <1>6, <1>t DEF OnSuccess, Issue, Goto, atomics
  <2>2. HasWrite(c, "halfOpen")' => pc'[c] = "probe"
    BY <1>6, <1>t, <2>1 DEF OnSuccess, Issue, HasWrite
  <2>3. state = "HalfOpen" => Settles(c)'
    BY <1>6, <1>t DEF OnSuccess, Goto, Settles
  <2> QED
    BY <1>k, <2>1, <2>2, <2>3
<1>7. ASSUME NEW c \in Callers, CountSuccess(c) PROVE ProbedInv'
  <2>1. /\ pc[c] = "countSuccess" /\ state' = state /\ proven' = TRUE /\ drops' = drops
        /\ \A d \in Callers \ {c} : todo'[d] = todo[d] /\ pc'[d] = pc[d]
    BY <1>7, <1>t DEF CountSuccess, Issue, Goto
  <2>2. PICK s \in {<<"leave">> \o ToClosed, <<"leave">>} : todo'[c] = s
    BY <1>7, <1>t DEF CountSuccess, Issue
  <2>3. ~HasWrite(c, "halfOpen")'
    BY <2>2 DEF HasWrite, ToClosed
  <2> QED
    BY <1>k, <2>1, <2>3
<1>8. ASSUME NEW c \in Callers, OnFailure(c) PROVE ProbedInv'
  <2>1. /\ pc[c] = "err" /\ state' = state /\ proven' = proven /\ drops' = drops
        /\ \A d \in Callers \ {c} : todo'[d] = todo[d] /\ pc'[d] = pc[d]
    BY <1>8, <1>t DEF OnFailure, Issue, Goto, atomics
  <2>2. todo'[c] \in {<<"leave">> \o ToOpen, <<>>, <<"stamp">>}
    BY <1>8, <1>t, <2>1 DEF OnFailure, Issue
  <2>3. ~HasWrite(c, "halfOpen")'
    BY <2>2 DEF HasWrite, ToOpen
  <2>4. state = "HalfOpen" => Settles(c)'
    <3>1. state = "HalfOpen" => todo'[c] = <<"leave">> \o ToOpen
      BY <1>8, <1>t DEF OnFailure, Issue
    <3>2. /\ 2 \in 1..Len(<<"leave">> \o ToOpen)
          /\ (<<"leave">> \o ToOpen)[2] = "open"
      BY DEF ToOpen
    <3> QED
      BY <3>1, <3>2 DEF Settles, HasWrite
  <2> QED
    BY <1>k, <2>1, <2>3, <2>4
<1>9. ASSUME NEW c \in Callers, CountFailure(c) PROVE ProbedInv'
  <2>1. /\ pc[c] = "countFailure" /\ state' = state /\ proven' = proven /\ drops' = drops
        /\ \A d \in Callers \ {c} : todo'[d] = todo[d] /\ pc'[d] = pc[d]
    BY <1>9, <1>t DEF CountFailure, Issue, Goto
  <2>2. todo'[c] \in {ToOpen, <<>>}
    BY <1>9, <1>t, <2>1 DEF CountFailure, Issue
  <2>3. ~HasWrite(c, "halfOpen")'
    BY <2>2 DEF HasWrite, ToOpen
  <2>4. ~Settles(c)
    BY <1>t, <2>1 DEF HasWrite, Settles
  <2> QED
    BY <1>k, <2>1, <2>3, <2>4
<1>10. ASSUME NEW c \in Callers, Write(c) PROVE ProbedInv'
  <2> DEFINE x == Head(todo[c])
  <2>1. /\ state' = CASE x = "open"     -> "Open"
                       [] x = "halfOpen" -> "HalfOpen"
                       [] x = "closed"   -> "Closed"
                       [] OTHER          -> state
        /\ proven' = (proven /\ x # "halfOpen")
        /\ drops' = drops
        /\ pc[c] \in {"probe", "write"}
    BY <1>10 DEF Write
  <2>2. /\ \A d \in Callers \ {c} : todo'[d] = todo[d] /\ pc'[d] = pc[d]
        /\ \A y : HasWrite(c, y)' => HasWrite(c, y)
        /\ \A y : HasWrite(c, y) /\ x # y => HasWrite(c, y)'
        /\ HasWrite(c, x)
        /\ pc'[c] = pc[c] \/ (pc[c] = "probe" /\ pc'[c] = "run") \/ Tail(todo[c]) = <<>>
    BY <1>0, <1>10, WriteTail
  <2>3. todo'[c] = Tail(todo[c])
    BY <1>10, <1>t DEF Write
  <2>4. pc[c] = "probe" => pc'[c] \in {"probe", "run"}
    BY <1>10, <1>t DEF Write, Goto
  <2> HIDE DEF x
  <2>5. \A d \in Callers \ {c} : /\ Settles(d)' <=> Settles(d)
                                 /\ \A y : HasWrite(d, y)' <=> HasWrite(d, y)
    BY <2>2 DEF Settles, HasWrite
  <2>6. ProbeWrites'
    <3>1. ASSUME HasWrite(c, "halfOpen")' PROVE pc'[c] = "probe"
      <4>1. Tail(todo[c]) # <<>>
        BY <2>3, <3>1 DEF HasWrite
      <4>2. pc[c] = "probe"
        BY <1>p, <2>2, <3>1 DEF ProbeWrites
      <4>3. Len(todo[c]) > 1
        BY <1>0, <1>10, <1>t, <4>1, TailFacts DEF TypeInv, TodoBusy, Write
      <4> QED
        BY <1>10, <1>t, <4>2, <4>3 DEF Write, Goto
    <3> QED
      BY <1>p, <2>2, <2>5, <3>1 DEF ProbeWrites
  <2>7. CASE x = "halfOpen"
    <3>1. pc[c] = "probe"
      BY <1>p, <2>2, <2>7 DEF ProbeWrites
    <3>2. Settles(c)'
      BY <2>4, <3>1 DEF Settles
    <3> QED
      BY <1>0, <2>6, <3>2 DEF ProbedInv, Watched
  <2>8. CASE x \in {"open", "closed"}
    <3>1. state' # "HalfOpen"
      BY <2>1, <2>8
    <3> QED
      BY <1>0, <2>6, <3>1 DEF ProbedInv, Watched
  <2>9. CASE x \notin {"open", "closed", "halfOpen"}
    <3>1. state' = state /\ (proven' <=> proven)
      BY <2>1, <2>9
    <3>2. Settles(c) => Settles(c)'
      BY <2>1, <2>2, <2>4, <2>9 DEF Settles
    <3>3. Watched'
      BY <1>p, <2>1, <2>5, <3>1, <3>2 DEF Watched
    <3> QED
      BY <1>0, <2>6, <3>3 DEF ProbedInv
  <2> QED
    BY <2>7, <2>8, <2>9
<1>11. CASE UNCHANGED vars
  BY <1>0, <1>11, <1>p DEF vars, ProbedInv, ProbeWrites, Watched, Settles, HasWrite
<1> QED
  BY <1>1, <1>2, <1>3, <1>4, <1>5, <1>6, <1>7, <1>8, <1>9, <1>10, <1>11 DEF Next, Step

\* While no call is dropped, nobody leaves a half-open breaker behind on which
\* no success was counted: whatever the stores of several transitions interleave
\* to, the caller that made it half-open last is in flight until it has counted
\* its success or has opened the breaker again.
THEOREM HalfOpenIsProbed == Spec => []Probed
<1>1. ProbedInv => Probed
  <2> SUFFICES ASSUME ProbedInv, Quiet PROVE ~(state = "HalfOpen" /\ ~proven /\ drops = 0)
    BY DEF Probed
  <2>1. \A c \in Callers : todo[c] = <<>> /\ pc[c] = "idle"
    BY DEF ProbedInv, TypeInv, TypeOK, TodoBusy, Quiet
  <2>2. \A c \in Callers : ~Settles(c)
    BY <2>1 DEF Settles, HasWrite
  <2> QED
    BY <2>2 DEF ProbedInv, Watched
<1> QED
  BY <1>1, ProbedInit, ProbedStep, PTL DEF Spec

-----------------------------------------------------------------------------
(* The permits of the bulkhead and the attempts of with_resilience.        *)

CallStages == {"idle", "waiting", "running", "sleeping", "ok", "failed"}

Queued(c) == \E n \in 1..Len(waiting) : waiting[n] = c

CallsTyped ==
    /\ permits \in Nat
    /\ waiting \in Seq(BulkheadCallers)
    /\ callPc \in [BulkheadCallers -> CallStages]
    /\ attempt \in [BulkheadCallers -> Nat]
    /\ delay \in [BulkheadCallers -> 0..MaxDelay]

\* The counts of the instance are those of the library's theorems.
LEMMA CallsCount == \A S : Calls!Cardinality(S) = Cardinality(S)
  BY DEF Calls!Cardinality, Cardinality

LEMMA CallsFinite == \A S : Calls!IsFiniteSet(S) <=> IsFiniteSet(S)
  BY DEF Calls!IsFiniteSet, IsFiniteSet

\* Who waits is in the queue, at one place.
InQueue ==
    /\ \A c \in BulkheadCallers : callPc[c] = "waiting" <=> Queued(c)
    /\ \A m, n \in 1..Len(waiting) : waiting[m] = waiting[n] => m = n

\* The next attempt is one that the retries allow.
RetriesLeft ==
    \A c \in BulkheadCallers :
        /\ attempt[c] <= MaxRetries + 1
        /\ callPc[c] = "idle" => attempt[c] = 0
        /\ callPc[c] = "sleeping" => attempt[c] <= MaxRetries

PermitsCounted == permits + Cardinality(Calls!Running) = BulkheadPermits

CallsInv == CallsTyped /\ InQueue /\ RetriesLeft /\ PermitsCounted

LEMMA CallsInvIs == CallsInv => Calls!PermitsKept /\ Calls!AttemptsBounded
<1> SUFFICES ASSUME CallsInv PROVE Calls!PermitsKept /\ Calls!AttemptsBounded
  OBVIOUS
<1>1. DOMAIN waiting = 1..Len(waiting)
  BY DEF CallsInv, CallsTyped
<1>2. \A c \in BulkheadCallers : c \in Calls!ToSet(waiting) <=> Queued(c)
  BY <1>1 DEF Calls!ToSet, Queued
<1>3. Calls!PermitsKept
  BY <1>1, <1>2, CallsCount DEF CallsInv, InQueue, PermitsCounted, Calls!PermitsKept
<1>4. Calls!AttemptsBounded
  BY DEF CallsInv, CallsTyped, RetriesLeft, Calls!AttemptsBounded
<1> QED
  BY <1>3, <1>4

LEMMA CallsInit == GuardsInit => CallsInv
<1> SUFFICES ASSUME GuardsInit PROVE CallsInv
  OBVIOUS
<1>0. /\ MaxRetries \in Nat /\ MaxDelay \in Nat /\ BulkheadPermits \in Nat
  BY GuardsAssumption DEF GuardsAssumption, Calls!ResilienceAssumption
<1>1. /\ permits = BulkheadPermits /\ waiting = <<>>
      /\ callPc = [c \in BulkheadCallers |-> "idle"]
      /\ attempt = [c \in BulkheadCallers |-> 0]
      /\ delay = [c \in BulkheadCallers |-> 0]
  BY DEF GuardsInit, Calls!Init
<1>2. CallsTyped
  BY <1>0, <1>1 DEF CallsTyped, CallStages
<1>3. InQueue
  BY <1>1 DEF InQueue, Queued
<1>4. RetriesLeft
  BY <1>0, <1>1 DEF RetriesLeft
<1>5. Calls!Running = {}
  BY <1>1 DEF Calls!Running
<1>6. PermitsCounted
  BY <1>0, <1>1, <1>5, FS_EmptySet DEF PermitsCounted
<1> QED
  BY <1>2, <1>3, <1>4, <1>6 DEF CallsInv

\* A caller starts or stops to run: the permits say so.
LEMMA RunningCounted ==
    ASSUME CallsTyped, NEW c \in BulkheadCallers, NEW stage \in CallStages,
           callPc' = [callPc EXCEPT ![c] = stage]
    PROVE  /\ Cardinality(Calls!Running) \in Nat
           /\ callPc[c] # "running" /\ stage = "running" =>
                 Cardinality(Calls!Running') = Cardinality(Calls!Running) + 1
           /\ callPc[c] = "running" /\ stage # "running" =>
                 Cardinality(Calls!Running') = Cardinality(Calls!Running) - 1
           /\ callPc[c] # "running" /\ stage # "running" =>
                 Calls!Running' = Calls!Running
<1>0. IsFiniteSet(BulkheadCallers)
  BY GuardsAssumption, CallsFinite DEF GuardsAssumption, Calls!ResilienceAssumption
<1>1. Calls!Running \subseteq BulkheadCallers
  BY DEF Calls!Running
<1>2. IsFiniteSet(Calls!Running) /\ Cardinality(Calls!Running) \in Nat
  BY <1>0, <1>1, FS_Subset, FS_CardinalityType
<1>3. Calls!Running = {d \in BulkheadCallers : callPc[d] = "running"}
  BY DEF Calls!Running
<1>4. Calls!Running' = {d \in BulkheadCallers : callPc'[d] = "running"}
  BY DEF Calls!Running
<1>5. \A d \in BulkheadCallers : callPc'[d] = IF d = c THEN stage ELSE callPc[d]
  BY DEF CallsTyped
<1>6. ASSUME callPc[c] # "running", stage = "running"
      PROVE  Cardinality(Calls!Running') = Cardinality(Calls!Running) + 1
  <2>1. Calls!Running' = Calls!Running \cup {c} /\ c \notin Calls!Running
    BY <1>3, <1>4, <1>5, <1>6
  <2> QED
    BY <1>2, <2>1, FS_AddElement
<1>7. ASSUME callPc[c] = "running", stage # "running"
      PROVE  Cardinality(Calls!Running') = Cardinality(Calls!Running) - 1
  <2>1. Calls!Running' = Calls!Running \ {c} /\ c \in Calls!Running
    BY <1>3, <1>4, <1>5, <1>7
  <2> QED
    BY <1>2, <2>1, FS_RemoveElement
<1>8. ASSUME callPc[c] # "running", stage # "running"
      PROVE  Calls!Running' = Calls!Running
  BY <1>3, <1>4, <1>5, <1>8
<1> QED
  BY <1>2, <1>6, <1>7, <1>8

\* The queue without what was at place n.
LEMMA QueueWithout ==
    ASSUME NEW S, NEW q \in Seq(S), NEW n \in 1..Len(q)
    PROVE  LET r == SubSeq(q, 1, n - 1) \o SubSeq(q, n + 1, Len(q))
           IN  /\ r \in Seq(S) /\ Len(r) = Len(q) - 1
               /\ \A k \in 1..Len(r) : r[k] = IF k < n THEN q[k] ELSE q[k + 1]
<1> DEFINE a == SubSeq(q, 1, n - 1)
           b == SubSeq(q, n + 1, Len(q))
<1>0. Len(q) \in Nat /\ n \in Nat /\ n >= 1 /\ n <= Len(q)
  OBVIOUS
<1>1. a \in Seq(S) /\ Len(a) = n - 1 /\ \A k \in 1..n - 1 : a[k] = q[k]
  BY <1>0
<1>2. b \in Seq(S) /\ Len(b) = Len(q) - n /\ \A k \in 1..Len(q) - n : b[k] = q[n + k]
  BY <1>0
<1> HIDE DEF a, b
<1>3. /\ a \o b \in Seq(S) /\ Len(a \o b) = Len(q) - 1
      /\ \A k \in 1..Len(q) - 1 : (a \o b)[k] = IF k <= Len(a) THEN a[k] ELSE b[k - Len(a)]
  <2>1. Len(a) + Len(b) = Len(q) - 1
    BY <1>0, <1>1, <1>2
  <2>2. /\ a \o b \in Seq(S) /\ Len(a \o b) = Len(a) + Len(b)
        /\ \A k \in 1..Len(a) + Len(b) :
              (a \o b)[k] = IF k <= Len(a) THEN a[k] ELSE b[k - Len(a)]
    BY <1>1, <1>2, ConcatProperties, Zenon
  <2> QED
    BY <2>1, <2>2
<1>4. \A k \in 1..Len(q) - 1 : (a \o b)[k] = IF k < n THEN q[k] ELSE q[k + 1]
  <2> TAKE k \in 1..Len(q) - 1
  <2>1. CASE k < n
    BY <1>0, <1>1, <1>3, <2>1
  <2>2. CASE ~(k < n)
    <3>1. k - (n - 1) \in 1..Len(q) - n /\ n + (k - (n - 1)) = k + 1
      BY <1>0, <2>2
    <3>2. (a \o b)[k] = b[k - (n - 1)]
      BY <1>0, <1>1, <1>3, <2>2
    <3>3. b[k - (n - 1)] = q[n + (k - (n - 1))]
      BY <1>2, <3>1
    <3> QED
      BY <2>2, <3>1, <3>2, <3>3
  <2> QED
    BY <2>1, <2>2
<1> QED
  BY <1>3, <1>4 DEF a, b

\* Who leaves the queue waits no more, and the others do.
LEMMA LeavesQueue ==
    ASSUME CallsTyped, InQueue, NEW c \in BulkheadCallers, callPc[c] = "waiting",
           Calls!LeaveQueue(c), NEW stage \in CallStages \ {"waiting"},
           callPc' = [callPc EXCEPT ![c] = stage]
    PROVE  waiting' \in Seq(BulkheadCallers) /\ InQueue'
<1>1. PICK n \in 1..Len(waiting) :
         /\ waiting[n] = c
         /\ waiting' = SubSeq(waiting, 1, n - 1) \o SubSeq(waiting, n + 1, Len(waiting))
  <2>1. DOMAIN waiting = 1..Len(waiting)
    BY DEF CallsTyped
  <2> QED
    BY <2>1 DEF Calls!LeaveQueue, Calls!RemoveAt
<1>2. /\ waiting' \in Seq(BulkheadCallers) /\ Len(waiting') = Len(waiting) - 1
      /\ \A k \in 1..Len(waiting') :
            waiting'[k] = IF k < n THEN waiting[k] ELSE waiting[k + 1]
  BY <1>1, QueueWithout DEF CallsTyped
<1>3. Len(waiting) \in Nat /\ n \in Nat /\ n >= 1 /\ n <= Len(waiting)
  BY DEF CallsTyped
<1>4. \A d \in BulkheadCallers : callPc'[d] = IF d = c THEN stage ELSE callPc[d]
  BY DEF CallsTyped
<1> DEFINE old(k) == IF k < n THEN k ELSE k + 1
<1>5. \A k \in 1..Len(waiting') : old(k) \in 1..Len(waiting) \ {n} /\ waiting'[k] = waiting[old(k)]
  BY <1>2, <1>3
<1>6. \A m \in 1..Len(waiting) \ {n} : \E k \in 1..Len(waiting') : old(k) = m
  <2> TAKE m \in 1..Len(waiting) \ {n}
  <2>1. CASE m < n
    <3>1. m \in 1..Len(waiting') /\ old(m) = m
      BY <1>2, <1>3, <2>1
    <3> QED
      BY <3>1
  <2>2. CASE ~(m < n)
    <3>1. m - 1 \in 1..Len(waiting') /\ old(m - 1) = m
      BY <1>2, <1>3, <2>2
    <3> QED
      BY <3>1
  <2> QED
    BY <2>1, <2>2
<1>7. \A k, l \in 1..Len(waiting') : old(k) = old(l) => k = l
  BY <1>3
<1> HIDE DEF old
<1>8. \A k, l \in 1..Len(waiting') : waiting'[k] = waiting'[l] => k = l
  BY <1>5, <1>7 DEF InQueue
<1>9. \A d \in BulkheadCallers : callPc'[d] = "waiting" <=> \E k \in 1..Len(waiting') : waiting'[k] = d
  <2> TAKE d \in BulkheadCallers
  <2>1. CASE d = c
    <3>1. callPc'[d] # "waiting"
      BY <1>4, <2>1
    <3>2. ASSUME NEW k \in 1..Len(waiting'), waiting'[k] = c PROVE FALSE
      <4>1. old(k) \in 1..Len(waiting) /\ old(k) # n /\ waiting[old(k)] = waiting[n]
        BY <1>1, <1>5, <3>2
      <4> QED
        BY <4>1 DEF InQueue
    <3> QED
      BY <2>1, <3>1, <3>2
  <2>2. CASE d # c
    <3>1. callPc'[d] = "waiting" <=> \E m \in 1..Len(waiting) \ {n} : waiting[m] = d
      BY <1>1, <1>4, <2>2 DEF InQueue, Queued
    <3>2. ASSUME NEW m \in 1..Len(waiting) \ {n}, waiting[m] = d
          PROVE  \E k \in 1..Len(waiting') : waiting'[k] = d
      <4>1. PICK k \in 1..Len(waiting') : old(k) = m
        BY <1>6
      <4> QED
        BY <1>5, <3>2, <4>1
    <3> QED
      BY <1>5, <3>1, <3>2
  <2> QED
    BY <2>1, <2>2
<1> QED
  BY <1>2, <1>8, <1>9 DEF InQueue, Queued

\* A stage of c that is neither waiting before nor after leaves the queue alone.
LEMMA SameQueue ==
    ASSUME CallsTyped, InQueue, NEW c \in BulkheadCallers, NEW stage \in CallStages,
           callPc' = [callPc EXCEPT ![c] = stage], callPc[c] # "waiting", stage # "waiting",
           UNCHANGED waiting
    PROVE  waiting' \in Seq(BulkheadCallers) /\ InQueue'
<1>1. \A d \in BulkheadCallers : callPc'[d] = IF d = c THEN stage ELSE callPc[d]
  BY DEF CallsTyped
<1> QED
  BY <1>1 DEF CallsTyped, InQueue, Queued

\* What Retry makes of a caller.
LEMMA RetryFacts ==
    ASSUME CallsTyped, RetriesLeft, NEW c \in BulkheadCallers, NEW r \in BOOLEAN,
           Calls!Retry(c, r), UNCHANGED attempt
    PROVE  /\ \E stage \in {"sleeping", "failed"} : callPc' = [callPc EXCEPT ![c] = stage]
           /\ callPc' \in [BulkheadCallers -> CallStages]
           /\ delay' \in [BulkheadCallers -> 0..MaxDelay]
           /\ RetriesLeft'
<1>1. CASE r /\ attempt[c] <= MaxRetries
  <2>1. /\ callPc' = [callPc EXCEPT ![c] = "sleeping"]
        /\ \E d \in Calls!Backoff(attempt[c]) : delay' = [delay EXCEPT ![c] = d]
    BY <1>1 DEF Calls!Retry
  <2>2. PICK d \in 0..MaxDelay : delay' = [delay EXCEPT ![c] = d]
    BY <2>1 DEF Calls!Backoff
  <2>3. RetriesLeft'
    BY <1>1, <2>1 DEF RetriesLeft, CallsTyped
  <2> QED
    BY <2>1, <2>2, <2>3 DEF CallsTyped, CallStages
<1>2. CASE ~(r /\ attempt[c] <= MaxRetries)
  <2>1. callPc' = [callPc EXCEPT ![c] = "failed"] /\ delay' = delay
    BY <1>2 DEF Calls!Retry
  <2>2. RetriesLeft'
    BY <2>1 DEF RetriesLeft, CallsTyped
  <2> QED
    BY <2>1, <2>2 DEF CallsTyped, CallStages
<1> QED
  BY <1>1, <1>2

LEMMA CallsStep == CallsInv /\ [GuardsNext]_guardVars => CallsInv'
<1> SUFFICES ASSUME CallsInv, [GuardsNext]_guardVars PROVE CallsInv'
  OBVIOUS
<1>0. MaxRetries \in Nat /\ MaxDelay \in Nat /\ BulkheadPermits \in Nat
  BY GuardsAssumption DEF GuardsAssumption, Calls!ResilienceAssumption
<1>t. CallsTyped /\ InQueue /\ RetriesLeft /\ PermitsCounted
  BY DEF CallsInv
<1>1. ASSUME UNCHANGED callVars PROVE CallsInv'
  BY <1>1 DEF CallsInv, callVars, CallsTyped, InQueue, Queued, RetriesLeft, PermitsCounted,
              Calls!Running
<1>2. ASSUME NEW c \in BulkheadCallers, Calls!Start(c) PROVE CallsInv'
  <2>1. /\ callPc[c] \in {"idle", "sleeping"} /\ UNCHANGED <<permits, delay>>
        /\ attempt' = [attempt EXCEPT ![c] = attempt[c] + 1]
        /\ waiting' = Append(waiting, c)
        /\ callPc' = [callPc EXCEPT ![c] = "waiting"]
    BY <1>2 DEF Calls!Start
  <2>2. CallsTyped'
    BY <1>t, <2>1 DEF CallsTyped, CallStages
  <2>3. RetriesLeft'
    BY <1>0, <1>t, <2>1 DEF RetriesLeft, CallsTyped
  <2>4. /\ Len(waiting') = Len(waiting) + 1 /\ waiting'[Len(waiting) + 1] = c
        /\ \A k \in 1..Len(waiting) : waiting'[k] = waiting[k]
        /\ Len(waiting) \in Nat
    BY <1>t, <2>1 DEF CallsTyped
  <2>5. \A d \in BulkheadCallers : callPc'[d] = IF d = c THEN "waiting" ELSE callPc[d]
    BY <1>t, <2>1 DEF CallsTyped
  <2>6. ~Queued(c)
    BY <1>t, <2>1 DEF InQueue
  <2>7. InQueue'
    <3>1. \A d \in BulkheadCallers : callPc'[d] = "waiting" <=> Queued(d)'
      BY <1>t, <2>4, <2>5 DEF InQueue, Queued
    <3>2. \A m, n \in 1..Len(waiting') : waiting'[m] = waiting'[n] => m = n
      BY <1>t, <2>4, <2>6 DEF InQueue, Queued
    <3> QED
      BY <3>1, <3>2 DEF InQueue
  <2>8. Calls!Running' = Calls!Running
    BY <1>t, <2>1, RunningCounted DEF CallStages
  <2>9. PermitsCounted'
    BY <1>t, <2>1, <2>8 DEF PermitsCounted
  <2> QED
    BY <2>2, <2>3, <2>7, <2>9 DEF CallsInv
<1>3. ASSUME NEW c \in BulkheadCallers, Calls!Acquire(c) PROVE CallsInv'
  <2>1. /\ waiting # <<>> /\ Head(waiting) = c /\ permits > 0
        /\ waiting' = Tail(waiting) /\ permits' = permits - 1
        /\ callPc' = [callPc EXCEPT ![c] = "running"]
        /\ UNCHANGED <<attempt, delay>>
    BY <1>3 DEF Calls!Acquire
  <2>2. CallsTyped'
    BY <1>t, <2>1 DEF CallsTyped, CallStages
  <2>3. RetriesLeft'
    BY <1>t, <2>1 DEF RetriesLeft, CallsTyped
  <2>4. /\ Len(waiting) \in Nat \ {0} /\ waiting[1] = c
        /\ Len(waiting') = Len(waiting) - 1
        /\ \A k \in 1..Len(waiting') : waiting'[k] = waiting[k + 1]
    BY <1>t, <2>1 DEF CallsTyped
  <2>5. \A d \in BulkheadCallers : callPc'[d] = IF d = c THEN "running" ELSE callPc[d]
    BY <1>t, <2>1 DEF CallsTyped
  <2>6. \A k \in 1..Len(waiting') : k + 1 \in 1..Len(waiting) /\ k + 1 # 1
    BY <2>4
  <2>7. \A m \in 1..Len(waiting) : m # 1 =>
           /\ m - 1 \in 1..Len(waiting') /\ waiting'[m - 1] = waiting[m]
    BY <2>4
  <2>8. callPc[c] = "waiting"
    <3>1. Queued(c)
      BY <2>4 DEF Queued
    <3> QED
      BY <1>t, <3>1 DEF InQueue
  <2>9. InQueue'
    <3>1. \A d \in BulkheadCallers : callPc'[d] = "waiting" <=> Queued(d)'
      <4> TAKE d \in BulkheadCallers
      <4>1. CASE d = c
        BY <1>t, <2>4, <2>5, <2>6, <4>1 DEF InQueue, Queued
      <4>2. CASE d # c
        <5>1. Queued(d) <=> Queued(d)'
          BY <2>4, <2>6, <2>7, <4>2 DEF Queued
        <5> QED
          BY <1>t, <2>5, <4>2, <5>1 DEF InQueue
      <4> QED
        BY <4>1, <4>2
    <3>2. \A m, n \in 1..Len(waiting') : waiting'[m] = waiting'[n] => m = n
      BY <1>t, <2>4, <2>6 DEF InQueue
    <3> QED
      BY <3>1, <3>2 DEF InQueue
  <2>10. /\ Cardinality(Calls!Running) \in Nat
         /\ Cardinality(Calls!Running') = Cardinality(Calls!Running) + 1
    BY <1>t, <2>1, <2>8, RunningCounted DEF CallStages
  <2>11. PermitsCounted'
    BY <1>0, <1>t, <2>1, <2>10 DEF PermitsCounted, CallsTyped
  <2> QED
    BY <2>2, <2>3, <2>9, <2>11 DEF CallsInv
<1>4. ASSUME NEW c \in BulkheadCallers, callPc[c] = "waiting", Calls!LeaveQueue(c),
             UNCHANGED <<permits, attempt>>, NEW r \in BOOLEAN, Calls!Retry(c, r)
      PROVE  CallsInv'
  <2>1. PICK stage \in {"sleeping", "failed"} : callPc' = [callPc EXCEPT ![c] = stage]
    BY <1>t, <1>4, RetryFacts
  <2>2. stage \in CallStages \ {"waiting"} /\ stage # "running"
    BY DEF CallStages
  <2>3. waiting' \in Seq(BulkheadCallers) /\ InQueue'
    BY <1>t, <1>4, <2>1, <2>2, LeavesQueue
  <2>4. /\ callPc' \in [BulkheadCallers -> CallStages]
        /\ delay' \in [BulkheadCallers -> 0..MaxDelay] /\ RetriesLeft'
    BY <1>t, <1>4, RetryFacts
  <2>5. Calls!Running' = Calls!Running
    BY <1>t, <1>4, <2>1, <2>2, RunningCounted
  <2>6. PermitsCounted'
    BY <1>t, <1>4, <2>5 DEF PermitsCounted
  <2> QED
    BY <1>t, <1>4, <2>3, <2>4, <2>6 DEF CallsInv, CallsTyped
<1>5. ASSUME NEW c \in BulkheadCallers, callPc[c] = "running", permits' = permits + 1,
             UNCHANGED <<waiting, attempt>>, NEW stage \in {"ok", "sleeping", "failed"},
             callPc' = [callPc EXCEPT ![c] = stage],
             delay' \in [BulkheadCallers -> 0..MaxDelay], RetriesLeft'
      PROVE  CallsInv'
  <2>1. stage \in CallStages /\ stage # "waiting" /\ stage # "running"
    BY DEF CallStages
  <2>2. waiting' \in Seq(BulkheadCallers) /\ InQueue'
    BY <1>t, <1>5, <2>1, SameQueue
  <2>3. CallsTyped'
    BY <1>t, <1>5, <2>1, <2>2 DEF CallsTyped
  <2>4. /\ Cardinality(Calls!Running) \in Nat
        /\ Cardinality(Calls!Running') = Cardinality(Calls!Running) - 1
    BY <1>t, <1>5, <2>1, RunningCounted
  <2>5. PermitsCounted'
    BY <1>0, <1>t, <1>5, <2>4 DEF PermitsCounted, CallsTyped
  <2> QED
    BY <1>5, <2>2, <2>3, <2>5 DEF CallsInv
<1>6. ASSUME NEW c \in BulkheadCallers, Calls!Rejected(c) PROVE CallsInv'
  <2>1. Calls!Retryable("bulkhead") \in BOOLEAN
    BY DEF Calls!Retryable
  <2> QED
    BY <1>4, <1>6, <2>1 DEF Calls!Rejected
<1>7. ASSUME NEW c \in BulkheadCallers, Calls!Succeed(c) PROVE CallsInv'
  <2>1. RetriesLeft'
    BY <1>t, <1>7 DEF Calls!Succeed, RetriesLeft, CallsTyped
  <2> QED
    BY <1>5, <1>7, <1>t, <2>1 DEF Calls!Succeed, CallsTyped
<1>8. ASSUME NEW c \in BulkheadCallers, callPc[c] = "running", permits' = permits + 1,
             UNCHANGED <<waiting, attempt>>, NEW r \in BOOLEAN, Calls!Retry(c, r)
      PROVE  CallsInv'
  <2>1. PICK stage \in {"sleeping", "failed"} : callPc' = [callPc EXCEPT ![c] = stage]
    BY <1>t, <1>8, RetryFacts
  <2>2. delay' \in [BulkheadCallers -> 0..MaxDelay] /\ RetriesLeft'
    BY <1>t, <1>8, RetryFacts
  <2> QED
    BY <1>5, <1>8, <2>1, <2>2
<1>9. ASSUME NEW c \in BulkheadCallers, NEW e \in Calls!Errors, Calls!Fail(c, e) PROVE CallsInv'
  <2>1. Calls!Retryable(e) \in BOOLEAN
    BY DEF Calls!Retryable
  <2> QED
    BY <1>8, <1>9, <2>1 DEF Calls!Fail
<1>10. ASSUME NEW c \in BulkheadCallers, Calls!TimeoutElapsed(c) PROVE CallsInv'
  BY <1>4, <1>8, <1>10 DEF Calls!TimeoutElapsed
<1>11. ASSUME NEW c \in BulkheadCallers, Calls!Sleep(c) PROVE CallsInv'
  <2>1. /\ delay[c] > 0 /\ delay' = [delay EXCEPT ![c] = delay[c] - 1]
        /\ UNCHANGED <<permits, waiting, callPc, attempt>>
    BY <1>11 DEF Calls!Sleep
  <2>2. CallsTyped'
    <3>1. delay[c] - 1 \in 0..MaxDelay
      BY <1>0, <1>t, <2>1 DEF CallsTyped
    <3> QED
      BY <1>t, <2>1, <3>1 DEF CallsTyped
  <2> QED
    BY <1>t, <2>1, <2>2 DEF CallsInv, InQueue, Queued, RetriesLeft, PermitsCounted, Calls!Running
<1>12. ASSUME ~CallsNext PROVE CallsInv'
  BY <1>1, <1>12 DEF GuardsNext, RateNext, WsNext, BreakerNext, SubscriptionNext, guardVars
<1>13. ASSUME CallsNext PROVE CallsInv'
  BY <1>2, <1>3, <1>6, <1>7, <1>9, <1>10, <1>11, <1>13 DEF CallsNext, Calls!Next, Calls!Step
<1> QED
  BY <1>12, <1>13

-----------------------------------------------------------------------------
(* The connections and the subscriptions of WebSockets.                    *)

LEMMA WsCount == \A S : Ws!Cardinality(S) = Cardinality(S)
  BY DEF Ws!Cardinality, Cardinality

LEMMA WsFinite == \A S : Ws!IsFiniteSet(S) <=> IsFiniteSet(S)
  BY DEF Ws!IsFiniteSet, IsFiniteSet

Phases == {"closed", "admitted", "open", "closing"}

WsTyped ==
    /\ phase \in [Connections -> Phases]
    /\ wsState \in [Connections -> Ws!ConnectionState \cup {None}]
    /\ connected \in [Ws!Ips -> Nat]
    /\ subs \in [Connections -> Nat]
    /\ forgets \in [Connections -> Nat]

\* The connections that count for an address.
Live(ip) == {c \in Connections : IpOf[c] = ip /\ phase[c] # "closed"}

AddressesCounted ==
    \A ip \in Ws!Ips : connected[ip] = Cardinality(Live(ip)) /\ connected[ip] <= MaxConnectionsPerIp

\* The subscriptions of a connection are those its state counts, and a limit of
\* them for each time that a clean-up forgot it.
StatesCount ==
    \A c \in Connections :
        /\ Ws!StateOf(c).subs <= MaxSubscriptions
        /\ Ws!StateOf(c).subs <= subs[c]
        /\ subs[c] <= Ws!StateOf(c).subs + MaxSubscriptions * forgets[c]
        /\ Ws!StateOf(c).messages <= MaxMessages

\* Only an open connection has subscriptions.
OpenOnly == \A c \in Connections : phase[c] # "open" => subs[c] = 0

WsInv == WsTyped /\ AddressesCounted /\ StatesCount /\ OpenOnly

LEMMA WsConstants ==
    /\ IsFiniteSet(Connections) /\ None \notin Ws!ConnectionState
    /\ MaxConnectionsPerIp \in Nat /\ MaxSubscriptions \in Nat /\ MaxMessages \in Nat
    /\ MessageWindow \in Nat \ {0} /\ MaxIdle \in Nat
  BY GuardsAssumption, WsFinite DEF GuardsAssumption, Ws!WsLimitsAssumption

\* A limit for each time.
LEMMA Times ==
    ASSUME NEW m \in Nat, NEW f \in Nat
    PROVE  m * f \in Nat /\ m * (1 + f) = m * f + m /\ m * (f + 1) = m * f + m /\ m * 0 = 0
  OBVIOUS

LEMMA StateTyped ==
    ASSUME WsTyped, NEW c \in Connections
    PROVE  Ws!StateOf(c) \in Ws!ConnectionState
  BY WsConstants DEF WsTyped, Ws!StateOf, Ws!New, Ws!ConnectionState

LEMMA WsInvIs == WsInv => Ws!ConnectionsCounted /\ Ws!SubscriptionsBounded
<1> SUFFICES ASSUME WsInv PROVE Ws!ConnectionsCounted /\ Ws!SubscriptionsBounded
  OBVIOUS
<1>1. Ws!ConnectionsCounted
  BY WsCount DEF WsInv, AddressesCounted, Live, Ws!ConnectionsCounted
<1>2. Ws!SubscriptionsBounded
  <2> SUFFICES ASSUME NEW c \in Connections
               PROVE  /\ subs[c] <= MaxSubscriptions * (1 + forgets[c])
                      /\ Ws!StateOf(c).subs <= subs[c]
                      /\ Ws!StateOf(c).messages <= MaxMessages
    BY DEF Ws!SubscriptionsBounded
  <2>1. forgets[c] \in Nat /\ subs[c] \in Nat /\ Ws!StateOf(c).subs \in Nat
    BY StateTyped DEF WsInv, WsTyped, Ws!ConnectionState
  <2>2. MaxSubscriptions * (1 + forgets[c]) = MaxSubscriptions * forgets[c] + MaxSubscriptions
    BY <2>1, Times, WsConstants
  <2>3. MaxSubscriptions * forgets[c] \in Nat
    BY <2>1, Times, WsConstants
  <2> QED
    BY <2>1, <2>2, <2>3, WsConstants DEF WsInv, StatesCount
<1> QED
  BY <1>1, <1>2

LEMMA WsInit == GuardsInit => WsInv
<1> SUFFICES ASSUME GuardsInit PROVE WsInv
  OBVIOUS
<1>1. /\ phase = [c \in Connections |-> "closed"]
      /\ wsState = [c \in Connections |-> None]
      /\ connected = [ip \in Ws!Ips |-> 0]
      /\ subs = [c \in Connections |-> 0]
      /\ forgets = [c \in Connections |-> 0]
  BY DEF GuardsInit, Ws!Init
<1>2. WsTyped
  BY <1>1 DEF WsTyped, Phases
<1>3. \A ip \in Ws!Ips : Live(ip) = {}
  BY <1>1 DEF Live
<1>4. AddressesCounted
  BY <1>1, <1>3, FS_EmptySet, WsConstants DEF AddressesCounted
<1>5. StatesCount
  <2>1. \A c \in Connections : Ws!StateOf(c) = Ws!New
    BY <1>1 DEF Ws!StateOf
  <2>2. MaxSubscriptions * 0 = 0
    BY WsConstants
  <2> QED
    BY <1>1, <2>1, <2>2, WsConstants DEF StatesCount, Ws!New
<1>6. OpenOnly
  BY <1>1 DEF OpenOnly
<1> QED
  BY <1>2, <1>4, <1>5, <1>6 DEF WsInv

\* A connection opens, closes, or neither: the count of its address.
LEMMA LiveCounted ==
    ASSUME WsTyped, NEW c \in Connections, NEW q \in Phases, phase' = [phase EXCEPT ![c] = q]
    PROVE  /\ IpOf[c] \in Ws!Ips
           /\ \A ip \in Ws!Ips : Cardinality(Live(ip)) \in Nat
           /\ \A ip \in Ws!Ips : ip # IpOf[c] => Live(ip)' = Live(ip)
           /\ phase[c] = "closed" /\ q # "closed" =>
                 Cardinality(Live(IpOf[c])') = Cardinality(Live(IpOf[c])) + 1
           /\ phase[c] # "closed" /\ q = "closed" =>
                 Cardinality(Live(IpOf[c])') = Cardinality(Live(IpOf[c])) - 1
           /\ phase[c] # "closed" /\ q # "closed" => Live(IpOf[c])' = Live(IpOf[c])
<1>1. IpOf[c] \in Ws!Ips
  BY DEF Ws!Ips
<1>2. \A ip : IsFiniteSet(Live(ip)) /\ Cardinality(Live(ip)) \in Nat
  <2> TAKE ip
  <2>1. Live(ip) \subseteq Connections
    BY DEF Live
  <2> QED
    BY <2>1, WsConstants, FS_Subset, FS_CardinalityType
<1>3. \A d \in Connections : phase'[d] = IF d = c THEN q ELSE phase[d]
  BY DEF WsTyped
<1>4. \A ip \in Ws!Ips : ip # IpOf[c] => Live(ip)' = Live(ip)
  BY <1>3 DEF Live
<1>5. ASSUME phase[c] = "closed", q # "closed"
      PROVE  Cardinality(Live(IpOf[c])') = Cardinality(Live(IpOf[c])) + 1
  <2>1. Live(IpOf[c])' = Live(IpOf[c]) \cup {c} /\ c \notin Live(IpOf[c])
    BY <1>3, <1>5 DEF Live
  <2> QED
    BY <1>2, <2>1, FS_AddElement
<1>6. ASSUME phase[c] # "closed", q = "closed"
      PROVE  Cardinality(Live(IpOf[c])') = Cardinality(Live(IpOf[c])) - 1
  <2>1. Live(IpOf[c])' = Live(IpOf[c]) \ {c} /\ c \in Live(IpOf[c])
    BY <1>3, <1>6 DEF Live
  <2> QED
    BY <1>2, <2>1, FS_RemoveElement
<1>7. ASSUME phase[c] # "closed", q # "closed" PROVE Live(IpOf[c])' = Live(IpOf[c])
  BY <1>3, <1>7 DEF Live
<1> QED
  BY <1>1, <1>2, <1>4, <1>5, <1>6, <1>7

\* No connection is admitted nor gone.
LEMMA SameAddresses ==
    ASSUME WsTyped, AddressesCounted, UNCHANGED connected,
           \A c \in Connections : phase[c] = "closed" <=> phase'[c] = "closed"
    PROVE  AddressesCounted'
<1>1. \A ip \in Ws!Ips : Live(ip)' = Live(ip)
  BY DEF Live
<1>2. Ws!Ips' = Ws!Ips
  BY DEF Ws!Ips
<1> QED
  BY <1>1, <1>2 DEF AddressesCounted

\* Only connection c has a new state, s, and may have other subscriptions.
LEMMA OtherState ==
    ASSUME WsTyped, StatesCount, NEW c \in Connections, NEW s \in Ws!ConnectionState,
           NEW n \in Nat, wsState' = [wsState EXCEPT ![c] = s],
           subs' = [subs EXCEPT ![c] = n], UNCHANGED forgets,
           s.subs <= MaxSubscriptions, s.subs <= n,
           n <= s.subs + MaxSubscriptions * forgets[c], s.messages <= MaxMessages
    PROVE  StatesCount'
<1>1. s # None
  BY WsConstants
<1>2. /\ wsState'[c] = s /\ subs'[c] = n
      /\ \A d \in Connections \ {c} : wsState'[d] = wsState[d] /\ subs'[d] = subs[d]
  BY DEF WsTyped
<1>3. /\ Ws!StateOf(c)' = s
      /\ \A d \in Connections \ {c} : Ws!StateOf(d)' = Ws!StateOf(d)
  BY <1>1, <1>2 DEF Ws!StateOf, Ws!New
<1> QED
  BY <1>2, <1>3 DEF StatesCount

LEMMA WsStep == WsInv /\ [GuardsNext]_guardVars => WsInv'
<1> SUFFICES ASSUME WsInv, [GuardsNext]_guardVars PROVE WsInv'
  OBVIOUS
<1>t. WsTyped /\ AddressesCounted /\ StatesCount /\ OpenOnly
  BY DEF WsInv
<1>r. /\ Ws!New \in Ws!ConnectionState /\ Ws!New.subs = 0 /\ Ws!New.messages = 0
      /\ \A s \in Ws!ConnectionState : /\ s.subs \in Nat /\ s.messages \in Nat
                                       /\ s.started \in Nat /\ s.idle \in Nat
  BY DEF Ws!New, Ws!ConnectionState
<1>1. ASSUME UNCHANGED wsVars PROVE WsInv'
  <2>1. /\ UNCHANGED <<phase, wsState, connected, subs, forgets>>
        /\ \A c \in Connections : Ws!StateOf(c)' = Ws!StateOf(c)
    BY <1>1 DEF wsVars, Ws!StateOf, Ws!New
  <2>2. WsTyped'
    BY <1>t, <2>1 DEF WsTyped, Ws!Ips, Ws!ConnectionState
  <2>3. AddressesCounted'
    BY <1>t, <2>1, SameAddresses
  <2>4. StatesCount'
    BY <1>t, <2>1 DEF StatesCount
  <2>5. OpenOnly'
    BY <1>t, <2>1 DEF OpenOnly
  <2> QED
    BY <2>2, <2>3, <2>4, <2>5 DEF WsInv
<1>2. ASSUME NEW c \in Connections, Ws!AllowConnection(c) PROVE WsInv'
  <2>1. /\ phase[c] = "closed" /\ connected[IpOf[c]] < MaxConnectionsPerIp
        /\ connected' = [connected EXCEPT ![IpOf[c]] = connected[IpOf[c]] + 1]
        /\ phase' = [phase EXCEPT ![c] = "admitted"]
        /\ UNCHANGED <<wsState, subs, forgets>>
    BY <1>2 DEF Ws!AllowConnection
  <2>2. WsTyped' /\ IpOf[c] \in Ws!Ips
    <3>1. IpOf[c] \in Ws!Ips
      BY DEF Ws!Ips
    <3>2. connected' \in [Ws!Ips -> Nat]
      BY <1>t, <2>1, <3>1 DEF WsTyped
    <3> QED
      BY <1>t, <2>1, <3>1, <3>2 DEF WsTyped, Phases, Ws!Ips, Ws!ConnectionState
  <2>3. AddressesCounted'
    <3>1. ASSUME NEW ip \in Ws!Ips
          PROVE  connected'[ip] = Cardinality(Live(ip)') /\ connected'[ip] <= MaxConnectionsPerIp
      <4>1. /\ \A a \in Ws!Ips : a # IpOf[c] => Live(a)' = Live(a)
            /\ Cardinality(Live(IpOf[c])') = Cardinality(Live(IpOf[c])) + 1
        BY <1>t, <2>1, LiveCounted DEF Phases
      <4>2. CASE ip = IpOf[c]
        <5>1. connected[ip] \in Nat /\ connected'[ip] = connected[ip] + 1
          BY <1>t, <2>1, <2>2, <4>2 DEF WsTyped
        <5>2. connected[ip] = Cardinality(Live(ip))
          BY <1>t DEF AddressesCounted
        <5> QED
          BY <2>1, <4>1, <4>2, <5>1, <5>2, WsConstants
      <4>3. CASE ip # IpOf[c]
        <5>1. connected'[ip] = connected[ip]
          BY <1>t, <2>1, <4>3 DEF WsTyped
        <5>2. Live(ip)' = Live(ip)
          BY <4>1, <4>3
        <5> QED
          BY <1>t, <5>1, <5>2 DEF AddressesCounted
      <4> QED
        BY <4>2, <4>3
    <3>2. Ws!Ips' = Ws!Ips
      BY DEF Ws!Ips
    <3> QED
      BY <3>1, <3>2 DEF AddressesCounted
  <2>4. StatesCount'
    <3>1. \A d \in Connections : Ws!StateOf(d)' = Ws!StateOf(d)
      BY <2>1 DEF Ws!StateOf, Ws!New
    <3> QED
      BY <1>t, <2>1, <3>1 DEF StatesCount
  <2>5. OpenOnly'
    BY <1>t, <2>1 DEF OpenOnly, WsTyped
  <2> QED
    BY <2>2, <2>3, <2>4, <2>5 DEF WsInv
\* Steps that give connection c the state s and n subscriptions.
<1>3. ASSUME NEW c \in Connections, NEW s \in Ws!ConnectionState, NEW n \in Nat,
             wsState' = [wsState EXCEPT ![c] = s], subs' = [subs EXCEPT ![c] = n],
             s.subs <= MaxSubscriptions, s.subs <= n,
             n <= s.subs + MaxSubscriptions * forgets[c], s.messages <= MaxMessages,
             phase' = [phase EXCEPT ![c] = "open"], phase[c] \in {"admitted", "open"},
             UNCHANGED <<connected, forgets>>
      PROVE  WsInv'
  <2>1. WsTyped'
    BY <1>t, <1>3 DEF WsTyped, Phases, Ws!Ips, Ws!ConnectionState
  <2>2. \A d \in Connections : phase[d] = "closed" <=> phase'[d] = "closed"
    BY <1>t, <1>3 DEF WsTyped
  <2>3. AddressesCounted'
    BY <1>t, <1>3, <2>2, SameAddresses
  <2>4. StatesCount'
    BY <1>t, <1>3, OtherState
  <2>5. OpenOnly'
    BY <1>t, <1>3 DEF OpenOnly, WsTyped
  <2> QED
    BY <2>1, <2>3, <2>4, <2>5 DEF WsInv
<1>4. ASSUME NEW c \in Connections
      PROVE  /\ subs = [subs EXCEPT ![c] = subs[c]] /\ subs[c] \in Nat /\ forgets[c] \in Nat
             /\ phase[c] = "open" => phase = [phase EXCEPT ![c] = "open"]
             /\ Ws!StateOf(c) \in Ws!ConnectionState /\ Ws!StateOf(c).subs \in Nat
             /\ MaxSubscriptions * forgets[c] \in Nat
             /\ Ws!StateOf(c).subs <= MaxSubscriptions
             /\ Ws!StateOf(c).subs <= subs[c]
             /\ subs[c] <= Ws!StateOf(c).subs + MaxSubscriptions * forgets[c]
             /\ Ws!StateOf(c).messages <= MaxMessages
  <2>1. subs[c] \in Nat /\ forgets[c] \in Nat /\ subs = [subs EXCEPT ![c] = subs[c]]
    BY <1>t DEF WsTyped
  <2>2. phase[c] = "open" => phase = [phase EXCEPT ![c] = "open"]
    BY <1>t DEF WsTyped
  <2>3. Ws!StateOf(c) \in Ws!ConnectionState
    BY <1>t, StateTyped
  <2>4. MaxSubscriptions * forgets[c] \in Nat
    BY <2>1, Times, WsConstants
  <2> QED
    BY <1>t, <1>r, <2>1, <2>2, <2>3, <2>4 DEF StatesCount
<1>5. ASSUME NEW c \in Connections, Ws!RegisterConnection(c) PROVE WsInv'
  <2>1. /\ phase[c] = "admitted" /\ wsState' = [wsState EXCEPT ![c] = Ws!New]
        /\ phase' = [phase EXCEPT ![c] = "open"] /\ UNCHANGED <<connected, subs, forgets>>
    BY <1>5 DEF Ws!RegisterConnection
  <2>2. subs[c] = 0 /\ subs' = [subs EXCEPT ![c] = 0]
    BY <1>4, <1>t, <2>1 DEF OpenOnly
  <2>3. /\ Ws!New.subs <= MaxSubscriptions /\ Ws!New.subs <= 0 /\ 0 \in Nat
        /\ 0 <= Ws!New.subs + MaxSubscriptions * forgets[c] /\ Ws!New.messages <= MaxMessages
    BY <1>4, <1>r, WsConstants
  <2> QED
    BY <1>3, <1>r, <2>1, <2>2, <2>3
<1>6. ASSUME NEW c \in Connections, Ws!AllowSubscription(c) PROVE WsInv'
  <2>r. PICK r \in Ws!ConnectionState, n \in Nat : r = Ws!StateOf(c) /\ n = Ws!StateOf(c).subs + 1
    BY <1>4
  <2> DEFINE s == [r EXCEPT !.subs = n, !.idle = 0]
  <2>1. /\ phase[c] = "open" /\ Ws!StateOf(c).subs < MaxSubscriptions
        /\ wsState' = [wsState EXCEPT ![c] = s]
        /\ subs' = [subs EXCEPT ![c] = subs[c] + 1]
        /\ UNCHANGED <<phase, connected, forgets>>
    BY <1>6, <2>r DEF Ws!AllowSubscription
  <2>2. s \in Ws!ConnectionState /\ s.subs = n /\ s.messages = r.messages
    BY DEF Ws!ConnectionState
  <2> HIDE DEF s
  <2>3. /\ s.subs <= MaxSubscriptions /\ s.subs <= subs[c] + 1 /\ subs[c] + 1 \in Nat
        /\ subs[c] + 1 <= s.subs + MaxSubscriptions * forgets[c] /\ s.messages <= MaxMessages
    BY <1>4, <2>r, <2>1, <2>2, WsConstants
  <2>4. phase' = [phase EXCEPT ![c] = "open"] /\ phase[c] \in {"admitted", "open"}
    BY <1>4, <2>1
  <2> QED
    BY <1>3, <2>1, <2>2, <2>3, <2>4
<1>7. ASSUME NEW c \in Connections, Ws!RefuseSubscription(c) PROVE WsInv'
  BY <1>3, <1>4, <1>7 DEF Ws!RefuseSubscription
<1>8. ASSUME NEW c \in Connections, Ws!SubscriptionEnded(c) PROVE WsInv'
  <2>1. /\ phase[c] = "open" /\ subs[c] > 0
        /\ subs' = [subs EXCEPT ![c] = subs[c] - 1]
        /\ UNCHANGED <<phase, connected, forgets>>
    BY <1>8 DEF Ws!SubscriptionEnded
  <2>2. subs[c] - 1 \in Nat
    BY <1>4, <2>1
  <2>3. CASE wsState[c] = None
    <3>1. wsState' = wsState
      BY <1>8, <2>3 DEF Ws!SubscriptionEnded
    <3>2. Ws!StateOf(c).subs = 0 /\ \A d \in Connections : Ws!StateOf(d)' = Ws!StateOf(d)
      BY <1>r, <2>3, <3>1 DEF Ws!StateOf, Ws!New
    <3>3. \A d \in Connections : subs'[d] = IF d = c THEN subs[c] - 1 ELSE subs[d]
      BY <1>t, <2>1 DEF WsTyped
    <3>4. StatesCount'
      BY <1>4, <1>t, <2>1, <3>2, <3>3 DEF StatesCount
    <3>5. AddressesCounted'
      BY <1>t, <2>1, SameAddresses
    <3>6. WsTyped' /\ OpenOnly'
      BY <1>t, <2>1, <2>2, <3>1, <3>3 DEF WsTyped, OpenOnly, Ws!Ips, Ws!ConnectionState
    <3> QED
      BY <3>4, <3>5, <3>6 DEF WsInv
  <2>4. CASE wsState[c] # None
    <3> DEFINE s == IF wsState[c].subs = 0 THEN wsState[c]
                    ELSE [wsState[c] EXCEPT !.subs = wsState[c].subs - 1]
    <3>1. Ws!StateOf(c) = wsState[c]
      BY <2>4 DEF Ws!StateOf
    <3>2. wsState' = [wsState EXCEPT ![c] = s]
      <4>1. CASE wsState[c].subs = 0
        BY <1>8, <1>t, <2>4, <4>1 DEF Ws!SubscriptionEnded, WsTyped
      <4>2. CASE wsState[c].subs # 0
        BY <1>8, <1>t, <2>4, <4>2 DEF Ws!SubscriptionEnded, WsTyped
      <4> QED
        BY <4>1, <4>2
    <3>3. /\ s \in Ws!ConnectionState /\ s.messages = wsState[c].messages
          /\ s.subs = IF wsState[c].subs = 0 THEN 0 ELSE wsState[c].subs - 1
      BY <1>4, <3>1 DEF Ws!ConnectionState
    <3> HIDE DEF s
    <3>4. s.subs <= subs[c] - 1 /\ s.subs <= MaxSubscriptions
      BY <1>4, <2>1, <3>1, <3>3, WsConstants
    <3>5. subs[c] - 1 <= s.subs + MaxSubscriptions * forgets[c]
      BY <1>4, <2>1, <3>1, <3>3
    <3> QED
      BY <1>3, <1>4, <2>1, <2>2, <3>1, <3>2, <3>3, <3>4, <3>5
  <2> QED
    BY <2>3, <2>4
<1>9. ASSUME NEW c \in Connections, Ws!AllowMessage(c) PROVE WsInv'
  <2> DEFINE o == Ws!Opened(Ws!StateOf(c))
             s == IF o.messages >= MaxMessages THEN o
                  ELSE [o EXCEPT !.messages = o.messages + 1, !.idle = 0]
  <2>1. /\ phase[c] = "open" /\ wsState' = [wsState EXCEPT ![c] = s]
        /\ UNCHANGED <<phase, connected, subs, forgets>>
    BY <1>9 DEF Ws!AllowMessage
  <2>2. /\ o \in Ws!ConnectionState /\ o.subs = Ws!StateOf(c).subs
        /\ o.messages <= MaxMessages
    <3>1. CASE Ws!StateOf(c).started >= MessageWindow
      <4>1. PICK r \in Ws!ConnectionState : r = Ws!StateOf(c)
        BY <1>4
      <4>2. o = [r EXCEPT !.messages = 0, !.started = 0]
        BY <3>1, <4>1 DEF Ws!Opened
      <4> HIDE DEF o
      <4>3. o \in Ws!ConnectionState /\ o.subs = r.subs /\ o.messages = 0
        BY <4>2 DEF Ws!ConnectionState
      <4> QED
        BY <4>1, <4>3, WsConstants
    <3>2. CASE ~(Ws!StateOf(c).started >= MessageWindow)
      BY <1>4, <3>2 DEF Ws!Opened
    <3> QED
      BY <3>1, <3>2
  <2> HIDE DEF o
  <2>3. s \in Ws!ConnectionState /\ s.subs = o.subs /\ s.messages <= MaxMessages
    <3>1. CASE o.messages >= MaxMessages
      BY <2>2, <3>1
    <3>2. CASE ~(o.messages >= MaxMessages)
      <4>1. PICK r \in Ws!ConnectionState, n \in Nat :
               r = o /\ n = o.messages + 1 /\ n <= MaxMessages
        BY <1>r, <2>2, <3>2, WsConstants
      <4>2. s = [r EXCEPT !.messages = n, !.idle = 0]
        BY <3>2, <4>1
      <4> HIDE DEF s
      <4>3. s \in Ws!ConnectionState /\ s.subs = r.subs /\ s.messages = n
        BY <4>2 DEF Ws!ConnectionState
      <4> QED
        BY <4>1, <4>3
    <3> QED
      BY <3>1, <3>2
  <2> HIDE DEF s
  <2> QED
    BY <1>3, <1>4, <2>1, <2>2, <2>3
\* connection_closed, its two locks.
<1>10. ASSUME NEW c \in Connections, Ws!ConnectionClosed(c) PROVE WsInv'
  <2>1. /\ phase[c] \in {"admitted", "open"}
        /\ wsState' = [wsState EXCEPT ![c] = None]
        /\ subs' = [subs EXCEPT ![c] = 0] /\ forgets' = [forgets EXCEPT ![c] = 0]
        /\ phase' = [phase EXCEPT ![c] = "closing"] /\ UNCHANGED connected
    BY <1>10 DEF Ws!ConnectionClosed
  <2>2. WsTyped'
    BY <1>t, <2>1 DEF WsTyped, Phases, Ws!Ips, Ws!ConnectionState
  <2>3. \A d \in Connections : phase[d] = "closed" <=> phase'[d] = "closed"
    BY <1>t, <2>1 DEF WsTyped
  <2>4. AddressesCounted'
    BY <1>t, <2>1, <2>3, SameAddresses
  <2>5. \A d \in Connections :
           IF d = c THEN wsState'[d] = None /\ subs'[d] = 0 /\ forgets'[d] = 0
           ELSE wsState'[d] = wsState[d] /\ subs'[d] = subs[d] /\ forgets'[d] = forgets[d]
    BY <1>t, <2>1 DEF WsTyped
  <2>6. /\ Ws!StateOf(c)' = Ws!New
        /\ \A d \in Connections \ {c} : Ws!StateOf(d)' = Ws!StateOf(d)
    BY <2>5 DEF Ws!StateOf, Ws!New
  <2>7. MaxSubscriptions * 0 = 0
    BY WsConstants
  <2>8. StatesCount'
    BY <1>r, <1>t, <2>5, <2>6, <2>7, WsConstants DEF StatesCount
  <2>9. OpenOnly'
    BY <1>t, <2>1 DEF OpenOnly, WsTyped
  <2> QED
    BY <2>2, <2>4, <2>8, <2>9 DEF WsInv
<1>11. ASSUME NEW c \in Connections, Ws!Release(c) PROVE WsInv'
  <2>1. /\ phase[c] = "closing"
        /\ connected' = [connected EXCEPT ![IpOf[c]] =
                             IF connected[IpOf[c]] = 0 THEN 0 ELSE connected[IpOf[c]] - 1]
        /\ phase' = [phase EXCEPT ![c] = "closed"]
        /\ UNCHANGED <<wsState, subs, forgets>>
    BY <1>11 DEF Ws!Release
  <2>2. IpOf[c] \in Ws!Ips
    BY DEF Ws!Ips
  <2>3. /\ \A a \in Ws!Ips : a # IpOf[c] => Live(a)' = Live(a)
        /\ Cardinality(Live(IpOf[c])') = Cardinality(Live(IpOf[c])) - 1
        /\ Cardinality(Live(IpOf[c])') \in Nat
    <3>1. /\ \A a \in Ws!Ips : a # IpOf[c] => Live(a)' = Live(a)
          /\ Cardinality(Live(IpOf[c])') = Cardinality(Live(IpOf[c])) - 1
      BY <1>t, <2>1, LiveCounted DEF Phases
    <3>2. Live(IpOf[c])' \subseteq Connections
      BY DEF Live
    <3> QED
      BY <3>1, <3>2, WsConstants, FS_Subset, FS_CardinalityType
  <2>4. /\ connected[IpOf[c]] \in Nat
        /\ connected[IpOf[c]] = Cardinality(Live(IpOf[c]))
        /\ connected[IpOf[c]] <= MaxConnectionsPerIp
    BY <1>t, <2>2 DEF WsTyped, AddressesCounted
  <2>5. connected[IpOf[c]] # 0
    <3>1. ASSUME connected[IpOf[c]] = 0 PROVE FALSE
      BY <2>3, <2>4, <3>1
    <3> QED
      BY <3>1
  <2>6. \A ip \in Ws!Ips : connected'[ip] = IF ip = IpOf[c] THEN connected[IpOf[c]] - 1
                                            ELSE connected[ip]
    BY <1>t, <2>1, <2>2, <2>5 DEF WsTyped
  <2>7. WsTyped'
    <3>1. connected[IpOf[c]] - 1 \in Nat
      BY <2>4, <2>5
    <3>2. connected' \in [Ws!Ips -> Nat]
      BY <1>t, <2>1, <2>5, <3>1 DEF WsTyped
    <3> QED
      BY <1>t, <2>1, <3>2 DEF WsTyped, Phases, Ws!Ips, Ws!ConnectionState
  <2>8. AddressesCounted'
    <3>1. Ws!Ips' = Ws!Ips
      BY DEF Ws!Ips
    <3>2. ASSUME NEW ip \in Ws!Ips
          PROVE  connected'[ip] = Cardinality(Live(ip)') /\ connected'[ip] <= MaxConnectionsPerIp
      <4>1. CASE ip = IpOf[c]
        BY <2>3, <2>4, <2>6, <4>1, WsConstants
      <4>2. CASE ip # IpOf[c]
        <5>1. Live(ip)' = Live(ip)
          BY <2>3, <4>2
        <5> QED
          BY <1>t, <2>6, <4>2, <5>1 DEF AddressesCounted
      <4> QED
        BY <4>1, <4>2
    <3> QED
      BY <3>1, <3>2 DEF AddressesCounted
  <2>9. StatesCount'
    <3>1. \A d \in Connections : Ws!StateOf(d)' = Ws!StateOf(d)
      BY <2>1 DEF Ws!StateOf, Ws!New
    <3> QED
      BY <1>t, <2>1, <3>1 DEF StatesCount
  <2>10. OpenOnly'
    BY <1>t, <2>1 DEF OpenOnly, WsTyped
  <2> QED
    BY <2>7, <2>8, <2>9, <2>10 DEF WsInv
<1>12. ASSUME Ws!CleanupStale PROVE WsInv'
  <2> DEFINE stale == {c \in Connections : wsState[c] # None /\ wsState[c].idle > MaxIdle}
  <2>1. /\ wsState' = [c \in Connections |-> IF c \in stale THEN None ELSE wsState[c]]
        /\ forgets' = [c \in Connections |-> forgets[c] + IF c \in stale THEN 1 ELSE 0]
        /\ UNCHANGED <<phase, connected, subs>>
    BY <1>12 DEF Ws!CleanupStale
  <2> HIDE DEF stale
  <2>2. /\ WsTyped' /\ OpenOnly'
    BY <1>t, <2>1 DEF WsTyped, OpenOnly, Phases, Ws!Ips, Ws!ConnectionState
  <2>3. AddressesCounted'
    BY <1>t, <2>1, SameAddresses
  <2>4. ASSUME NEW c \in Connections
        PROVE  /\ Ws!StateOf(c)'.subs <= MaxSubscriptions
               /\ Ws!StateOf(c)'.subs <= subs'[c]
               /\ subs'[c] <= Ws!StateOf(c)'.subs + MaxSubscriptions * forgets'[c]
               /\ Ws!StateOf(c)'.messages <= MaxMessages
    <3>1. CASE c \in stale
      <4>1. Ws!StateOf(c)' = Ws!New /\ forgets'[c] = forgets[c] + 1 /\ subs'[c] = subs[c]
        BY <2>1, <3>1 DEF Ws!StateOf, Ws!New
      <4>2. MaxSubscriptions * (forgets[c] + 1) = MaxSubscriptions * forgets[c] + MaxSubscriptions
        BY <1>4, Times, WsConstants
      <4> QED
        BY <1>4, <1>r, <4>1, <4>2, WsConstants
    <3>2. CASE c \notin stale
      <4>1. Ws!StateOf(c)' = Ws!StateOf(c) /\ subs'[c] = subs[c] /\ forgets'[c] = forgets[c]
        <5>1. forgets'[c] = forgets[c] + 0 /\ wsState'[c] = wsState[c]
          BY <2>1, <3>2
        <5> QED
          BY <1>4, <2>1, <5>1 DEF Ws!StateOf, Ws!New
      <4> QED
        BY <1>4, <4>1
    <3> QED
      BY <3>1, <3>2
  <2>5. StatesCount'
    BY <2>4 DEF StatesCount
  <2> QED
    BY <2>2, <2>3, <2>5 DEF WsInv
<1>13. ASSUME Ws!Tick PROVE WsInv'
  <2> DEFINE aged(c) == [wsState[c] EXCEPT
                            !.started = IF wsState[c].started < MessageWindow
                                        THEN wsState[c].started + 1 ELSE wsState[c].started,
                            !.idle = IF wsState[c].idle <= MaxIdle
                                     THEN wsState[c].idle + 1 ELSE wsState[c].idle]
  <2>1. /\ wsState' = [c \in Connections |-> IF wsState[c] = None THEN None ELSE aged(c)]
        /\ UNCHANGED <<phase, connected, subs, forgets>>
    BY <1>13 DEF Ws!Tick
  <2>2. ASSUME NEW c \in Connections, wsState[c] # None
        PROVE  /\ aged(c) \in Ws!ConnectionState /\ aged(c).subs = wsState[c].subs
               /\ aged(c).messages = wsState[c].messages
    <3>1. wsState[c] \in Ws!ConnectionState
      BY <1>t, <2>2 DEF WsTyped
    <3>2. PICK r \in Ws!ConnectionState, n \in Nat, k \in Nat :
              /\ r = wsState[c]
              /\ n = IF r.started < MessageWindow THEN r.started + 1 ELSE r.started
              /\ k = IF r.idle <= MaxIdle THEN r.idle + 1 ELSE r.idle
      BY <1>r, <3>1
    <3>3. aged(c) = [r EXCEPT !.started = n, !.idle = k]
      BY <3>2
    <3> HIDE DEF aged
    <3>4. /\ aged(c) \in Ws!ConnectionState /\ aged(c).subs = r.subs
          /\ aged(c).messages = r.messages
      BY <3>3 DEF Ws!ConnectionState
    <3> QED
      BY <3>2, <3>4
  <2> HIDE DEF aged
  <2>3. WsTyped' /\ OpenOnly'
    BY <1>t, <2>1, <2>2 DEF WsTyped, OpenOnly, Phases, Ws!Ips, Ws!ConnectionState
  <2>4. AddressesCounted'
    BY <1>t, <2>1, SameAddresses
  <2>5. \A c \in Connections : /\ Ws!StateOf(c)'.subs = Ws!StateOf(c).subs
                               /\ Ws!StateOf(c)'.messages = Ws!StateOf(c).messages
    <3> TAKE c \in Connections
    <3>1. CASE wsState[c] = None
      <4>1. wsState'[c] = None
        BY <2>1, <3>1
      <4> QED
        BY <3>1, <4>1 DEF Ws!StateOf, Ws!New
    <3>2. CASE wsState[c] # None
      <4>1. wsState'[c] = aged(c) /\ wsState'[c] # None
        BY <2>1, <2>2, <3>2, WsConstants
      <4> QED
        BY <2>2, <3>2, <4>1 DEF Ws!StateOf
    <3> QED
      BY <3>1, <3>2
  <2>6. StatesCount'
    BY <1>t, <2>1, <2>5 DEF StatesCount
  <2> QED
    BY <2>3, <2>4, <2>6 DEF WsInv
<1>14. ASSUME ~WsNext PROVE WsInv'
  BY <1>1, <1>14 DEF GuardsNext, RateNext, CallsNext, BreakerNext, SubscriptionNext, guardVars
<1>15. ASSUME WsNext PROVE WsInv'
  BY <1>2, <1>5, <1>6, <1>7, <1>8, <1>9, <1>10, <1>11, <1>12, <1>13, <1>15 DEF WsNext, Ws!Next
<1> QED
  BY <1>14, <1>15

-----------------------------------------------------------------------------
(* The slots of the enhanced breaker and the time at which it opened.      *)

LEMMA SlotCount == \A S : Breaker!Cardinality(S) = Cardinality(S)
  BY DEF Breaker!Cardinality, Cardinality

LEMMA BreakerConstants ==
    IsFiniteSet(BreakerCallers) /\ BreakerSlots \in Nat /\ OpenTime \in Nat
<1>1. \A S : Breaker!IsFiniteSet(S) <=> IsFiniteSet(S)
  BY DEF Breaker!IsFiniteSet, IsFiniteSet
<1> QED
  BY <1>1, GuardsAssumption DEF GuardsAssumption, Breaker!EnhancedAssumption

\* What a caller is about to do: without a slot, or with one.
Slotless == {"idle", "elapsed", "toHalfOpen", "acquire", "succeeded", "countSuccess",
             "toClosed", "failed", "count", "rate", "toOpen"}
Stages == Slotless \cup {"running", "giveBack"}

BreakerTyped ==
    /\ breakerState \in {"closed", "open", "halfOpen"}
    /\ opened \in Int
    /\ concurrent \in Int
    /\ leaked \in Nat
    /\ breakerPc \in [BreakerCallers -> Stages]

BreakerInv == BreakerTyped /\ Breaker!SlotsCounted /\ Breaker!Dated

LEMMA BreakerInit == GuardsInit => BreakerInv
<1> SUFFICES ASSUME GuardsInit PROVE BreakerInv
  OBVIOUS
<1>1. /\ breakerState = "closed" /\ opened = -1 /\ concurrent = 0 /\ leaked = 0
      /\ breakerPc = [c \in BreakerCallers |-> "idle"]
  BY DEF GuardsInit, Breaker!Init
<1>2. BreakerTyped
  BY <1>1 DEF BreakerTyped, Stages, Slotless
<1>3. Breaker!At("running") = {} /\ Breaker!At("giveBack") = {}
  BY <1>1 DEF Breaker!At
<1>4. Breaker!SlotsCounted
  BY <1>1, <1>3, FS_EmptySet, SlotCount, BreakerConstants DEF Breaker!SlotsCounted
<1>5. Breaker!Dated
  BY <1>1 DEF Breaker!Dated
<1> QED
  BY <1>2, <1>4, <1>5 DEF BreakerInv

\* How many callers are at a stage, when one of them goes to another.
LEMMA StageCounted ==
    ASSUME BreakerTyped, NEW c \in BreakerCallers, NEW q \in Stages, NEW stage \in Stages,
           breakerPc' = [breakerPc EXCEPT ![c] = q]
    PROVE  /\ Cardinality(Breaker!At(stage)) \in Nat
           /\ breakerPc[c] # stage /\ q = stage =>
                 Cardinality(Breaker!At(stage)') = Cardinality(Breaker!At(stage)) + 1
           /\ breakerPc[c] = stage /\ q # stage =>
                 Cardinality(Breaker!At(stage)') = Cardinality(Breaker!At(stage)) - 1
           /\ breakerPc[c] # stage /\ q # stage => Breaker!At(stage)' = Breaker!At(stage)
<1>1. Breaker!At(stage) \subseteq BreakerCallers
  BY DEF Breaker!At
<1>2. IsFiniteSet(Breaker!At(stage)) /\ Cardinality(Breaker!At(stage)) \in Nat
  BY <1>1, BreakerConstants, FS_Subset, FS_CardinalityType
<1>3. \A d \in BreakerCallers : breakerPc'[d] = IF d = c THEN q ELSE breakerPc[d]
  BY DEF BreakerTyped
<1>4. ASSUME breakerPc[c] # stage, q = stage
      PROVE  Cardinality(Breaker!At(stage)') = Cardinality(Breaker!At(stage)) + 1
  <2>1. Breaker!At(stage)' = Breaker!At(stage) \cup {c} /\ c \notin Breaker!At(stage)
    BY <1>3, <1>4 DEF Breaker!At
  <2> QED
    BY <1>2, <2>1, FS_AddElement
<1>5. ASSUME breakerPc[c] = stage, q # stage
      PROVE  Cardinality(Breaker!At(stage)') = Cardinality(Breaker!At(stage)) - 1
  <2>1. Breaker!At(stage)' = Breaker!At(stage) \ {c} /\ c \in Breaker!At(stage)
    BY <1>3, <1>5 DEF Breaker!At
  <2> QED
    BY <1>2, <2>1, FS_RemoveElement
<1>6. ASSUME breakerPc[c] # stage, q # stage PROVE Breaker!At(stage)' = Breaker!At(stage)
  BY <1>3, <1>6 DEF Breaker!At
<1> QED
  BY <1>2, <1>4, <1>5, <1>6

\* A step of a caller that neither takes nor frees a slot.
LEMMA SlotsStay ==
    ASSUME BreakerInv, NEW c \in BreakerCallers, NEW q \in Slotless,
           breakerPc[c] \in Slotless, breakerPc' = [breakerPc EXCEPT ![c] = q],
           UNCHANGED <<concurrent, leaked>>
    PROVE  Breaker!SlotsCounted' /\ breakerPc' \in [BreakerCallers -> Stages]
<1>1. /\ "running" \in Stages /\ "giveBack" \in Stages /\ q \in Stages
      /\ q \notin {"running", "giveBack"} /\ breakerPc[c] \notin {"running", "giveBack"}
  BY DEF Stages, Slotless
<1>2. /\ Breaker!At("running")' = Breaker!At("running")
      /\ Breaker!At("giveBack")' = Breaker!At("giveBack")
  BY <1>1, StageCounted DEF BreakerInv
<1>3. Breaker!SlotsCounted'
  BY <1>2 DEF BreakerInv, Breaker!SlotsCounted
<1> QED
  BY <1>1, <1>3 DEF BreakerInv, BreakerTyped

LEMMA BreakerStep == BreakerInv /\ [GuardsNext]_guardVars => BreakerInv'
<1> SUFFICES ASSUME BreakerInv, [GuardsNext]_guardVars PROVE BreakerInv'
  OBVIOUS
<1>t. BreakerTyped /\ Breaker!SlotsCounted /\ Breaker!Dated
  BY DEF BreakerInv
<1>n. "running" \in Stages /\ "giveBack" \in Stages /\ Slotless \subseteq Stages
  BY DEF Stages
<1>1. ASSUME UNCHANGED breakerVars PROVE BreakerInv'
  <2>1. UNCHANGED <<breakerState, opened, concurrent, leaked, breakerPc>>
    BY <1>1 DEF breakerVars
  <2> QED
    BY <1>t, <2>1 DEF BreakerInv, BreakerTyped, Breaker!SlotsCounted, Breaker!Dated, Breaker!At
\* The slots as the numbers of their holders.
<1>2. PICK r \in Nat, g \in Nat :
         /\ r = Cardinality(Breaker!At("running")) /\ g = Cardinality(Breaker!At("giveBack"))
         /\ concurrent = r + g + leaked /\ r + leaked <= BreakerSlots
  <2>1. /\ Breaker!At("running") \subseteq BreakerCallers
        /\ Breaker!At("giveBack") \subseteq BreakerCallers
    BY DEF Breaker!At
  <2>2. /\ Cardinality(Breaker!At("running")) \in Nat
        /\ Cardinality(Breaker!At("giveBack")) \in Nat
    BY <2>1, BreakerConstants, FS_Subset, FS_CardinalityType
  <2> QED
    BY <1>t, <2>2, SlotCount DEF Breaker!SlotsCounted
<1>3. ASSUME NEW c \in BreakerCallers, NEW q \in Slotless, breakerPc[c] \in Slotless,
             breakerPc' = [breakerPc EXCEPT ![c] = q],
             UNCHANGED <<breakerState, opened, concurrent, leaked>>
      PROVE  BreakerInv'
  <2>1. Breaker!SlotsCounted' /\ breakerPc' \in [BreakerCallers -> Stages]
    BY <1>3, SlotsStay
  <2> QED
    BY <1>t, <1>3, <2>1 DEF BreakerInv, BreakerTyped, Breaker!Dated
<1>4. ASSUME NEW c \in BreakerCallers, Breaker!Call(c) PROVE BreakerInv'
  BY <1>3, <1>4 DEF Breaker!Call, Breaker!Go, Slotless
<1>5. ASSUME NEW c \in BreakerCallers, Breaker!Elapsed(c) PROVE BreakerInv'
  BY <1>3, <1>5 DEF Breaker!Elapsed, Breaker!Go, Slotless
<1>6. ASSUME NEW c \in BreakerCallers, Breaker!ToHalfOpen(c) PROVE BreakerInv'
  <2>1. /\ breakerPc[c] \in Slotless /\ "acquire" \in Slotless
        /\ breakerPc' = [breakerPc EXCEPT ![c] = "acquire"]
        /\ breakerState' = "halfOpen" /\ UNCHANGED <<opened, concurrent, leaked>>
    BY <1>6 DEF Breaker!ToHalfOpen, Breaker!Go, Slotless
  <2>2. Breaker!SlotsCounted' /\ breakerPc' \in [BreakerCallers -> Stages]
    BY <2>1, SlotsStay
  <2> QED
    BY <1>t, <2>1, <2>2 DEF BreakerInv, BreakerTyped, Breaker!Dated
<1>7. ASSUME NEW c \in BreakerCallers, Breaker!Acquire(c) PROVE BreakerInv'
  <2>1. /\ breakerPc[c] = "acquire" /\ concurrent' = concurrent + 1
        /\ breakerPc' = [breakerPc EXCEPT ![c] = IF concurrent >= BreakerSlots
                                                 THEN "giveBack" ELSE "running"]
        /\ UNCHANGED <<breakerState, opened, leaked>>
    BY <1>7 DEF Breaker!Acquire, Breaker!Go
  <2>2. Breaker!SlotsCounted'
    <3>1. CASE concurrent >= BreakerSlots
      <4>1. breakerPc' = [breakerPc EXCEPT ![c] = "giveBack"]
        BY <2>1, <3>1
      <4>2. /\ Cardinality(Breaker!At("running")') = r
            /\ Cardinality(Breaker!At("giveBack")') = g + 1
        BY ZenonT(60), <1>t, <1>n, <1>2, <2>1, <4>1, StageCounted
      <4> QED
        BY <1>t, <1>2, <2>1, <4>2, SlotCount DEF Breaker!SlotsCounted, BreakerTyped
    <3>2. CASE ~(concurrent >= BreakerSlots)
      <4>1. breakerPc' = [breakerPc EXCEPT ![c] = "running"]
        BY <2>1, <3>2
      <4>2. /\ Cardinality(Breaker!At("running")') = r + 1
            /\ Cardinality(Breaker!At("giveBack")') = g
        BY ZenonT(60), <1>t, <1>n, <1>2, <2>1, <4>1, StageCounted
      <4>3. r + 1 + leaked <= BreakerSlots
        BY <1>t, <1>2, <3>2, BreakerConstants DEF BreakerTyped
      <4> QED
        BY <1>t, <1>2, <2>1, <4>2, <4>3, SlotCount DEF Breaker!SlotsCounted, BreakerTyped
    <3> QED
      BY <3>1, <3>2
  <2>3. BreakerTyped'
    BY <1>t, <1>n, <2>1 DEF BreakerTyped
  <2> QED
    BY <1>t, <2>1, <2>2, <2>3 DEF BreakerInv, Breaker!Dated
\* A caller frees its slot: the operation has ended, or was one too many.
<1>8. ASSUME NEW c \in BreakerCallers, NEW q \in Slotless,
             breakerPc[c] \in {"running", "giveBack"},
             breakerPc' = [breakerPc EXCEPT ![c] = q], concurrent' = concurrent - 1,
             UNCHANGED <<breakerState, opened, leaked>>
      PROVE  BreakerInv'
  <2>1. q \in Stages /\ q \notin {"running", "giveBack"}
    BY DEF Stages, Slotless
  <2>2. Breaker!SlotsCounted'
    <3>1. CASE breakerPc[c] = "running"
      <4>1. /\ Cardinality(Breaker!At("running")') = r - 1
            /\ Cardinality(Breaker!At("giveBack")') = g
        BY <1>t, <1>n, <1>2, <1>8, <2>1, <3>1, StageCounted
      <4> QED
        BY <1>t, <1>2, <1>8, <4>1, SlotCount, BreakerConstants
           DEF Breaker!SlotsCounted, BreakerTyped
    <3>2. CASE breakerPc[c] = "giveBack"
      <4>1. /\ Cardinality(Breaker!At("running")') = r
            /\ Cardinality(Breaker!At("giveBack")') = g - 1
        BY <1>t, <1>n, <1>2, <1>8, <2>1, <3>2, StageCounted
      <4> QED
        BY <1>t, <1>2, <1>8, <4>1, SlotCount DEF Breaker!SlotsCounted, BreakerTyped
    <3> QED
      BY <1>8, <3>1, <3>2
  <2>3. BreakerTyped'
    BY <1>t, <1>8, <2>1 DEF BreakerTyped
  <2> QED
    BY <1>t, <1>8, <2>2, <2>3 DEF BreakerInv, Breaker!Dated
<1>9. ASSUME NEW c \in BreakerCallers, Breaker!GiveBack(c) PROVE BreakerInv'
  BY <1>8, <1>9 DEF Breaker!GiveBack, Breaker!Go, Slotless
<1>10. ASSUME NEW c \in BreakerCallers, NEW ok \in BOOLEAN, Breaker!Finish(c, ok)
       PROVE  BreakerInv'
  BY <1>8, <1>10 DEF Breaker!Finish, Breaker!Go, Slotless
<1>11. ASSUME NEW c \in BreakerCallers, Breaker!Succeeded(c) PROVE BreakerInv'
  BY <1>3, <1>11 DEF Breaker!Succeeded, Breaker!Go, Slotless
<1>12. ASSUME NEW c \in BreakerCallers, Breaker!CountSuccess(c) PROVE BreakerInv'
  BY <1>3, <1>12 DEF Breaker!CountSuccess, Breaker!Go, Slotless
<1>13. ASSUME NEW c \in BreakerCallers, Breaker!ToClosed(c) PROVE BreakerInv'
  <2>1. /\ breakerPc[c] \in Slotless /\ "idle" \in Slotless
        /\ breakerPc' = [breakerPc EXCEPT ![c] = "idle"]
        /\ breakerState' = "closed" /\ opened' = -1 /\ UNCHANGED <<concurrent, leaked>>
    BY <1>13 DEF Breaker!ToClosed, Breaker!Go, Slotless
  <2>2. Breaker!SlotsCounted' /\ breakerPc' \in [BreakerCallers -> Stages]
    BY <2>1, SlotsStay
  <2> QED
    BY <1>t, <2>1, <2>2 DEF BreakerInv, BreakerTyped, Breaker!Dated
<1>14. ASSUME NEW c \in BreakerCallers, Breaker!Failed(c) PROVE BreakerInv'
  BY <1>t, <1>3, <1>14 DEF Breaker!Failed, Breaker!Go, Slotless, BreakerTyped
<1>15. ASSUME NEW c \in BreakerCallers, Breaker!CountRequests(c) PROVE BreakerInv'
  BY <1>3, <1>15 DEF Breaker!CountRequests, Breaker!Go, Slotless
<1>16. ASSUME NEW c \in BreakerCallers, Breaker!ErrorRate(c) PROVE BreakerInv'
  BY <1>3, <1>16 DEF Breaker!ErrorRate, Breaker!Go, Slotless
<1>17. ASSUME NEW c \in BreakerCallers, Breaker!ToOpen(c) PROVE BreakerInv'
  <2>1. /\ breakerPc[c] \in Slotless /\ "idle" \in Slotless
        /\ breakerPc' = [breakerPc EXCEPT ![c] = "idle"]
        /\ breakerState' = "open" /\ opened' = (IF breakerState = "open" THEN opened ELSE 0)
        /\ UNCHANGED <<concurrent, leaked>>
    BY <1>17 DEF Breaker!ToOpen, Breaker!Go, Slotless
  <2>2. Breaker!SlotsCounted' /\ breakerPc' \in [BreakerCallers -> Stages]
    BY <2>1, SlotsStay
  <2> QED
    BY <1>t, <2>1, <2>2 DEF BreakerInv, BreakerTyped, Breaker!Dated
\* The slot of a dropped operation stays taken.
<1>18. ASSUME NEW c \in BreakerCallers, Breaker!Drop(c) PROVE BreakerInv'
  <2>1. /\ breakerPc[c] # "giveBack" /\ breakerPc' = [breakerPc EXCEPT ![c] = "idle"]
        /\ leaked' = IF breakerPc[c] = "running" THEN leaked + 1 ELSE leaked
        /\ UNCHANGED <<breakerState, opened, concurrent>> /\ "idle" \in Slotless
    BY <1>18 DEF Breaker!Drop, Breaker!Go, Slotless
  <2>2. CASE breakerPc[c] = "running"
    <3>1. /\ Cardinality(Breaker!At("running")') = r - 1
          /\ Cardinality(Breaker!At("giveBack")') = g
      <4>1. "idle" \in Stages
        BY <1>n, <2>1
      <4> QED
        BY <1>t, <1>n, <1>2, <2>1, <2>2, <4>1, StageCounted
    <3>2. Breaker!SlotsCounted'
      BY <1>t, <1>2, <2>1, <2>2, <3>1, SlotCount, BreakerConstants
         DEF Breaker!SlotsCounted, BreakerTyped
    <3>3. BreakerTyped'
      BY <1>t, <1>n, <2>1, <2>2 DEF BreakerTyped
    <3> QED
      BY <1>t, <2>1, <3>2, <3>3 DEF BreakerInv, Breaker!Dated
  <2>3. CASE breakerPc[c] # "running"
    <3>1. breakerPc[c] \in Slotless
      BY <1>t, <2>1, <2>3 DEF BreakerTyped, Stages
    <3> QED
      BY <1>3, <2>1, <2>3, <3>1
  <2> QED
    BY <2>2, <2>3
<1>19. ASSUME Breaker!Tick PROVE BreakerInv'
  <2>1. /\ opened' = IF opened \in 0 .. OpenTime - 1 THEN opened + 1 ELSE opened
        /\ UNCHANGED <<breakerState, concurrent, leaked, breakerPc>>
    BY <1>19 DEF Breaker!Tick
  <2> QED
    BY <1>t, <2>1 DEF BreakerInv, BreakerTyped, Breaker!SlotsCounted, Breaker!Dated, Breaker!At
<1>20. ASSUME Breaker!Heal PROVE BreakerInv'
  <2>1. UNCHANGED <<breakerState, opened, concurrent, leaked, breakerPc>>
    BY <1>20 DEF Breaker!Heal
  <2> QED
    BY <1>t, <2>1 DEF BreakerInv, BreakerTyped, Breaker!SlotsCounted, Breaker!Dated, Breaker!At
<1>21. ASSUME ~BreakerNext PROVE BreakerInv'
  BY <1>1, <1>21 DEF GuardsNext, RateNext, WsNext, CallsNext, SubscriptionNext, guardVars
<1>22. ASSUME BreakerNext PROVE BreakerInv'
  BY <1>4, <1>5, <1>6, <1>7, <1>9, <1>10, <1>11, <1>12, <1>13, <1>14, <1>15, <1>16, <1>17,
     <1>18, <1>19, <1>20, <1>22 DEF BreakerNext, Breaker!Next, Breaker!Step
<1> QED
  BY <1>21, <1>22

-----------------------------------------------------------------------------
\* Every counter and semaphore that bounds what is held counts what is held:
\* the connections of an address and the subscriptions of a connection
\* (ws_rate_limit.rs), the slots of the enhanced breaker and the time at which
\* it opened (enhanced_circuit_breaker.rs), the permits of the bulkhead and the
\* attempts of with_resilience (bulkhead.rs, resilience.rs).
THEOREM HeldAreCounted == GuardsSpec => []HeldCounted
<1> DEFINE Inv == WsInv /\ BreakerInv /\ CallsInv
<1>1. GuardsInit => Inv
  BY WsInit, BreakerInit, CallsInit
<1>2. Inv /\ [GuardsNext]_guardVars => Inv'
  BY WsStep, BreakerStep, CallsStep
<1>3. Inv => HeldCounted
  BY WsInvIs, CallsInvIs DEF BreakerInv, HeldCounted
<1> HIDE DEF Inv
<1> QED
  BY <1>1, <1>2, <1>3, PTL DEF GuardsSpec

-----------------------------------------------------------------------------
(* What a stream gives its client, of a channel and between two of its     *)
(* events: the lemmas are about any sequence of events.                    *)

LEMMA StreamCount == \A S : Subscription!Cardinality(S) = Cardinality(S)
  BY DEF Subscription!Cardinality, Cardinality

LEMMA StreamConstants ==
    /\ IsFiniteSet(Subscribers) /\ \A s \in Subscribers : Filter[s].field \in Subscription!Fields
    /\ None \notin ApiInstances /\ None \notin EventPartitions \X Nat
    /\ Capacity \in Nat \ {0}
<1>1. \A S : Subscription!IsFiniteSet(S) <=> IsFiniteSet(S)
  BY DEF Subscription!IsFiniteSet, IsFiniteSet
<1> QED
  BY <1>1, GuardsAssumption DEF GuardsAssumption, Subscription!SubscriptionsAssumption

Records == EventPartitions \X Nat

\* Of the events a + 1 .. b of a channel but the skipped ones, those that s wants.
WantedOf(s, log, a, b, skips) ==
    {n \in a + 1 .. b : n \notin skips /\ Subscription!Wants(s, EventLog[log[n][1]][log[n][2]])}

\* The place of n among the numbers of W.
Rank(W, n) == Cardinality({m \in W : m <= n})

\* How often r is among the first b of a sequence.
Occurs(q, b, r) == Cardinality({n \in 1..b : q[n] = r})

\* The stream has given just the wanted events, in their order.
Given(s, log, a, b, skips, g) ==
    LET W == WantedOf(s, log, a, b, skips)
    IN  /\ a <= b /\ b <= Len(log)
        /\ \A n \in skips : n <= Len(log) - Capacity
        /\ Len(g) = Cardinality(W)
        /\ \A k \in 1..Len(g) : \E n \in W : Rank(W, n) = k /\ g[k] = log[n]
        /\ \A r : Occurs(g, Len(g), r) <= Occurs(log, b, r)

LEMMA OccursTyped ==
    ASSUME NEW q, NEW b \in Nat, NEW r
    PROVE  IsFiniteSet({n \in 1..b : q[n] = r}) /\ Occurs(q, b, r) \in Nat
<1>1. IsFiniteSet(1..b) /\ {n \in 1..b : q[n] = r} \subseteq 1..b
  BY FS_Interval
<1> QED
  BY <1>1, FS_Subset, FS_CardinalityType DEF Occurs

LEMMA OccursNext ==
    ASSUME NEW q, NEW b \in Nat, NEW r
    PROVE  Occurs(q, b + 1, r) = Occurs(q, b, r) + IF q[b + 1] = r THEN 1 ELSE 0
<1> DEFINE T == {n \in 1..b : q[n] = r}
<1>1. IsFiniteSet(T) /\ Cardinality(T) \in Nat
  BY OccursTyped DEF Occurs
<1>2. CASE q[b + 1] = r
  <2>1. {n \in 1..b + 1 : q[n] = r} = T \cup {b + 1} /\ b + 1 \notin T
    BY <1>2
  <2> HIDE DEF T
  <2>2. Cardinality(T \cup {b + 1}) = Cardinality(T) + 1
    BY <1>1, <2>1, FS_AddElement
  <2> QED
    BY <1>2, <2>1, <2>2 DEF Occurs, T
<1>3. CASE q[b + 1] # r
  <2>1. {n \in 1..b + 1 : q[n] = r} = T
    BY <1>3
  <2> QED
    BY <1>1, <1>3, <2>1 DEF Occurs
<1> QED
  BY <1>2, <1>3

LEMMA OccursGrow ==
    ASSUME NEW q, NEW b \in Nat, NEW d \in Nat, b <= d, NEW r
    PROVE  Occurs(q, b, r) <= Occurs(q, d, r)
<1>1. {n \in 1..b : q[n] = r} \in SUBSET {n \in 1..d : q[n] = r}
  OBVIOUS
<1>2. IsFiniteSet({n \in 1..d : q[n] = r})
  BY OccursTyped
<1>3. Cardinality({n \in 1..b : q[n] = r}) <= Cardinality({n \in 1..d : q[n] = r})
  BY <1>1, <1>2, FS_Subset
<1> QED
  BY <1>3 DEF Occurs

\* The first b of a sequence, if they stay.
LEMMA OccursSame ==
    ASSUME NEW q, NEW p, NEW b \in Nat, \A n \in 1..b : q[n] = p[n], NEW r
    PROVE  Occurs(q, b, r) = Occurs(p, b, r)
<1>1. {n \in 1..b : q[n] = r} = {n \in 1..b : p[n] = r}
  OBVIOUS
<1> QED
  BY <1>1 DEF Occurs

LEMMA WantedTyped ==
    ASSUME NEW s, NEW log, NEW a \in Nat, NEW b \in Nat, NEW skips
    PROVE  LET W == WantedOf(s, log, a, b, skips)
           IN  IsFiniteSet(W) /\ W \subseteq a + 1 .. b /\ Cardinality(W) \in Nat
<1>1. IsFiniteSet(a + 1 .. b)
  BY a + 1 \in Int, b \in Int, FS_Interval
<1>2. WantedOf(s, log, a, b, skips) \subseteq a + 1 .. b
  BY DEF WantedOf
<1> QED
  BY <1>1, <1>2, FS_Subset, FS_CardinalityType

\* Two numbers have two places.
LEMMA RanksDiffer ==
    ASSUME NEW W, IsFiniteSet(W), W \subseteq Nat, NEW m \in W, NEW n \in W, m < n
    PROVE  Rank(W, m) # Rank(W, n)
<1> DEFINE M == {k \in W : k <= m}
           N == {k \in W : k <= n}
<1>0. m \in Nat /\ n \in Nat /\ \A k \in W : k \in Nat
  OBVIOUS
<1>1. M \subseteq N /\ n \in N /\ n \notin M /\ N \subseteq W
  <2>1. \A k \in W : k <= m => k <= n
    BY <1>0
  <2>2. n <= n /\ ~(n <= m)
    BY <1>0
  <2> QED
    BY <2>1, <2>2
<1>2. IsFiniteSet(N)
  BY <1>1, FS_Subset
<1>3. Cardinality(N) # Cardinality(M)
  <2> HIDE DEF M, N
  <2> QED
    BY <1>1, <1>2, FS_Subset
<1> QED
  BY <1>3 DEF Rank

\* A number beyond those of W comes last.
LEMMA RanksKept ==
    ASSUME NEW W, IsFiniteSet(W), W \subseteq Nat, NEW n \in Nat, \A m \in W : m < n
    PROVE  /\ \A m \in W : Rank(W \cup {n}, m) = Rank(W, m)
           /\ Rank(W \cup {n}, n) = Cardinality(W) + 1
           /\ Cardinality(W \cup {n}) = Cardinality(W) + 1
<1>1. Cardinality(W \cup {n}) = Cardinality(W) + 1
  <2>1. n \notin W
    OBVIOUS
  <2> QED
    BY <2>1, FS_AddElement
<1>2. {k \in W \cup {n} : k <= n} = W \cup {n}
  <2>1. \A k \in W \cup {n} : k <= n
    OBVIOUS
  <2> QED
    BY <2>1
<1>3. \A m \in W : {k \in W \cup {n} : k <= m} = {k \in W : k <= m}
  <2> TAKE m \in W
  <2>1. ~(n <= m)
    OBVIOUS
  <2> QED
    BY <2>1
<1> QED
  BY <1>1, <1>2, <1>3 DEF Rank

LEMMA GivenNothing ==
    ASSUME NEW s, NEW S, NEW log \in Seq(S)
    PROVE  Given(s, log, Len(log), Len(log), {}, <<>>)
<1> DEFINE W == WantedOf(s, log, Len(log), Len(log), {})
<1>1. Len(log) \in Nat /\ W = {} /\ Len(<<>>) = 0
  BY DEF WantedOf
<1>2. Cardinality(W) = 0
  BY <1>1, FS_EmptySet
<1>3. \A r : Occurs(<<>>, 0, r) = 0
  <2> TAKE r
  <2>1. {n \in 1..0 : <<>>[n] = r} = {}
    OBVIOUS
  <2> QED
    BY <2>1, FS_EmptySet DEF Occurs
<1>4. \A r : Occurs(log, Len(log), r) \in Nat
  BY <1>1, OccursTyped
<1> QED
  BY <1>1, <1>2, <1>3, <1>4 DEF Given

LEMMA GivenLonger ==
    ASSUME NEW s, NEW S, NEW log \in Seq(S), NEW x \in S, NEW a \in Nat, NEW b \in Nat,
           NEW skips \in SUBSET Nat, NEW g, Given(s, log, a, b, skips, g)
    PROVE  Given(s, Append(log, x), a, b, skips, g)
<1> DEFINE more == Append(log, x)
<1>1. Len(log) \in Nat /\ Len(more) = Len(log) + 1 /\ \A n \in 1..Len(log) : more[n] = log[n]
  OBVIOUS
<1>2. a <= b /\ b <= Len(log)
  BY DEF Given
<1> HIDE DEF more
<1>3. \A n \in a + 1 .. b : more[n] = log[n]
  BY <1>1, <1>2
<1>4. WantedOf(s, more, a, b, skips) = WantedOf(s, log, a, b, skips)
  BY <1>3 DEF WantedOf
<1>5. WantedOf(s, log, a, b, skips) \subseteq a + 1 .. b
  BY WantedTyped
<1>6. \A r : Occurs(more, b, r) = Occurs(log, b, r)
  <2>1. \A n \in 1..b : more[n] = log[n]
    BY <1>1, <1>2
  <2> QED
    BY <2>1, OccursSame
<1>7. \A n \in skips : n <= Len(more) - Capacity
  BY <1>1, StreamConstants DEF Given
<1>8. Given(s, more, a, b, skips, g)
  <2> DEFINE W == WantedOf(s, log, a, b, skips)
  <2>1. /\ Len(g) = Cardinality(W)
        /\ \A k \in 1..Len(g) : \E n \in W : Rank(W, n) = k /\ g[k] = log[n]
        /\ \A r : Occurs(g, Len(g), r) <= Occurs(log, b, r)
    BY DEF Given
  <2>2. \A n \in W : more[n] = log[n]
    BY <1>3, <1>5
  <2>3. \A k \in 1..Len(g) : \E n \in W : Rank(W, n) = k /\ g[k] = more[n]
    BY <2>1, <2>2
  <2> HIDE DEF W
  <2>4. WantedOf(s, more, a, b, skips) = W
    BY <1>4 DEF W
  <2>5. a <= b /\ b <= Len(more)
    BY <1>1, <1>2
  <2> QED
    BY <1>6, <1>7, <2>1, <2>3, <2>4, <2>5 DEF Given
<1> QED
  BY <1>8 DEF more

\* A lag: the stream goes on at the oldest event that is still there.
LEMMA GivenLagged ==
    ASSUME NEW s, NEW S, NEW log \in Seq(S), NEW a \in Nat, NEW b \in Nat,
           NEW skips \in SUBSET Nat, NEW g, Given(s, log, a, b, skips, g),
           b < Len(log) - Capacity
    PROVE  Given(s, log, a, Len(log) - Capacity, skips \cup (b + 1 .. Len(log) - Capacity), g)
<1>1. PICK o \in Nat : o = Len(log) - Capacity /\ b < o /\ o <= Len(log)
  BY StreamConstants
<1>2. a <= b /\ \A n \in skips : n <= o
  BY <1>1 DEF Given
<1>3. WantedOf(s, log, a, o, skips \cup (b + 1 .. o)) = WantedOf(s, log, a, b, skips)
  BY <1>1, <1>2 DEF WantedOf
<1>4. \A n \in skips \cup (b + 1 .. o) : n <= o
  BY <1>2
<1>5. \A r : Occurs(g, Len(g), r) <= Occurs(log, o, r)
  <2> TAKE r
  <2>0. Given(s, log, a, b, skips, g)
    OBVIOUS
  <2>1. Occurs(g, Len(g), r) <= Occurs(log, b, r)
    BY <2>0 DEF Given
  <2>2. Len(g) = Cardinality(WantedOf(s, log, a, b, skips))
    BY <2>0 DEF Given
  <2>3. Occurs(g, Len(g), r) \in Nat
    BY <2>2, WantedTyped, OccursTyped
  <2>4. Occurs(log, b, r) <= Occurs(log, o, r)
    BY <1>1, b <= o, OccursGrow
  <2>5. Occurs(log, b, r) \in Nat /\ Occurs(log, o, r) \in Nat
    BY OccursTyped
  <2> QED
    BY <2>1, <2>3, <2>4, <2>5
<1>6. Given(s, log, a, o, skips \cup (b + 1 .. o), g)
  <2> DEFINE W == WantedOf(s, log, a, b, skips)
  <2>1. /\ Len(g) = Cardinality(W)
        /\ \A k \in 1..Len(g) : \E n \in W : Rank(W, n) = k /\ g[k] = log[n]
    BY DEF Given
  <2> HIDE DEF W
  <2>2. WantedOf(s, log, a, o, skips \cup (b + 1 .. o)) = W
    BY <1>3 DEF W
  <2>3. a <= o
    BY <1>1, <1>2
  <2> QED
    BY <1>1, <1>4, <1>5, <2>1, <2>2, <2>3 DEF Given
<1> QED
  BY <1>1, <1>6

\* The next event is read: it is given, or not wanted.
LEMMA GivenNext ==
    ASSUME NEW s, NEW S, NEW log \in Seq(S), NEW a \in Nat, NEW b \in Nat,
           NEW skips \in SUBSET Nat, NEW R, NEW g \in Seq(R), log[b + 1] \in R,
           Given(s, log, a, b, skips, g), b < Len(log), Len(log) - Capacity <= b
    PROVE  Given(s, log, a, b + 1, skips,
                 IF Subscription!Wants(s, EventLog[log[b + 1][1]][log[b + 1][2]])
                 THEN Append(g, log[b + 1]) ELSE g)
<1> DEFINE W == WantedOf(s, log, a, b, skips)
           V == WantedOf(s, log, a, b + 1, skips)
           wants == Subscription!Wants(s, EventLog[log[b + 1][1]][log[b + 1][2]])
<1>0. Len(log) \in Nat /\ Len(g) \in Nat
  OBVIOUS
<1>1. /\ a <= b /\ b <= Len(log) /\ \A n \in skips : n <= Len(log) - Capacity
      /\ Len(g) = Cardinality(W)
      /\ \A k \in 1..Len(g) : \E n \in W : Rank(W, n) = k /\ g[k] = log[n]
      /\ \A r : Occurs(g, Len(g), r) <= Occurs(log, b, r)
  BY DEF Given
<1>2. b + 1 \notin skips
  BY <1>0, <1>1, StreamConstants
<1>3. IsFiniteSet(W) /\ W \subseteq a + 1 .. b /\ Cardinality(W) \in Nat
  BY WantedTyped
<1>4. a <= b + 1 /\ b + 1 <= Len(log)
  BY <1>0, <1>1
<1>5. \A r : /\ Occurs(log, b + 1, r) = Occurs(log, b, r) + IF log[b + 1] = r THEN 1 ELSE 0
             /\ Occurs(log, b, r) \in Nat /\ Occurs(g, Len(g), r) \in Nat
  BY <1>0, OccursNext, OccursTyped
<1>6. CASE wants
  <2>1. V = W \cup {b + 1}
    <3>1. \A n : n \in a + 1 .. b + 1 <=> (n \in a + 1 .. b \/ n = b + 1)
      BY <1>1
    <3> QED
      BY <1>2, <1>6, <3>1 DEF WantedOf
  <2> DEFINE h == Append(g, log[b + 1])
  <2>2. /\ Len(h) = Len(g) + 1 /\ h[Len(g) + 1] = log[b + 1]
        /\ \A k \in 1..Len(g) : h[k] = g[k]
    BY <1>0
  <2> HIDE DEF h, W, V
  <2>3. /\ \A m \in W : Rank(V, m) = Rank(W, m)
        /\ Rank(V, b + 1) = Cardinality(W) + 1 /\ Cardinality(V) = Cardinality(W) + 1
    <3>1. W \subseteq Nat /\ b + 1 \in Nat /\ \A m \in W : m < b + 1
      BY <1>3
    <3> QED
      BY <1>3, <2>1, <3>1, RanksKept
  <2>4. \A k \in 1..Len(h) : \E n \in V : Rank(V, n) = k /\ h[k] = log[n]
    <3> TAKE k \in 1..Len(h)
    <3>1. CASE k = Len(g) + 1
      BY <1>1, <2>1, <2>2, <2>3, <3>1
    <3>2. CASE k # Len(g) + 1
      <4>1. k \in 1..Len(g)
        BY <1>0, <2>2, <3>2
      <4>2. PICK n \in W : Rank(W, n) = k /\ g[k] = log[n]
        BY <1>1, <4>1
      <4> QED
        BY <2>1, <2>2, <2>3, <4>1, <4>2
    <3> QED
      BY <3>1, <3>2
  <2>5. \A r : Occurs(h, Len(h), r) <= Occurs(log, b + 1, r)
    <3> TAKE r
    <3>1. Occurs(h, Len(g) + 1, r) = Occurs(h, Len(g), r) + IF h[Len(g) + 1] = r THEN 1 ELSE 0
      BY <1>0, OccursNext
    <3>2. Occurs(h, Len(g), r) = Occurs(g, Len(g), r)
      BY <1>0, <2>2, OccursSame
    <3>3. /\ Occurs(log, b + 1, r) = Occurs(log, b, r) + IF log[b + 1] = r THEN 1 ELSE 0
          /\ Occurs(g, Len(g), r) <= Occurs(log, b, r)
          /\ Occurs(log, b, r) \in Nat /\ Occurs(g, Len(g), r) \in Nat
      BY <1>1, <1>5
    <3> QED
      BY <2>2, <3>1, <3>2, <3>3
  <2>6. Len(h) = Cardinality(V)
    BY <1>1, <2>2, <2>3
  <2>7. Given(s, log, a, b + 1, skips, h)
    BY <1>1, <1>4, <2>4, <2>5, <2>6 DEF Given, V
  <2> QED
    BY <1>6, <2>7 DEF h
<1>7. CASE ~wants
  <2>1. V = W
    <3>1. \A n : n \in a + 1 .. b + 1 <=> (n \in a + 1 .. b \/ n = b + 1)
      BY <1>1
    <3> QED
      BY <1>7, <3>1 DEF WantedOf
  <2>2. \A r : Occurs(g, Len(g), r) <= Occurs(log, b + 1, r)
    <3> TAKE r
    <3> QED
      BY <1>1, <1>5
  <2> HIDE DEF W
  <2>3. Given(s, log, a, b + 1, skips, g)
    BY <1>1, <1>4, <2>1, <2>2 DEF Given
  <2> QED
    BY <1>7, <2>3
<1> QED
  BY <1>6, <1>7

\* The k-th number of W, as Filtered writes it.
Nth(W, k) == CHOOSE n \in W : Subscription!Cardinality({m \in W : m <= n}) = k

LEMMA NthIs ==
    ASSUME NEW W, IsFiniteSet(W), W \subseteq Nat, NEW n \in W
    PROVE  Nth(W, Rank(W, n)) = n
<1> DEFINE k == Rank(W, n)
<1>1. \A m \in W : Rank(W, m) = Subscription!Cardinality({i \in W : i <= m})
  BY StreamCount DEF Rank
<1> HIDE DEF k
<1>2. Subscription!Cardinality({m \in W : m <= n}) = k
  BY <1>1 DEF k
<1>3. Nth(W, k) \in W /\ Subscription!Cardinality({m \in W : m <= Nth(W, k)}) = k
  BY <1>2 DEF Nth
<1>4. Rank(W, Nth(W, k)) = k /\ Rank(W, n) = k
  BY <1>1, <1>2, <1>3
<1>5. ~(Nth(W, k) < n) /\ ~(n < Nth(W, k))
  BY <1>3, <1>4, RanksDiffer
<1>6. Nth(W, k) \in Nat /\ n \in Nat
  BY <1>3
<1>7. Nth(W, k) = n
  BY <1>5, <1>6
<1> QED
  BY <1>7 DEF k

LEMMA GivenIs ==
    ASSUME NEW s, NEW log, NEW a \in Nat, NEW b \in Nat, NEW skips, NEW g,
           Given(s, log, a, b, skips, g)
    PROVE  LET W == WantedOf(s, log, a, b, skips)
           IN  /\ Len(g) = Subscription!Cardinality(W)
               /\ \A k \in 1..Len(g) : g[k] = log[Nth(W, k)]
<1> DEFINE W == WantedOf(s, log, a, b, skips)
<1>1. IsFiniteSet(W) /\ W \subseteq Nat
  <2>1. IsFiniteSet(W) /\ W \subseteq a + 1 .. b
    BY WantedTyped
  <2>2. a + 1 .. b \subseteq Nat
    OBVIOUS
  <2> QED
    BY <2>1, <2>2
<1>2. /\ Len(g) = Subscription!Cardinality(W)
      /\ \A k \in 1..Len(g) : \E n \in W : Rank(W, n) = k /\ g[k] = log[n]
  BY StreamCount DEF Given
<1> HIDE DEF W
<1>3. \A k \in 1..Len(g) : g[k] = log[Nth(W, k)]
  BY <1>1, <1>2, NthIs
<1> QED
  BY <1>2, <1>3 DEF W
-----------------------------------------------------------------------------
(* The subscriptions of the instances.                                     *)

StreamTyped ==
    /\ position \in [EventPartitions -> Nat] /\ committed \in [EventPartitions -> Nat]
    /\ held \in [ApiInstances -> Records \cup {None}]
    /\ sent \in [ApiInstances -> [Subscription!Channels -> Seq(Records)]]
    /\ at \in [Subscribers -> ApiInstances \cup {None}]
    /\ next \in [Subscribers -> Nat] /\ since \in [Subscribers -> Nat]
    /\ got \in [Subscribers -> Seq(Records)] /\ skipped \in [Subscribers -> SUBSET Nat]
    /\ active \in [ApiInstances -> Int]
    /\ faults \in Nat

Feed(s) == sent[at[s]][Subscription!ChannelOf(s)]

StreamsGive ==
    \A s \in Subscribers :
        at[s] # None => Given(s, Feed(s), since[s], next[s], skipped[s], got[s])

\* How often a record was sent on a channel, is about to be, or may be again.
Sendings(i, ch, r) ==
    Occurs(sent[i][ch], Len(sent[i][ch]), r)
      + (IF held[i] = r THEN 1 ELSE 0) + (IF position[r[1]] < r[2] THEN 1 ELSE 0)

SentSeldom ==
    \A i \in ApiInstances, ch \in Subscription!Channels, r \in Records :
        Sendings(i, ch, r) <= 1 + faults

SeenSeldom ==
    \A s \in Subscribers, r \in Records : Occurs(got[s], Len(got[s]), r) <= 1 + faults

StreamsCounted ==
    \A i \in ApiInstances : active[i] = Cardinality(Subscription!At(i))

StreamInv == StreamTyped /\ StreamsGive /\ SentSeldom /\ SeenSeldom /\ StreamsCounted

LEMMA ChannelOfType ==
    ASSUME NEW s \in Subscribers
    PROVE  Subscription!ChannelOf(s) \in Subscription!Channels
  BY StreamConstants DEF Subscription!ChannelOf, Subscription!Channels, Subscription!Fields

LEMMA FeedType ==
    ASSUME StreamTyped, NEW s \in Subscribers, at[s] # None
    PROVE  at[s] \in ApiInstances /\ Feed(s) \in Seq(Records)
<1>1. at[s] \in ApiInstances
  BY DEF StreamTyped
<1> QED
  BY <1>1, ChannelOfType DEF StreamTyped, Feed

LEMMA StreamInvIs ==
    StreamInv => /\ Subscription!Filtered /\ Subscription!SeenOnce
                 /\ Subscription!GuardsCounted
<1> SUFFICES ASSUME StreamInv
             PROVE  /\ Subscription!Filtered /\ Subscription!SeenOnce
                    /\ Subscription!GuardsCounted
  BY SMTT(60)
<1>1. Subscription!Filtered
  <2>1. ASSUME NEW s \in Subscribers, at[s] # None
        PROVE  LET log == sent[at[s]][Subscription!ChannelOf(s)]
                   read == {n \in since[s] + 1 .. next[s] : n \notin skipped[s]}
                   wanted == {n \in read : Subscription!Wants(s, EventLog[log[n][1]][log[n][2]])}
               IN /\ got[s] = [k \in 1 .. Subscription!Cardinality(wanted) |->
                                  log[CHOOSE n \in wanted :
                                     Subscription!Cardinality({m \in wanted : m <= n}) = k]]
                  /\ \A n \in skipped[s] : n <= Len(log) - Capacity
    <3> DEFINE log == sent[at[s]][Subscription!ChannelOf(s)]
               read == {n \in since[s] + 1 .. next[s] : n \notin skipped[s]}
               wanted == {n \in read : Subscription!Wants(s, EventLog[log[n][1]][log[n][2]])}
               W == WantedOf(s, log, since[s], next[s], skipped[s])
    <3>1. Given(s, log, since[s], next[s], skipped[s], got[s])
      BY <2>1 DEF StreamInv, StreamsGive, Feed
    <3>2. since[s] \in Nat /\ next[s] \in Nat /\ got[s] \in Seq(Records)
      BY DEF StreamInv, StreamTyped
    <3>3. wanted = W
      BY DEF WantedOf
    <3>4. \A n \in skipped[s] : n <= Len(log) - Capacity
      BY <3>1 DEF Given
    <3> HIDE DEF log
    <3>5. /\ Len(got[s]) = Subscription!Cardinality(W)
          /\ \A k \in 1..Len(got[s]) : got[s][k] = log[Nth(W, k)]
      <4>0. PICK a \in Nat, b \in Nat : a = since[s] /\ b = next[s]
        BY <3>2
      <4>1. PICK skips, g, q : skips = skipped[s] /\ g = got[s] /\ q = log
        OBVIOUS
      <4>2. Given(s, q, a, b, skips, g)
        BY <3>1, <4>0, <4>1
      <4>3. /\ Len(g) = Subscription!Cardinality(WantedOf(s, q, a, b, skips))
            /\ \A k \in 1..Len(g) : g[k] = q[Nth(WantedOf(s, q, a, b, skips), k)]
        BY <4>2, GivenIs
      <4> QED
        BY <4>0, <4>1, <4>3
    <3> HIDE DEF wanted, W
    <3>6. got[s] = [k \in 1 .. Subscription!Cardinality(wanted) |-> log[Nth(wanted, k)]]
      BY <3>2, <3>3, <3>5
    <3>7. got[s] = [k \in 1 .. Subscription!Cardinality(wanted) |->
                      log[CHOOSE n \in wanted :
                             Subscription!Cardinality({m \in wanted : m <= n}) = k]]
      BY <3>6 DEF Nth
    <3> QED
      BY <3>4, <3>7 DEF wanted, log
  <2> QED
    BY ZenonT(60), <2>1 DEF Subscription!Filtered
<1>2. Subscription!SeenOnce
  <2>1. ASSUME NEW s \in Subscribers, NEW r \in Subscription!ToSet(got[s])
        PROVE  Subscription!Cardinality({k \in DOMAIN got[s] : got[s][k] = r}) <= 1 + faults
    <3>1. got[s] \in Seq(Records) /\ DOMAIN got[s] = 1..Len(got[s])
      BY DEF StreamInv, StreamTyped
    <3>2. r \in Records
      BY <3>1 DEF Subscription!ToSet
    <3>3. Occurs(got[s], Len(got[s]), r) <= 1 + faults
      BY <3>2 DEF StreamInv, SeenSeldom
    <3> QED
      BY <3>1, <3>3, StreamCount DEF Occurs
  <2> QED
    BY <2>1 DEF Subscription!SeenOnce
<1>3. Subscription!GuardsCounted
  BY StreamCount DEF StreamInv, StreamsCounted, Subscription!GuardsCounted
<1> QED
  BY <1>1, <1>2, <1>3

LEMMA StreamInit == GuardsInit => StreamInv
<1> SUFFICES ASSUME GuardsInit PROVE StreamInv
  OBVIOUS
<1>1. /\ position = [p \in EventPartitions |-> 0] /\ committed = [p \in EventPartitions |-> 0]
      /\ held = [i \in ApiInstances |-> None]
      /\ sent = [i \in ApiInstances |-> [ch \in Subscription!Channels |-> <<>>]]
      /\ at = [s \in Subscribers |-> None]
      /\ next = [s \in Subscribers |-> 0] /\ got = [s \in Subscribers |-> <<>>]
      /\ since = [s \in Subscribers |-> 0] /\ skipped = [s \in Subscribers |-> {}]
      /\ active = [i \in ApiInstances |-> 0] /\ faults = 0
  BY DEF GuardsInit, Subscription!Init
<1>2. StreamTyped
  BY <1>1 DEF StreamTyped
<1>3. StreamsGive
  BY <1>1 DEF StreamsGive
<1>4. \A r : Occurs(<<>>, Len(<<>>), r) = 0
  <2> TAKE r
  <2>1. Len(<<>>) = 0 /\ {n \in 1..0 : <<>>[n] = r} = {}
    OBVIOUS
  <2> QED
    BY <2>1, FS_EmptySet DEF Occurs
<1>5. SentSeldom
  <2> SUFFICES ASSUME NEW i \in ApiInstances, NEW ch \in Subscription!Channels, NEW r \in Records
               PROVE  Sendings(i, ch, r) <= 1 + faults
    BY DEF SentSeldom
  <2>1. sent[i][ch] = <<>> /\ held[i] # r
    BY <1>1, StreamConstants DEF Records
  <2>2. Occurs(sent[i][ch], Len(sent[i][ch]), r) = 0
    BY <1>4, <2>1
  <2> QED
    BY <1>1, <2>1, <2>2 DEF Sendings
<1>6. SeenSeldom
  <2>1. \A s \in Subscribers, r \in Records : Occurs(got[s], Len(got[s]), r) = 0
    BY <1>1, <1>4
  <2> QED
    BY <1>1, <2>1 DEF SeenSeldom
<1>7. StreamsCounted
  <2>1. \A i \in ApiInstances : Subscription!At(i) = {}
    BY <1>1, StreamConstants DEF Subscription!At
  <2> QED
    BY <1>1, <2>1, FS_EmptySet DEF StreamsCounted
<1> QED
  BY <1>2, <1>3, <1>5, <1>6, <1>7 DEF StreamInv
\* What the steps of other guards, and those of a client, leave alone.
LEMMA StreamTypedStep ==
    StreamTyped /\ [GuardsNext]_guardVars => StreamTyped'
<1> SUFFICES ASSUME StreamTyped, [GuardsNext]_guardVars PROVE StreamTyped'
  OBVIOUS
<1>c. \A s \in Subscribers : Subscription!ChannelOf(s) \in Subscription!Channels
  BY ChannelOfType
<1>1. ASSUME UNCHANGED subscriptionVars PROVE StreamTyped'
  BY <1>1 DEF subscriptionVars, StreamTyped
<1>2. ASSUME NEW s \in Subscribers, NEW i \in ApiInstances, Subscription!Subscribe(s, i)
      PROVE  StreamTyped'
  <2>1. Len(sent[i][Subscription!ChannelOf(s)]) \in Nat
    BY <1>c DEF StreamTyped
  <2> QED
    BY <1>2, <2>1 DEF StreamTyped, Subscription!Subscribe, Subscription!group
<1>3. ASSUME NEW s \in Subscribers, Subscription!Unsubscribe(s) PROVE StreamTyped'
  BY <1>3 DEF StreamTyped, Subscription!Unsubscribe, Subscription!group
<1>4. ASSUME NEW s \in Subscribers, Subscription!Poll(s) PROVE StreamTyped'
  <2> DEFINE log == sent[at[s]][Subscription!ChannelOf(s)]
  <2>1. log \in Seq(Records) /\ at[s] # None
    BY SMTT(60), <1>4, FeedType DEF Feed, Subscription!Poll
  <2>2. UNCHANGED <<owner, position, committed, held, sent, at, since, active, faults>>
    BY <1>4 DEF Subscription!Poll, Subscription!group
  <2>3. PICK o \in Nat : o = Subscription!Oldest(at[s], Subscription!ChannelOf(s))
    BY SMTT(60), <2>1, StreamConstants DEF Subscription!Oldest
  <2>4. next[s] < Len(log) /\ Len(log) \in Nat
    BY <1>4, <2>1 DEF Subscription!Poll
  <2>5. CASE next[s] < o
    <3>1. /\ next' = [next EXCEPT ![s] = o] /\ got' = got
          /\ skipped' = [skipped EXCEPT ![s] = skipped[s] \cup (next[s] + 1 .. o)]
      BY <1>4, <2>3, <2>5 DEF Subscription!Poll
    <3>2. next[s] + 1 .. o \subseteq Nat
      BY DEF StreamTyped
    <3> QED
      BY <2>2, <3>1, <3>2 DEF StreamTyped
  <2>6. CASE ~(next[s] < o)
    <3>1. /\ next' = [next EXCEPT ![s] = next[s] + 1] /\ skipped' = skipped
          /\ \/ got' = got
             \/ got' = [got EXCEPT ![s] = Append(got[s], log[next[s] + 1])]
      BY <1>4, <2>3, <2>6 DEF Subscription!Poll
    <3>2. log[next[s] + 1] \in Records
      <4>1. next[s] + 1 \in 1..Len(log)
        BY <2>4 DEF StreamTyped
      <4> HIDE DEF log
      <4> QED
        BY <2>1, <4>1
    <3> HIDE DEF log
    <3>3. got' \in [Subscribers -> Seq(Records)]
      <4>1. Append(got[s], log[next[s] + 1]) \in Seq(Records) /\ got[s] \in Seq(Records)
        BY <3>2 DEF StreamTyped
      <4> QED
        BY <3>1, <4>1 DEF StreamTyped
    <3>4. next' \in [Subscribers -> Nat] /\ skipped' = skipped
      BY <3>1 DEF StreamTyped
    <3> QED
      BY SMTT(60), <2>2, <3>3, <3>4 DEF StreamTyped
  <2> QED
    BY SMTT(60), <2>5, <2>6
<1>5. ASSUME NEW i \in ApiInstances, Subscription!Commit(i) PROVE StreamTyped'
  BY <1>5 DEF StreamTyped, Subscription!Commit, Subscription!client
<1>6. ASSUME NEW i \in ApiInstances, Subscription!Process(i) PROVE StreamTyped'
  <2>1. /\ held[i] \in Records /\ held' = [held EXCEPT ![i] = None]
        /\ UNCHANGED <<owner, position, committed, at, next, got, since, skipped, active, faults>>
    BY <1>6 DEF StreamTyped, Subscription!Process, Subscription!group, Subscription!client
  <2>2. \/ sent' = sent
        \/ \E ch : sent' = [sent EXCEPT ![i][ch] = Append(sent[i][ch], held[i])]
    BY <1>6 DEF Subscription!Process
  <2>3. sent' \in [ApiInstances -> [Subscription!Channels -> Seq(Records)]]
    <3>1. ASSUME NEW ch, sent' = [sent EXCEPT ![i][ch] = Append(sent[i][ch], held[i])]
          PROVE  sent' \in [ApiInstances -> [Subscription!Channels -> Seq(Records)]]
      <4>1. ASSUME ch \in Subscription!Channels
            PROVE  Append(sent[i][ch], held[i]) \in Seq(Records)
        BY <2>1, <4>1 DEF StreamTyped
      <4>2. CASE ch \in Subscription!Channels
        BY <3>1, <4>1, <4>2 DEF StreamTyped
      <4>3. CASE ch \notin Subscription!Channels
        BY <3>1, <4>3 DEF StreamTyped
      <4> QED
        BY <4>2, <4>3
    <3> QED
      BY <2>2, <3>1 DEF StreamTyped
  <2> QED
    BY <2>1, <2>3 DEF StreamTyped
<1>7. ASSUME NEW i \in ApiInstances, Subscription!Restart(i) PROVE StreamTyped'
  BY <1>7 DEF StreamTyped, Subscription!Restart
<1>8. ASSUME NEW i \in ApiInstances, NEW p \in EventPartitions, Subscription!Receive(i, p)
      PROVE  StreamTyped'
  BY <1>8 DEF StreamTyped, Records, Subscription!Receive, Subscription!client
<1>9. ASSUME NEW i \in ApiInstances, NEW p \in EventPartitions, Subscription!Rebalance(p, i)
      PROVE  StreamTyped'
  BY <1>9 DEF StreamTyped, Subscription!Rebalance, Subscription!client
<1>10. ASSUME ~SubscriptionNext PROVE StreamTyped'
  BY <1>1, <1>10 DEF GuardsNext, RateNext, WsNext, BreakerNext, CallsNext, guardVars
<1>11. ASSUME SubscriptionNext PROVE StreamTyped'
  BY <1>2, <1>3, <1>4, <1>5, <1>6, <1>7, <1>8, <1>9, <1>11
     DEF SubscriptionNext, Subscription!Next
<1> QED
  BY <1>10, <1>11

\* The guards of the streams.
LEMMA StreamsCountedStep ==
    StreamTyped /\ StreamsCounted /\ [GuardsNext]_guardVars => StreamsCounted'
<1> SUFFICES ASSUME StreamTyped, StreamsCounted, [GuardsNext]_guardVars PROVE StreamsCounted'
  OBVIOUS
<1>f. \A i : IsFiniteSet(Subscription!At(i)) /\ Cardinality(Subscription!At(i)) \in Nat
  <2> TAKE i
  <2>1. Subscription!At(i) \subseteq Subscribers
    BY DEF Subscription!At
  <2> QED
    BY <2>1, StreamConstants, FS_Subset, FS_CardinalityType
<1>1. ASSUME UNCHANGED <<at, active>> PROVE StreamsCounted'
  BY <1>1 DEF StreamsCounted, Subscription!At
<1>2. ASSUME NEW s \in Subscribers, NEW i \in ApiInstances, Subscription!Subscribe(s, i)
      PROVE  StreamsCounted'
  <2>1. /\ at[s] = None /\ at' = [at EXCEPT ![s] = i]
        /\ active' = [active EXCEPT ![i] = active[i] + 1]
    BY <1>2 DEF Subscription!Subscribe
  <2>2. /\ Subscription!At(i)' = Subscription!At(i) \cup {s} /\ s \notin Subscription!At(i)
        /\ \A j \in ApiInstances \ {i} : Subscription!At(j)' = Subscription!At(j)
    BY <2>1, StreamConstants DEF StreamTyped, Subscription!At
  <2>3. Cardinality(Subscription!At(i)') = Cardinality(Subscription!At(i)) + 1
    BY <1>f, <2>2, FS_AddElement
  <2>4. active'[i] = active[i] + 1 /\ \A j \in ApiInstances \ {i} : active'[j] = active[j]
    BY <2>1 DEF StreamTyped
  <2> QED
    BY <2>2, <2>3, <2>4 DEF StreamsCounted
<1>3. ASSUME NEW s \in Subscribers, Subscription!Unsubscribe(s) PROVE StreamsCounted'
  <2>1. PICK i \in ApiInstances : i = at[s]
    BY <1>3 DEF StreamTyped, Subscription!Unsubscribe
  <2>2. /\ at' = [at EXCEPT ![s] = None] /\ active' = [active EXCEPT ![i] = active[i] - 1]
    BY <1>3, <2>1 DEF Subscription!Unsubscribe
  <2>3. /\ Subscription!At(i)' = Subscription!At(i) \ {s} /\ s \in Subscription!At(i)
        /\ \A j \in ApiInstances \ {i} : Subscription!At(j)' = Subscription!At(j)
    BY <2>1, <2>2, StreamConstants DEF StreamTyped, Subscription!At
  <2>4. Cardinality(Subscription!At(i)') = Cardinality(Subscription!At(i)) - 1
    BY <1>f, <2>3, FS_RemoveElement
  <2>5. active'[i] = active[i] - 1 /\ \A j \in ApiInstances \ {i} : active'[j] = active[j]
    BY <2>2 DEF StreamTyped
  <2> QED
    BY <2>3, <2>4, <2>5 DEF StreamsCounted
<1>4. ASSUME NEW i \in ApiInstances, Subscription!Restart(i) PROVE StreamsCounted'
  <2>1. /\ at' = [s \in Subscribers |-> IF at[s] = i THEN None ELSE at[s]]
        /\ active' = [active EXCEPT ![i] = 0]
    BY <1>4 DEF Subscription!Restart
  <2>2. /\ Subscription!At(i)' = {}
        /\ \A j \in ApiInstances \ {i} : Subscription!At(j)' = Subscription!At(j)
    BY <2>1, StreamConstants DEF Subscription!At
  <2>3. active'[i] = 0 /\ \A j \in ApiInstances \ {i} : active'[j] = active[j]
    BY <2>1 DEF StreamTyped
  <2>4. Cardinality({}) = 0
    BY FS_EmptySet
  <2> QED
    BY <2>2, <2>3, <2>4 DEF StreamsCounted
<1>5. ASSUME SubscriptionNext PROVE StreamsCounted'
  <2>1. ASSUME NEW s \in Subscribers, Subscription!Poll(s) PROVE UNCHANGED <<at, active>>
    BY SMTT(60), <2>1 DEF Subscription!Poll
  <2>2. ASSUME NEW i \in ApiInstances, Subscription!Commit(i) \/ Subscription!Process(i)
        PROVE  UNCHANGED <<at, active>>
    BY <2>2 DEF Subscription!Commit, Subscription!Process, Subscription!client
  <2>3. ASSUME NEW i \in ApiInstances, NEW p \in EventPartitions,
               Subscription!Receive(i, p) \/ Subscription!Rebalance(p, i)
        PROVE  UNCHANGED <<at, active>>
    BY <2>3 DEF Subscription!Receive, Subscription!Rebalance, Subscription!client
  <2> QED
    BY SMTT(60), <1>1, <1>2, <1>3, <1>4, <1>5, <2>1, <2>2, <2>3 DEF SubscriptionNext, Subscription!Next
<1>6. ASSUME ~SubscriptionNext PROVE UNCHANGED <<at, active>>
  BY <1>6 DEF GuardsNext, RateNext, WsNext, BreakerNext, CallsNext, guardVars, subscriptionVars
<1> QED
  BY <1>1, <1>5, <1>6
\* A client goes on with its channel, to which x may have been added.
LEMMA GiveKept ==
    ASSUME StreamTyped, StreamsGive, NEW s \in Subscribers, at[s] # None,
           NEW x \in Records, NEW log, log = Feed(s) \/ log = Append(Feed(s), x)
    PROVE  Given(s, log, since[s], next[s], skipped[s], got[s])
<1>1. PICK a \in Nat, b \in Nat, skips \in SUBSET Nat, g, q \in Seq(Records) :
         a = since[s] /\ b = next[s] /\ skips = skipped[s] /\ g = got[s] /\ q = Feed(s)
  BY FeedType DEF StreamTyped
<1>2. Given(s, q, a, b, skips, g)
  BY <1>1 DEF StreamsGive
<1>3. Given(s, Append(q, x), a, b, skips, g)
  BY <1>2, GivenLonger
<1> QED
  BY <1>1, <1>2, <1>3

\* What a poll makes of it.
LEMMA GivePolled ==
    ASSUME StreamTyped, StreamsGive, NEW s \in Subscribers, Subscription!Poll(s)
    PROVE  Given(s, Feed(s), since[s], next'[s], skipped'[s], got'[s])
<1>1. at[s] # None /\ next[s] < Len(Feed(s))
  BY DEF Subscription!Poll, Feed
<1>2. PICK a \in Nat, b \in Nat, skips \in SUBSET Nat, g \in Seq(Records), q \in Seq(Records) :
         a = since[s] /\ b = next[s] /\ skips = skipped[s] /\ g = got[s] /\ q = Feed(s)
  BY <1>1, FeedType DEF StreamTyped
<1>3. Given(s, q, a, b, skips, g) /\ b < Len(q) /\ Len(q) \in Nat
  BY <1>1, <1>2 DEF StreamsGive
<1> DEFINE o == IF Len(q) > Capacity THEN Len(q) - Capacity ELSE 0
<1>4. o = Subscription!Oldest(at[s], Subscription!ChannelOf(s)) /\ o \in Nat
  BY <1>2, <1>3, StreamConstants DEF Subscription!Oldest, Feed
<1>5. CASE b < o
  <2>1. o = Len(q) - Capacity
    BY SMTT(60), <1>5
  <2>2. next'[s] = o /\ got'[s] = g /\ skipped'[s] = skips \cup (b + 1 .. o)
    BY <1>2, <1>4, <1>5 DEF StreamTyped, Subscription!Poll
  <2> HIDE DEF o
  <2>3. Given(s, q, a, o, skips \cup (b + 1 .. o), g)
    BY <1>3, <1>5, <2>1, GivenLagged
  <2> QED
    BY <1>2, <2>2, <2>3
<1>6. CASE ~(b < o)
  <2>1. Len(q) - Capacity <= b
    BY SMTT(60), <1>3, <1>6, StreamConstants
  <2>2. next'[s] = b + 1 /\ skipped'[s] = skips
    BY SMTT(60), <1>2, <1>4, <1>6 DEF StreamTyped, Subscription!Poll
  <2>3. got'[s] = IF Subscription!Wants(s, EventLog[q[b + 1][1]][q[b + 1][2]])
                  THEN Append(g, q[b + 1]) ELSE g
    BY <1>2, <1>4, <1>6 DEF StreamTyped, Subscription!Poll, Feed
  <2>4. q[b + 1] \in Records
    <3>1. b + 1 \in 1..Len(q)
      BY <1>3
    <3> QED
      BY <3>1
  <2>5. Given(s, q, a, b + 1, skips,
              IF Subscription!Wants(s, EventLog[q[b + 1][1]][q[b + 1][2]])
              THEN Append(g, q[b + 1]) ELSE g)
    BY <1>3, <2>1, <2>4, GivenNext
  <2> QED
    BY <1>2, <2>2, <2>3, <2>5
<1> QED
  BY SMTT(60), <1>5, <1>6

LEMMA StreamsGiveStep ==
    StreamTyped /\ StreamsGive /\ [GuardsNext]_guardVars => StreamsGive'
<1> SUFFICES ASSUME StreamTyped, StreamsGive, [GuardsNext]_guardVars,
                    NEW d \in Subscribers, at'[d] # None
             PROVE  Given(d, sent'[at'[d]][Subscription!ChannelOf(d)], since'[d], next'[d],
                          skipped'[d], got'[d])
  BY DEF StreamsGive, Feed
<1> DEFINE ch == Subscription!ChannelOf(d)
<1>c. ch \in Subscription!Channels
  BY ChannelOfType
<1> HIDE DEF ch
<1>1. ASSUME at'[d] = at[d], since'[d] = since[d], next'[d] = next[d],
             skipped'[d] = skipped[d], got'[d] = got[d], NEW x \in Records,
             \/ sent'[at[d]][ch] = Feed(d)
             \/ sent'[at[d]][ch] = Append(Feed(d), x)
      PROVE  Given(d, sent'[at'[d]][ch], since'[d], next'[d], skipped'[d], got'[d])
  <2>1. at[d] # None
    BY <1>1
  <2>2. Given(d, sent'[at[d]][ch], since[d], next[d], skipped[d], got[d])
    BY <1>1, <2>1, GiveKept
  <2> QED
    BY <1>1, <2>2
\* The channels stay.
<1>2. ASSUME at'[d] = at[d], since'[d] = since[d], next'[d] = next[d],
             skipped'[d] = skipped[d], got'[d] = got[d], sent'[at[d]] = sent[at[d]]
      PROVE  Given(d, sent'[at'[d]][ch], since'[d], next'[d], skipped'[d], got'[d])
  BY <1>2 DEF StreamsGive, Feed, ch
<1>3. ASSUME UNCHANGED <<sent, at, next, got, since, skipped>>
      PROVE  Given(d, sent'[at'[d]][ch], since'[d], next'[d], skipped'[d], got'[d])
  BY <1>2, <1>3
<1>4. ASSUME NEW s \in Subscribers, NEW i \in ApiInstances, Subscription!Subscribe(s, i)
      PROVE  Given(d, sent'[at'[d]][ch], since'[d], next'[d], skipped'[d], got'[d])
  <2>1. CASE d = s
    <3>1. PICK q \in Seq(Records) : q = sent[i][ch]
      BY <1>c DEF StreamTyped
    <3>2. /\ sent'[at'[d]][ch] = q /\ since'[d] = Len(q) /\ next'[d] = Len(q)
          /\ skipped'[d] = {} /\ got'[d] = <<>>
      BY <1>4, <2>1, <3>1 DEF StreamTyped, Subscription!Subscribe, ch
    <3>3. Given(d, q, Len(q), Len(q), {}, <<>>)
      BY GivenNothing
    <3> QED
      BY <3>2, <3>3
  <2>2. CASE d # s
    <3>1. /\ at'[d] = at[d] /\ since'[d] = since[d] /\ next'[d] = next[d]
          /\ skipped'[d] = skipped[d] /\ got'[d] = got[d] /\ sent' = sent
      BY <1>4, <2>2 DEF StreamTyped, Subscription!Subscribe
    <3> QED
      BY <1>2, <3>1
  <2> QED
    BY <2>1, <2>2
<1>5. ASSUME NEW s \in Subscribers, Subscription!Unsubscribe(s)
      PROVE  Given(d, sent'[at'[d]][ch], since'[d], next'[d], skipped'[d], got'[d])
  <2>1. /\ at' = [at EXCEPT ![s] = None]
        /\ UNCHANGED <<sent, next, got, since, skipped>>
    BY <1>5 DEF Subscription!Unsubscribe
  <2>2. at'[d] = at[d]
    BY <2>1 DEF StreamTyped
  <2> QED
    BY <1>2, <2>1, <2>2
<1>6. ASSUME NEW s \in Subscribers, Subscription!Poll(s)
      PROVE  Given(d, sent'[at'[d]][ch], since'[d], next'[d], skipped'[d], got'[d])
  <2>1. UNCHANGED <<sent, at, since>>
    BY <1>6 DEF Subscription!Poll
  <2>2. CASE d = s
    <3>1. Given(s, Feed(s), since[s], next'[s], skipped'[s], got'[s])
      BY <1>6, GivePolled
    <3> QED
      BY <2>1, <2>2, <3>1 DEF Feed, ch
  <2>3. CASE d # s
    <3>1. next'[d] = next[d] /\ skipped'[d] = skipped[d] /\ got'[d] = got[d]
      <4>1. \E n, k, g : /\ next' = [next EXCEPT ![s] = n]
                         /\ skipped' = skipped \/ skipped' = [skipped EXCEPT ![s] = k]
                         /\ got' = got \/ got' = [got EXCEPT ![s] = g]
        BY <1>6 DEF Subscription!Poll
      <4> QED
        BY SMTT(60), <2>3, <4>1 DEF StreamTyped
    <3> QED
      BY <1>2, <2>1, <3>1
  <2> QED
    BY SMTT(60), <2>2, <2>3
<1>7. ASSUME NEW i \in ApiInstances, Subscription!Process(i)
      PROVE  Given(d, sent'[at'[d]][ch], since'[d], next'[d], skipped'[d], got'[d])
  <2>1. held[i] \in Records /\ UNCHANGED <<at, next, got, since, skipped>>
    BY SMTT(60), <1>7 DEF StreamTyped, Subscription!Process, Subscription!client
  <2>2. \/ sent' = sent
        \/ \E c : sent' = [sent EXCEPT ![i][c] = Append(sent[i][c], held[i])]
    BY <1>7 DEF Subscription!Process
  <2>3. at[d] \in ApiInstances
    BY <2>1 DEF StreamTyped
  <2>4. sent'[at[d]][ch] = sent[at[d]][ch] \/ sent'[at[d]][ch] = Append(sent[at[d]][ch], held[i])
    <3>1. ASSUME NEW c, sent' = [sent EXCEPT ![i][c] = Append(sent[i][c], held[i])]
          PROVE  \/ sent'[at[d]][ch] = sent[at[d]][ch]
                 \/ sent'[at[d]][ch] = Append(sent[at[d]][ch], held[i])
      <4>1. sent' = [sent EXCEPT ![i] = [sent[i] EXCEPT ![c] = Append(sent[i][c], held[i])]]
        BY <3>1
      <4>2. CASE at[d] = i
        BY <1>c, <2>3, <4>1, <4>2 DEF StreamTyped
      <4>3. CASE at[d] # i
        BY <2>3, <4>1, <4>3 DEF StreamTyped
      <4> QED
        BY <4>2, <4>3
    <3> QED
      BY <2>2, <3>1
  <2> QED
    BY SMTT(60), <1>1, <2>1, <2>4 DEF Feed, ch
<1>8. ASSUME NEW i \in ApiInstances, Subscription!Restart(i)
      PROVE  Given(d, sent'[at'[d]][ch], since'[d], next'[d], skipped'[d], got'[d])
  <2>1. /\ sent' = [sent EXCEPT ![i] = [c \in Subscription!Channels |-> <<>>]]
        /\ at' = [s \in Subscribers |-> IF at[s] = i THEN None ELSE at[s]]
        /\ UNCHANGED <<next, got, since, skipped>>
    BY <1>8 DEF Subscription!Restart
  <2>2. at'[d] = at[d] /\ at[d] # i
    BY <2>1
  <2>3. sent'[at[d]] = sent[at[d]]
    BY <2>1, <2>2 DEF StreamTyped
  <2> QED
    BY <1>2, <2>1, <2>2, <2>3
<1>9. ASSUME SubscriptionNext
      PROVE  Given(d, sent'[at'[d]][ch], since'[d], next'[d], skipped'[d], got'[d])
  <2>1. ASSUME NEW i \in ApiInstances, Subscription!Commit(i)
        PROVE  UNCHANGED <<sent, at, next, got, since, skipped>>
    BY <2>1 DEF Subscription!Commit, Subscription!client
  <2>2. ASSUME NEW i \in ApiInstances, NEW p \in EventPartitions,
               Subscription!Receive(i, p) \/ Subscription!Rebalance(p, i)
        PROVE  UNCHANGED <<sent, at, next, got, since, skipped>>
    BY <2>2 DEF Subscription!Receive, Subscription!Rebalance, Subscription!client
  <2> QED
    BY <1>3, <1>4, <1>5, <1>6, <1>7, <1>8, <1>9, <2>1, <2>2
       DEF SubscriptionNext, Subscription!Next
<1>10. ASSUME ~SubscriptionNext PROVE UNCHANGED <<sent, at, next, got, since, skipped>>
  BY <1>10 DEF GuardsNext, RateNext, WsNext, BreakerNext, CallsNext, guardVars, subscriptionVars
<1> QED
  BY <1>3, <1>9, <1>10 DEF ch
LEMMA SentSeldomStep ==
    StreamTyped /\ SentSeldom /\ [GuardsNext]_guardVars => SentSeldom' /\ faults <= faults'
<1> SUFFICES ASSUME StreamTyped, SentSeldom, [GuardsNext]_guardVars
             PROVE  SentSeldom' /\ faults <= faults'
  OBVIOUS
<1>f. faults \in Nat
  BY DEF StreamTyped
<1>t. ASSUME NEW i \in ApiInstances, NEW ch \in Subscription!Channels, NEW r
      PROVE  /\ sent[i][ch] \in Seq(Records) /\ Len(sent[i][ch]) \in Nat
             /\ Occurs(sent[i][ch], Len(sent[i][ch]), r) \in Nat
  <2>1. PICK q \in Seq(Records) : q = sent[i][ch]
    BY DEF StreamTyped
  <2>2. Len(q) \in Nat
    OBVIOUS
  <2>3. Occurs(q, Len(q), r) \in Nat
    BY <2>2, OccursTyped
  <2> QED
    BY <2>1, <2>2, <2>3
\* No step adds to the sendings more than to the faults.
<1>1. ASSUME faults' \in Nat, faults <= faults',
             \A i \in ApiInstances, ch \in Subscription!Channels, r \in Records :
                Sendings(i, ch, r)' <= Sendings(i, ch, r) + (faults' - faults)
      PROVE  SentSeldom' /\ faults <= faults'
  <2>1. ASSUME NEW i \in ApiInstances, NEW ch \in Subscription!Channels, NEW r \in Records,
               Sendings(i, ch, r)' \in Int
        PROVE  Sendings(i, ch, r)' <= 1 + faults'
    <3>1. Sendings(i, ch, r) <= 1 + faults
      BY DEF SentSeldom
    <3>2. Sendings(i, ch, r) \in Int
      BY <1>t DEF Sendings
    <3>3. Sendings(i, ch, r)' <= Sendings(i, ch, r) + (faults' - faults)
      BY <1>1
    <3> QED
      BY <1>1, <1>f, <2>1, <3>1, <3>2, <3>3
  <2>2. ASSUME NEW i \in ApiInstances, NEW ch \in Subscription!Channels, NEW r \in Records
        PROVE  Sendings(i, ch, r)' \in Int
    <3>1. StreamTyped'
      BY StreamTypedStep
    <3>2. PICK q \in Seq(Records) : q = sent'[i][ch]
      BY <3>1 DEF StreamTyped
    <3>3. Len(q) \in Nat
      OBVIOUS
    <3>4. Occurs(q, Len(q), r) \in Nat
      BY <3>3, OccursTyped
    <3> QED
      BY <3>2, <3>4 DEF Sendings
  <2> QED
    BY <1>1, <2>1, <2>2 DEF SentSeldom
<1>2. ASSUME UNCHANGED <<sent, held, position, faults>> PROVE SentSeldom' /\ faults <= faults'
  BY <1>2, <1>f DEF SentSeldom, Sendings
\* A record that is received will not be received again.
<1>3. ASSUME NEW i \in ApiInstances, NEW p \in EventPartitions, Subscription!Receive(i, p)
      PROVE  SentSeldom' /\ faults <= faults'
  <2>1. /\ held[i] = None /\ position' = [position EXCEPT ![p] = position[p] + 1]
        /\ held' = [held EXCEPT ![i] = <<p, position[p] + 1>>] /\ UNCHANGED <<sent, faults>>
    BY <1>3 DEF Subscription!Receive
  <2>2. ASSUME NEW j \in ApiInstances, NEW ch \in Subscription!Channels, NEW r \in Records
        PROVE  Sendings(j, ch, r)' <= Sendings(j, ch, r) + (faults' - faults)
    <3>1. PICK n \in Nat : n = Occurs(sent[j][ch], Len(sent[j][ch]), r)
      BY <1>t
    <3>2. n = Occurs(sent'[j][ch], Len(sent'[j][ch]), r)
      BY <2>1, <3>1
    <3>3. r[1] \in EventPartitions /\ r[2] \in Nat /\ r = <<r[1], r[2]>>
      BY DEF Records
    <3>4. position[p] \in Nat /\ position[r[1]] \in Nat
      BY <3>3 DEF StreamTyped
    <3>5. position'[r[1]] = IF r[1] = p THEN position[p] + 1 ELSE position[r[1]]
      BY <2>1, <3>3 DEF StreamTyped
    <3>6. held'[j] = IF j = i THEN <<p, position[p] + 1>> ELSE held[j]
      BY <2>1 DEF StreamTyped
    <3>7. CASE r = <<p, position[p] + 1>>
      <4>1. /\ position[r[1]] < r[2] /\ ~(position'[r[1]] < r[2])
            /\ held[j] = r => held'[j] = r
        BY <2>1, <3>4, <3>5, <3>6, <3>7
      <4> QED
        BY <1>f, <2>1, <3>1, <3>2, <4>1 DEF Sendings
    <3>8. CASE r # <<p, position[p] + 1>>
      <4>1. /\ position'[r[1]] < r[2] => position[r[1]] < r[2]
            /\ held'[j] = r => held[j] = r
        BY <3>3, <3>4, <3>5, <3>6, <3>8
      <4> QED
        BY <1>f, <2>1, <3>1, <3>2, <4>1 DEF Sendings
    <3> QED
      BY <3>7, <3>8
  <2> QED
    BY <1>1, <1>f, <2>1, <2>2
\* It is sent on one channel, or dropped.
<1>4. ASSUME NEW i \in ApiInstances, Subscription!Process(i)
      PROVE  SentSeldom' /\ faults <= faults'
  <2>1. /\ held[i] \in Records /\ held' = [held EXCEPT ![i] = None]
        /\ UNCHANGED <<position, faults>>
    BY SMTT(60), <1>4 DEF StreamTyped, Subscription!Process, Subscription!group
  <2>2. \/ sent' = sent
        \/ \E c : sent' = [sent EXCEPT ![i][c] = Append(sent[i][c], held[i])]
    BY <1>4 DEF Subscription!Process
  <2>3. ASSUME NEW j \in ApiInstances, NEW ch \in Subscription!Channels, NEW r \in Records
        PROVE  Sendings(j, ch, r)' <= Sendings(j, ch, r) + (faults' - faults)
    <3>1. PICK q \in Seq(Records) : q = sent[j][ch]
      BY <1>t
    <3>2. sent'[j][ch] = q \/ (j = i /\ sent'[j][ch] = Append(q, held[i]))
      <4>1. ASSUME NEW c, sent' = [sent EXCEPT ![i][c] = Append(sent[i][c], held[i])]
            PROVE  sent'[j][ch] = q \/ (j = i /\ sent'[j][ch] = Append(q, held[i]))
        <5>1. sent' = [sent EXCEPT ![i] = [sent[i] EXCEPT ![c] = Append(sent[i][c], held[i])]]
          BY <4>1
        <5>2. CASE j = i
          BY <3>1, <5>1, <5>2 DEF StreamTyped
        <5>3. CASE j # i
          BY <3>1, <5>1, <5>3 DEF StreamTyped
        <5> QED
          BY <5>2, <5>3
      <4> QED
        BY <2>2, <3>1, <4>1
    <3>3. held'[j] = (IF j = i THEN None ELSE held[j]) /\ None # r
      BY <2>1, StreamConstants DEF StreamTyped, Records
    <3>4. PICK n \in Nat : n = Occurs(q, Len(q), r)
      BY <1>t, <3>1
    <3>5. CASE sent'[j][ch] = q
      <4>1. held'[j] = r => held[j] = r
        BY <3>3
      <4> QED
        BY <1>f, <2>1, <3>1, <3>4, <3>5, <4>1 DEF Sendings
    <3>6. CASE j = i /\ sent'[j][ch] = Append(q, held[i])
      <4>1. PICK x \in Records : x = held[i]
        BY <2>1
      <4>2. /\ Len(q) \in Nat
            /\ Len(Append(q, x)) = Len(q) + 1 /\ Append(q, x)[Len(q) + 1] = x
            /\ \A k \in 1..Len(q) : Append(q, x)[k] = q[k]
        OBVIOUS
      <4>3. Occurs(Append(q, x), Len(q) + 1, r)
               = Occurs(Append(q, x), Len(q), r) + IF Append(q, x)[Len(q) + 1] = r THEN 1 ELSE 0
        <5>1. Len(q) \in Nat
          BY <4>2
        <5> QED
          BY <5>1, OccursNext
      <4>4. Occurs(Append(q, x), Len(q), r) = n
        <5>1. {k \in 1..Len(q) : Append(q, x)[k] = r} = {k \in 1..Len(q) : q[k] = r}
          BY <4>2
        <5> QED
          BY <3>4, <5>1 DEF Occurs
      <4>5. Occurs(sent'[j][ch], Len(sent'[j][ch]), r) = n + IF held[j] = r THEN 1 ELSE 0
        BY <3>6, <4>1, <4>2, <4>3, <4>4
      <4>6. held'[j] # r
        BY <3>3, <3>6
      <4> QED
        BY <1>f, <2>1, <3>1, <3>4, <4>5, <4>6 DEF Sendings
    <3> QED
      BY <3>2, <3>5, <3>6
  <2> QED
    BY SMTT(60), <1>1, <1>f, <2>1, <2>3
\* Positions go back with a fault only.
<1>5. ASSUME NEW i \in ApiInstances, NEW p \in EventPartitions, Subscription!Rebalance(p, i)
      PROVE  SentSeldom' /\ faults <= faults'
  <2>1. faults' = faults + 1 /\ UNCHANGED <<sent, held>>
    BY <1>5 DEF Subscription!Rebalance
  <2>2. ASSUME NEW j \in ApiInstances, NEW ch \in Subscription!Channels, NEW r \in Records
        PROVE  Sendings(j, ch, r)' <= Sendings(j, ch, r) + (faults' - faults)
    <3>1. PICK n \in Nat : n = Occurs(sent[j][ch], Len(sent[j][ch]), r)
      BY <1>t
    <3>2. n = Occurs(sent'[j][ch], Len(sent'[j][ch]), r) /\ held'[j] = held[j]
      BY <2>1, <3>1
    <3> QED
      BY <1>f, <2>1, <3>1, <3>2 DEF Sendings
  <2> QED
    BY <1>1, <1>f, <2>1, <2>2
<1>6. ASSUME NEW i \in ApiInstances, Subscription!Restart(i)
      PROVE  SentSeldom' /\ faults <= faults'
  <2>1. /\ faults' = faults + 1 /\ held' = [held EXCEPT ![i] = None]
        /\ sent' = [sent EXCEPT ![i] = [c \in Subscription!Channels |-> <<>>]]
    BY <1>6 DEF Subscription!Restart
  <2>2. ASSUME NEW j \in ApiInstances, NEW ch \in Subscription!Channels, NEW r \in Records
        PROVE  Sendings(j, ch, r)' <= Sendings(j, ch, r) + (faults' - faults)
    <3>1. PICK n \in Nat : n = Occurs(sent[j][ch], Len(sent[j][ch]), r)
      BY <1>t
    <3>2. PICK m \in Nat : m = Occurs(sent'[j][ch], Len(sent'[j][ch]), r) /\ m <= n
      <4>1. CASE j = i
        <5>1. sent'[j][ch] = <<>> /\ Len(<<>>) = 0
          BY <2>1, <4>1 DEF StreamTyped
        <5>2. {k \in 1..0 : <<>>[k] = r} = {}
          OBVIOUS
        <5>3. Occurs(sent'[j][ch], Len(sent'[j][ch]), r) = 0
          BY <5>1, <5>2, FS_EmptySet DEF Occurs
        <5> QED
          BY <3>1, <5>3
      <4>2. CASE j # i
        <5>1. sent'[j] = sent[j]
          BY <2>1, <4>2 DEF StreamTyped
        <5> QED
          BY <3>1, <5>1
      <4> QED
        BY <4>1, <4>2
    <3>3. held'[j] = r => held[j] = r
      BY <2>1, StreamConstants DEF StreamTyped, Records
    <3> QED
      BY <1>f, <2>1, <3>1, <3>2, <3>3 DEF Sendings
  <2> QED
    BY <1>1, <1>f, <2>1, <2>2
<1>7. ASSUME SubscriptionNext PROVE SentSeldom' /\ faults <= faults'
  <2>1. ASSUME NEW s \in Subscribers,
               \/ \E i \in ApiInstances : Subscription!Subscribe(s, i)
               \/ Subscription!Unsubscribe(s)
               \/ Subscription!Poll(s)
        PROVE  UNCHANGED <<sent, held, position, faults>>
    BY <2>1 DEF Subscription!Subscribe, Subscription!Unsubscribe, Subscription!Poll,
                Subscription!group
  <2>2. ASSUME NEW i \in ApiInstances, Subscription!Commit(i)
        PROVE  UNCHANGED <<sent, held, position, faults>>
    BY <2>2 DEF Subscription!Commit
  <2> QED
    BY SMTT(60), <1>2, <1>3, <1>4, <1>5, <1>6, <1>7, <2>1, <2>2 DEF SubscriptionNext, Subscription!Next
<1>8. ASSUME ~SubscriptionNext PROVE UNCHANGED <<sent, held, position, faults>>
  BY <1>8 DEF GuardsNext, RateNext, WsNext, BreakerNext, CallsNext, guardVars, subscriptionVars
<1> QED
  BY <1>2, <1>7, <1>8

\* A client that has left keeps what it was given.
LEMMA LeftKeeps ==
    ASSUME StreamTyped, [GuardsNext]_guardVars, NEW d \in Subscribers, at'[d] = None
    PROVE  got'[d] = got[d]
<1>1. ASSUME NEW s \in Subscribers, NEW i \in ApiInstances, Subscription!Subscribe(s, i)
      PROVE  got'[d] = got[d]
  BY <1>1, StreamConstants DEF StreamTyped, Subscription!Subscribe
<1>2. ASSUME NEW s \in Subscribers, Subscription!Poll(s) PROVE got'[d] = got[d]
  <2>1. d # s
    BY SMTT(60), <1>2 DEF Subscription!Poll
  <2>2. got' = got \/ \E g : got' = [got EXCEPT ![s] = g]
    BY <1>2 DEF Subscription!Poll
  <2> QED
    BY SMTT(60), <2>1, <2>2 DEF StreamTyped
<1>3. ASSUME NEW s \in Subscribers, Subscription!Unsubscribe(s) PROVE got'[d] = got[d]
  BY SMTT(60), <1>3 DEF Subscription!Unsubscribe
<1>4. ASSUME NEW i \in ApiInstances,
             \/ Subscription!Commit(i)
             \/ Subscription!Process(i)
             \/ Subscription!Restart(i)
             \/ \E p \in EventPartitions :
                   Subscription!Receive(i, p) \/ Subscription!Rebalance(p, i)
      PROVE  got'[d] = got[d]
  BY <1>4 DEF Subscription!Commit, Subscription!Process, Subscription!Restart,
              Subscription!Receive, Subscription!Rebalance, Subscription!client
<1>5. ASSUME SubscriptionNext PROVE got'[d] = got[d]
  BY <1>1, <1>2, <1>3, <1>4, <1>5 DEF SubscriptionNext, Subscription!Next
<1>6. ASSUME ~SubscriptionNext PROVE got'[d] = got[d]
  BY <1>6 DEF GuardsNext, RateNext, WsNext, BreakerNext, CallsNext, guardVars, subscriptionVars
<1> QED
  BY <1>5, <1>6

LEMMA StreamStep == StreamInv /\ [GuardsNext]_guardVars => StreamInv'
<1> SUFFICES ASSUME StreamInv, [GuardsNext]_guardVars PROVE StreamInv'
  OBVIOUS
<1>1. /\ StreamTyped' /\ StreamsGive' /\ StreamsCounted' /\ SentSeldom' /\ faults <= faults'
      /\ StreamTyped /\ SeenSeldom
  BY StreamTypedStep, StreamsGiveStep, StreamsCountedStep, SentSeldomStep DEF StreamInv
<1>2. faults \in Nat /\ faults' \in Nat
  BY <1>1 DEF StreamTyped
<1>3. ASSUME NEW s \in Subscribers, NEW r \in Records
      PROVE  Occurs(got'[s], Len(got'[s]), r) <= 1 + faults'
  <2>1. PICK g \in Seq(Records) : g = got'[s]
    BY <1>1 DEF StreamTyped
  <2>2. Len(g) \in Nat /\ Occurs(g, Len(g), r) \in Nat
    BY Len(g) \in Nat, OccursTyped
  <2>3. CASE at'[s] = None
    <3>1. g = got[s]
      BY <1>1, <2>1, <2>3, LeftKeeps
    <3>2. Occurs(g, Len(g), r) <= 1 + faults
      BY <1>1, <3>1 DEF SeenSeldom
    <3> QED
      BY <1>1, <1>2, <2>1, <2>2, <3>2
  <2>4. CASE at'[s] # None
    <3>1. PICK i \in ApiInstances, ch \in Subscription!Channels, b \in Nat :
             i = at'[s] /\ ch = Subscription!ChannelOf(s) /\ b = next'[s]
      BY <1>1, <2>4, ChannelOfType DEF StreamTyped
    <3>2. PICK q \in Seq(Records) : q = sent'[i][ch]
      BY <1>1 DEF StreamTyped
    <3>3. Given(s, q, since'[s], b, skipped'[s], g)
      BY <1>1, <2>1, <2>4, <3>1, <3>2 DEF StreamsGive, Feed
    <3>4. b <= Len(q) /\ Occurs(g, Len(g), r) <= Occurs(q, b, r) /\ Len(q) \in Nat
      BY <3>3 DEF Given
    <3>5. Occurs(q, b, r) <= Occurs(q, Len(q), r)
      BY <3>4, OccursGrow
    <3>6. Occurs(q, b, r) \in Nat /\ Occurs(q, Len(q), r) \in Nat
      BY <3>4, OccursTyped
    <3>7. Occurs(q, Len(q), r) <= 1 + faults'
      <4>1. Sendings(i, ch, r)' <= 1 + faults'
        BY <1>1 DEF SentSeldom
      <4> QED
        BY <1>2, <3>2, <3>6, <4>1 DEF Sendings
    <3> QED
      BY <1>2, <2>1, <2>2, <3>4, <3>5, <3>6, <3>7
  <2> QED
    BY <2>3, <2>4
<1>4. SeenSeldom'
  BY <1>3 DEF SeenSeldom
<1> QED
  BY <1>1, <1>4 DEF StreamInv

\* A client of a subscription has been given, in order and once, what it wants
\* of the events that its instance sent since it subscribed, but for what a lag
\* made it skip and what a rebalance or a restart had sent again; and the
\* active streams are counted (kafka/consumer.rs, gql/subscription.rs,
\* gql/context.rs).
THEOREM StreamsAreKept == GuardsSpec => []StreamsKept
<1>1. GuardsInit => StreamInv
  BY StreamInit
<1>2. StreamInv /\ [GuardsNext]_guardVars => StreamInv'
  BY StreamStep
<1>3. StreamInv => StreamsKept
  BY StreamInvIs DEF StreamsKept
<1> QED
  BY <1>1, <1>2, <1>3, PTL DEF GuardsSpec

-----------------------------------------------------------------------------
(* The rate limiter: how many of some times are after u.                   *)

After(times, u) == Cardinality({k \in 1..Len(times) : times[k] > u})

PermittedBurst == Rate!Burst(Rate!TierOf(client))

RateTyped ==
    /\ client \in Rate!Counted /\ now \in Nat
    /\ window \subseteq Nat \X Draws /\ IsFiniteSet(window)
    /\ counter \in [RateInstances -> [count : Nat, start : Nat] \cup {None}]
    /\ cleaned \in [RateInstances -> Nat]
    /\ granted \in [RateInstances \cup {"redis"} -> Seq(Nat)]
    /\ collided \in Seq(Nat)
    /\ awaited \in Nat \cup {None}

GrantsPast ==
    /\ \A s \in RateInstances \cup {"redis"} : \A k \in DOMAIN granted[s] : granted[s][k] <= now
    /\ \A k \in DOMAIN collided : collided[k] <= now

\* The set of Redis holds a member for each request that is in some window to
\* come, but for those that were replaced.
LaterThan(u) == {e \in window : e[1] > u}
WindowCounts ==
    /\ Cardinality(window) <= PermittedBurst
    /\ \A u \in Int : u >= now - RateWindow =>
          After(granted["redis"], u) <= Cardinality(LaterThan(u)) + After(collided, u)

\* The counter of an instance counts the requests after its start, and in the
\* window before that no more than the counter before it let through.
CountersCount ==
    \A i \in RateInstances :
        /\ counter[i] = None => granted[i] = <<>>
        /\ counter[i] # None =>
              /\ counter[i].start <= now /\ counter[i].count <= Rate!Effective
              /\ \A u \in Int :
                    /\ u >= counter[i].start => After(granted[i], u) <= counter[i].count
                    /\ u >= counter[i].start - RateWindow =>
                          After(granted[i], u) <= Rate!Effective + counter[i].count

\* The client waits for a member of the window to leave it.
WaitsForOne == awaited # None => window = {} \/ \E e \in window : awaited = e[1] + RateWindow

RateInv ==
    /\ RateTyped /\ GrantsPast /\ WindowCounts /\ CountersCount /\ WaitsForOne
    /\ Rate!Bounded


LEMMA RateCount == \A S : Rate!Cardinality(S) = Cardinality(S)
  BY DEF Rate!Cardinality, Cardinality

LEMMA RateConstants ==
    /\ RateWindow \in Nat \ {0} /\ FallbackLimit \in Nat /\ MaxTime \in Nat
    /\ "redis" \notin RateInstances /\ None \notin [count : Nat, start : Nat]
    /\ DOMAIN PerMinute = {"free", "pro", "enterprise"}
    /\ \A t \in DOMAIN PerMinute : PerMinute[t] \in Nat
    /\ \A k \in DOMAIN TierOfKey : TierOfKey[k] \in DOMAIN PerMinute \cup {"unlimited"}
  BY GuardsAssumption DEF GuardsAssumption, Rate!LimitsAssumption

\* A client that is counted has the limits of its tier.
LEMMA LimitTypes ==
    ASSUME client \in Rate!Counted
    PROVE  PermittedBurst \in Nat /\ Rate!Effective \in Nat
<1>1. Rate!TierOf(client) \in {"free", "pro", "enterprise"}
  BY RateConstants DEF Rate!Counted, Rate!TierOf
<1>2. PICK t \in {"free", "pro", "enterprise"} : t = Rate!TierOf(client)
  BY <1>1
<1>3. PICK n \in Nat : n = PerMinute[t]
  BY RateConstants
<1>4. Rate!Burst(t) \in Nat
  <2>1. (n * 3) \div 2 \in Nat /\ n * 2 \in Nat
    BY <1>3
  <2> QED
    BY <1>2, <1>3, <2>1 DEF Rate!Burst
<1>5. Rate!Effective \in Nat
  BY <1>2, <1>3, RateConstants DEF Rate!Effective, Rate!Least
<1> QED
  BY <1>2, <1>4, <1>5 DEF PermittedBurst

LEMMA AfterTyped ==
    ASSUME NEW q \in Seq(Nat), NEW u \in Int
    PROVE  IsFiniteSet({k \in 1..Len(q) : q[k] > u}) /\ After(q, u) \in Nat
<1>1. IsFiniteSet(1..Len(q)) /\ {k \in 1..Len(q) : q[k] > u} \subseteq 1..Len(q)
  BY Len(q) \in Nat, FS_Interval
<1> QED
  BY <1>1, FS_Subset, FS_CardinalityType DEF After

LEMMA AfterNext ==
    ASSUME NEW q \in Seq(Nat), NEW n \in Nat, NEW u \in Int
    PROVE  After(Append(q, n), u) = After(q, u) + IF n > u THEN 1 ELSE 0
<1>0. /\ Len(q) \in Nat /\ Len(Append(q, n)) = Len(q) + 1 /\ Append(q, n)[Len(q) + 1] = n
      /\ \A k \in 1..Len(q) : Append(q, n)[k] = q[k]
  OBVIOUS
<1> DEFINE T == {k \in 1..Len(q) : q[k] > u}
<1>1. IsFiniteSet(T) /\ Cardinality(T) \in Nat /\ Len(q) + 1 \notin T
  BY <1>0, AfterTyped DEF After
<1>2. CASE n > u
  <2>1. {k \in 1..Len(Append(q, n)) : Append(q, n)[k] > u} = T \cup {Len(q) + 1}
    BY <1>0, <1>2
  <2> HIDE DEF T
  <2>2. Cardinality(T \cup {Len(q) + 1}) = Cardinality(T) + 1
    BY <1>1, FS_AddElement
  <2> QED
    BY <1>2, <2>1, <2>2 DEF After, T
<1>3. CASE ~(n > u)
  <2>1. {k \in 1..Len(Append(q, n)) : Append(q, n)[k] > u} = T
    BY <1>0, <1>3
  <2> HIDE DEF T
  <2>2. After(Append(q, n), u) = Cardinality(T)
    BY <2>1, Zenon DEF After
  <2>3. After(q, u) = Cardinality(T)
    BY Zenon DEF After, T
  <2> QED
    BY <1>1, <1>3, <2>2, <2>3
<1> QED
  BY <1>2, <1>3

\* Where no time is after u none is counted.
LEMMA AfterNone ==
    ASSUME NEW q \in Seq(Nat), NEW u \in Int, \A k \in DOMAIN q : q[k] <= u
    PROVE  After(q, u) = 0
<1>1. {k \in 1..Len(q) : q[k] > u} = {}
  <2>1. \A k \in 1..Len(q) : q[k] \in Nat /\ q[k] <= u
    OBVIOUS
  <2> QED
    BY <2>1
<1> QED
  BY <1>1, FS_EmptySet DEF After

\* A window that ends in the future is counted from its beginning, and one
\* that has ended is not changed by what comes.
LEMMA WithinAfter ==
    ASSUME NEW q \in Seq(Nat), NEW t \in Int, \A k \in DOMAIN q : q[k] <= t
    PROVE  Rate!Within(q, t) = After(q, t - RateWindow)
<1>1. {k \in DOMAIN q : t - RateWindow < q[k] /\ q[k] <= t} = {k \in 1..Len(q) : q[k] > t - RateWindow}
  <2>1. DOMAIN q = 1..Len(q) /\ \A k \in 1..Len(q) : q[k] \in Nat /\ q[k] <= t
    OBVIOUS
  <2>2. t - RateWindow \in Int
    BY RateConstants
  <2> QED
    BY <2>1, <2>2
<1> QED
  BY <1>1, RateCount DEF Rate!Within, After

LEMMA WithinBefore ==
    ASSUME NEW q \in Seq(Nat), NEW n \in Nat, NEW t \in Int, t < n
    PROVE  Rate!Within(Append(q, n), t) = Rate!Within(q, t)
<1>1. /\ DOMAIN q = 1..Len(q) /\ DOMAIN Append(q, n) = 1..Len(q) + 1 /\ Len(q) \in Nat
      /\ Append(q, n)[Len(q) + 1] = n /\ \A k \in 1..Len(q) : Append(q, n)[k] = q[k]
  OBVIOUS
<1>2. {k \in DOMAIN Append(q, n) : t - RateWindow < Append(q, n)[k] /\ Append(q, n)[k] <= t}
         = {k \in DOMAIN q : t - RateWindow < q[k] /\ q[k] <= t}
  BY <1>1
<1> QED
  BY <1>2, RateCount DEF Rate!Within

LEMMA LeastNat ==
    ASSUME NEW T \in SUBSET Nat, T # {}
    PROVE  \E m \in T : \A k \in T : m <= k
<1>1. PICK m \in T : \A k \in T : ~(<<k, m>> \in OpToRel(<, Nat))
  BY WFMin, NatLessThanWellFounded, Zenon
<1>2. \A k \in T : ~(k < m)
  BY <1>1, Zenon DEF OpToRel
<1> QED
  BY <1>2

LEMMA LaterTyped ==
    ASSUME RateTyped, NEW u \in Int
    PROVE  /\ IsFiniteSet(LaterThan(u)) /\ Cardinality(LaterThan(u)) \in Nat
           /\ Cardinality(LaterThan(u)) <= Cardinality(window) /\ Cardinality(window) \in Nat
<1>1. IsFiniteSet(window) /\ LaterThan(u) \in SUBSET window
  BY DEF RateTyped, LaterThan
<1> QED
  BY <1>1, FS_Subset, FS_CardinalityType

\* The limits hold of every window that has not ended.
BoundsNow ==
    \A t \in Int : t >= now =>
        /\ Rate!Within(granted["redis"], t) <= PermittedBurst + Rate!Within(collided, t)
        /\ \A i \in RateInstances : Rate!Within(granted[i], t) <= 2 * Rate!Effective

LEMMA BoundedNow == RateTyped /\ GrantsPast /\ WindowCounts /\ CountersCount => BoundsNow
<1> SUFFICES ASSUME RateTyped, GrantsPast, WindowCounts, CountersCount, NEW t \in Int, t >= now
             PROVE  /\ Rate!Within(granted["redis"], t) <= PermittedBurst + Rate!Within(collided, t)
                    /\ \A i \in RateInstances : Rate!Within(granted[i], t) <= 2 * Rate!Effective
  BY DEF BoundsNow
<1>0. /\ now \in Nat /\ collided \in Seq(Nat) /\ RateWindow \in Nat /\ t - RateWindow \in Int
      /\ \A s \in RateInstances \cup {"redis"} : granted[s] \in Seq(Nat)
  BY RateConstants DEF RateTyped
<1>1. /\ \A k \in DOMAIN collided : collided[k] <= t
      /\ \A s \in RateInstances \cup {"redis"} : \A k \in DOMAIN granted[s] : granted[s][k] <= t
  <2>1. \A x \in Nat : x <= now => x <= t
    BY <1>0
  <2>2. \A q \in Seq(Nat) : \A k \in DOMAIN q : q[k] \in Nat
    OBVIOUS
  <2> QED
    BY <1>0, <2>1, <2>2 DEF GrantsPast
<1>2. PICK u \in Int : u = t - RateWindow /\ u >= now - RateWindow
  BY <1>0
<1>3. PICK b \in Nat, f \in Nat : b = PermittedBurst /\ f = Rate!Effective
  BY LimitTypes DEF RateTyped
<1>4. Rate!Within(granted["redis"], t) <= b + Rate!Within(collided, t)
  <2>1. /\ Rate!Within(granted["redis"], t) = After(granted["redis"], u)
        /\ Rate!Within(collided, t) = After(collided, u)
    BY <1>0, <1>1, <1>2, WithinAfter
  <2>2. PICK a \in Nat, l \in Nat, c \in Nat :
            /\ a = After(granted["redis"], u) /\ l = Cardinality(LaterThan(u))
            /\ c = After(collided, u)
    BY <1>0, AfterTyped, LaterTyped
  <2>3. a <= l + c /\ l <= b
    <3>1. a <= l + c
      BY <1>2, <2>2 DEF WindowCounts
    <3>2. l <= Cardinality(window) /\ Cardinality(window) \in Nat /\ Cardinality(window) <= b
      BY <1>3, <2>2, LaterTyped DEF WindowCounts
    <3> QED
      BY <3>1, <3>2
  <2>4. a <= b + c
    BY <2>3
  <2> QED
    BY <2>1, <2>2, <2>4
<1>5. ASSUME NEW i \in RateInstances PROVE Rate!Within(granted[i], t) <= 2 * f
  <2>1. Rate!Within(granted[i], t) = After(granted[i], u)
    BY <1>0, <1>1, <1>2, WithinAfter
  <2>2. CASE counter[i] = None
    <3>1. granted[i] = <<>>
      BY <2>2 DEF CountersCount
    <3>2. After(granted[i], u) = 0
      BY <1>0, <3>1, AfterNone
    <3> QED
      BY <2>1, <3>2
  <2>3. CASE counter[i] # None
    <3>1. PICK n \in Nat, s \in Nat : n = counter[i].count /\ s = counter[i].start
      BY <2>3 DEF RateTyped
    <3>2. s <= now /\ n <= f
      BY <1>3, <2>3, <3>1 DEF CountersCount
    <3>3. u >= s - RateWindow
      BY <1>0, <1>2, <3>2
    <3>4. After(granted[i], u) <= f + n
      BY <1>3, <2>3, <3>1, <3>3 DEF CountersCount
    <3>5. After(granted[i], u) \in Nat
      BY <1>0, AfterTyped
    <3> QED
      BY <2>1, <3>2, <3>4, <3>5
  <2> QED
    BY <2>2, <2>3
<1> QED
  BY <1>3, <1>4, <1>5

LEMMA RateInit == GuardsInit => RateInv
<1> SUFFICES ASSUME GuardsInit PROVE RateInv
  OBVIOUS
<1>1. /\ client \in Rate!Counted /\ now = RateWindow /\ window = {}
      /\ counter = [i \in RateInstances |-> None] /\ cleaned = [i \in RateInstances |-> now]
      /\ granted = [s \in RateInstances \cup {"redis"} |-> <<>>]
      /\ collided = <<>> /\ awaited = None
  BY DEF GuardsInit, Rate!Init, Rate!Sources
<1>2. RateTyped
  <2>1. RateWindow \in Nat /\ IsFiniteSet({}) /\ <<>> \in Seq(Nat)
    BY RateConstants, FS_EmptySet
  <2>2. granted \in [RateInstances \cup {"redis"} -> Seq(Nat)]
    BY <1>1, <2>1
  <2>3. window \subseteq Nat \X Draws /\ IsFiniteSet(window)
    BY <1>1, <2>1
  <2>4. now \in Nat /\ cleaned \in [RateInstances -> Nat]
    BY <1>1, <2>1
  <2>5. counter \in [RateInstances -> [count : Nat, start : Nat] \cup {None}]
    BY <1>1
  <2>6. client \in Rate!Counted /\ collided \in Seq(Nat) /\ awaited \in Nat \cup {None}
    BY <1>1, <2>1
  <2> QED
    BY <2>2, <2>3, <2>4, <2>5, <2>6, Zenon DEF RateTyped
<1>3. GrantsPast
  BY <1>1 DEF GrantsPast
<1>4. ASSUME NEW u \in Int PROVE After(<<>>, u) = 0
  <2>0. <<>> \in Seq(Nat)
    BY Zenon, EmptySeq
  <2>1. PICK q \in Seq(Nat) : q = <<>>
    BY <2>0, Zenon
  <2>2. \A k \in DOMAIN q : q[k] <= u
    BY <2>1
  <2>3. After(q, u) = 0
    BY <2>2, AfterNone
  <2> QED
    BY <2>1, <2>3
<1>5. WindowCounts
  <2>1. Cardinality(window) = 0 /\ \A u : LaterThan(u) = {}
    BY <1>1, FS_EmptySet DEF LaterThan
  <2>2. granted["redis"] = <<>>
    BY <1>1
  <2>3. PermittedBurst \in Nat
    BY <1>1, LimitTypes
  <2>4. \A u : Cardinality(LaterThan(u)) = 0
    BY <2>1, FS_EmptySet
  <2> QED
    BY <1>1, <1>4, <2>1, <2>2, <2>3, <2>4 DEF WindowCounts
<1>6. CountersCount
  BY <1>1 DEF CountersCount
<1>7. WaitsForOne
  BY <1>1 DEF WaitsForOne
<1>8. Rate!Bounded
  <2> SUFFICES ASSUME NEW t \in Rate!Times
               PROVE  /\ Rate!Within(granted["redis"], t) <= PermittedBurst + Rate!Within(collided, t)
                      /\ \A i \in RateInstances : Rate!Within(granted[i], t) <= 2 * Rate!Effective
    BY DEF Rate!Bounded, PermittedBurst
  <2>1. t \in Int /\ t >= now
    BY <1>1, RateConstants DEF Rate!Times
  <2> QED
    BY <1>2, <1>3, <1>5, <1>6, <2>1, BoundedNow DEF BoundsNow
<1> QED
  BY <1>2, <1>3, <1>5, <1>6, <1>7, <1>8 DEF RateInv

\* A check keeps the limits if it keeps what they rest on and grants, if at
\* all, a request now.
LEMMA CheckBounded ==
    ASSUME RateTyped, Rate!Bounded, UNCHANGED <<client, now>>,
           (RateTyped /\ GrantsPast /\ WindowCounts /\ CountersCount)',
           \A s \in RateInstances \cup {"redis"} :
               granted'[s] = granted[s] \/ granted'[s] = Append(granted[s], now),
           collided' = collided \/ collided' = Append(collided, now)
    PROVE  Rate!Bounded'
<1> SUFFICES ASSUME NEW t \in Rate!Times
             PROVE  /\ Rate!Within(granted'["redis"], t) <= PermittedBurst + Rate!Within(collided', t)
                    /\ \A i \in RateInstances : Rate!Within(granted'[i], t) <= 2 * Rate!Effective
  BY DEF Rate!Bounded, PermittedBurst, Rate!Effective, Rate!TierOf, Rate!Within, Rate!Times
<1>1. t \in Int /\ now \in Nat /\ collided \in Seq(Nat)
  BY RateConstants DEF Rate!Times, RateTyped
<1>2. \A s \in RateInstances \cup {"redis"} : granted[s] \in Seq(Nat)
  BY DEF RateTyped
<1>3. CASE t < now
  <2>1. \A s \in RateInstances \cup {"redis"} : Rate!Within(granted'[s], t) = Rate!Within(granted[s], t)
    BY <1>1, <1>2, <1>3, WithinBefore
  <2>2. Rate!Within(collided', t) = Rate!Within(collided, t)
    BY <1>1, <1>3, WithinBefore
  <2>3. /\ Rate!Within(granted["redis"], t) <= PermittedBurst + Rate!Within(collided, t)
        /\ \A i \in RateInstances : Rate!Within(granted[i], t) <= 2 * Rate!Effective
    BY DEF Rate!Bounded, PermittedBurst
  <2> QED
    BY <2>1, <2>2, <2>3
<1>4. CASE t >= now
  <2>1. /\ Rate!Within(granted'["redis"], t) <= PermittedBurst' + Rate!Within(collided', t)
        /\ \A i \in RateInstances : Rate!Within(granted'[i], t) <= 2 * Rate!Effective'
    <3>1. BoundsNow'
      BY BoundedNow, PTL
    <3>2. t >= now'
      BY <1>4
    <3> QED
      BY <1>1, <3>1, <3>2 DEF BoundsNow, Rate!Within
  <2>2. PermittedBurst' = PermittedBurst /\ Rate!Effective' = Rate!Effective
    BY DEF PermittedBurst, Rate!Effective
  <2> QED
    BY <2>1, <2>2
<1> QED
  BY <1>1, <1>3, <1>4

\* The members that are in the window after a script of Redis.
LEMMA RecentFacts ==
    ASSUME RateTyped
    PROVE  /\ Rate!Recent \subseteq window /\ IsFiniteSet(Rate!Recent)
           /\ Cardinality(Rate!Recent) \in Nat
           /\ Cardinality(Rate!Recent) <= Cardinality(window) /\ Cardinality(window) \in Nat
           /\ \A u \in Int : u >= now - RateWindow =>
                 {e \in Rate!Recent : e[1] > u} = LaterThan(u)
<1>1. IsFiniteSet(window) /\ Rate!Recent \in SUBSET window
  BY DEF RateTyped, Rate!Recent
<1>2. /\ IsFiniteSet(Rate!Recent) /\ Cardinality(Rate!Recent) \in Nat
      /\ Cardinality(Rate!Recent) <= Cardinality(window) /\ Cardinality(window) \in Nat
  BY <1>1, FS_Subset, FS_CardinalityType
<1>3. ASSUME NEW u \in Int, u >= now - RateWindow
      PROVE  {e \in Rate!Recent : e[1] > u} = LaterThan(u)
  <2>1. \A e \in window : e[1] \in Nat
    BY DEF RateTyped
  <2>2. now \in Nat /\ RateWindow \in Nat
    BY RateConstants DEF RateTyped
  <2>3. \A e \in window : e[1] > u => e[1] > now - RateWindow
    BY <1>3, <2>1, <2>2
  <2> QED
    BY <2>3 DEF Rate!Recent, LaterThan
<1> QED
  BY <1>1, <1>2, <1>3

\* Time passes: windows end and none begins.
LEMMA RateTick ==
    ASSUME RateInv, Rate!Tick
    PROVE  RateInv'
<1>0. /\ RateTyped /\ GrantsPast /\ WindowCounts /\ CountersCount /\ WaitsForOne /\ Rate!Bounded
      /\ now \in Nat /\ now' = now + 1 /\ RateWindow \in Nat
      /\ UNCHANGED <<client, window, counter, cleaned, granted, collided, awaited>>
  BY RateConstants DEF RateInv, Rate!Tick, Rate!local, RateTyped
<1>1. RateTyped'
  BY <1>0 DEF RateTyped
<1>2. GrantsPast'
  <2>1. \A q \in Seq(Nat) : \A k \in DOMAIN q : q[k] \in Nat
    OBVIOUS
  <2>2. \A x \in Nat : x <= now => x <= now'
    BY <1>0
  <2>3. collided \in Seq(Nat) /\ \A s \in RateInstances \cup {"redis"} : granted[s] \in Seq(Nat)
    BY <1>0 DEF RateTyped
  <2> QED
    BY <1>0, <2>1, <2>2, <2>3 DEF GrantsPast
<1>3. WindowCounts'
  <2>1. PermittedBurst' = PermittedBurst /\ \A u : LaterThan(u)' = LaterThan(u)
    BY <1>0 DEF PermittedBurst, LaterThan
  <2>2. \A u \in Int : u >= now' - RateWindow => u >= now - RateWindow
    BY <1>0
  <2> QED
    BY <1>0, <2>1, <2>2 DEF WindowCounts
<1>4. CountersCount'
  <2>1. Rate!Effective' = Rate!Effective
    BY <1>0 DEF Rate!Effective
  <2>2. \A i \in RateInstances : counter[i] # None /\ counter[i].start <= now => counter[i].start <= now'
    BY <1>0 DEF RateTyped
  <2> QED
    BY <1>0, <2>1, <2>2 DEF CountersCount
<1>5. WaitsForOne'
  BY <1>0 DEF WaitsForOne
<1>6. Rate!Bounded'
  BY <1>0 DEF Rate!Bounded, Rate!Effective
<1> QED
  BY <1>1, <1>2, <1>3, <1>4, <1>5, <1>6 DEF RateInv

\* The script that denies a request only forgets members that have left.
LEMMA RateDenied ==
    ASSUME RateInv, Rate!DeniedByRedis
    PROVE  RateInv'
<1>0. /\ RateTyped /\ GrantsPast /\ WindowCounts /\ CountersCount /\ WaitsForOne /\ Rate!Bounded
      /\ now \in Nat /\ RateWindow \in Nat /\ window' = Rate!Recent
      /\ awaited' = IF Rate!Recent = {} THEN now ELSE Rate!Earliest(Rate!Recent) + RateWindow
      /\ UNCHANGED <<client, now, counter, cleaned, granted, collided>>
  BY RateConstants DEF RateInv, Rate!DeniedByRedis, Rate!local, RateTyped
<1>1. Rate!Recent # {} => \E e \in Rate!Recent : Rate!Earliest(Rate!Recent) = e[1]
  <2> SUFFICES ASSUME Rate!Recent # {}
               PROVE  \E e \in Rate!Recent : Rate!Earliest(Rate!Recent) = e[1]
    OBVIOUS
  <2>1. PICK R : R = Rate!Recent /\ R # {}
    OBVIOUS
  <2>2. {e[1] : e \in R} \in SUBSET Nat /\ {e[1] : e \in R} # {}
    BY <1>0, <2>1, RecentFacts DEF RateTyped
  <2>3. \E m \in {e[1] : e \in R} : \A k \in {e[1] : e \in R} : m <= k
    BY <2>2, LeastNat
  <2>4. \E m \in {e[1] : e \in R} : \A e \in R : m <= e[1]
    BY <2>3
  <2>5. Rate!Earliest(R) \in {e[1] : e \in R}
    BY <2>4 DEF Rate!Earliest
  <2> QED
    BY <2>1, <2>5
<1>2. RateTyped'
  <2>1. window' \subseteq Nat \X Draws /\ IsFiniteSet(window')
    BY <1>0, RecentFacts DEF RateTyped
  <2>2. awaited' \in Nat \cup {None}
    <3>1. CASE Rate!Recent = {}
      BY <1>0, <3>1
    <3>2. CASE Rate!Recent # {}
      <4>1. PICK e \in Rate!Recent : Rate!Earliest(Rate!Recent) = e[1]
        BY <1>1, <3>2
      <4>2. e[1] \in Nat
        BY <1>0, RecentFacts DEF RateTyped
      <4> QED
        BY <1>0, <3>2, <4>1, <4>2
    <3> QED
      BY <3>1, <3>2
  <2> QED
    BY <1>0, <2>1, <2>2 DEF RateTyped
<1>3. GrantsPast' /\ CountersCount' /\ Rate!Bounded'
  BY <1>0 DEF GrantsPast, CountersCount, Rate!Bounded, Rate!Effective
<1>4. WindowCounts'
  <2>1. PermittedBurst \in Nat /\ PermittedBurst' = PermittedBurst
    BY <1>0, LimitTypes DEF PermittedBurst, RateTyped
  <2>2. Cardinality(window') <= PermittedBurst
    BY <1>0, <2>1, RecentFacts DEF WindowCounts
  <2>3. ASSUME NEW u \in Int, u >= now - RateWindow
        PROVE  LaterThan(u)' = LaterThan(u)
    <3>1. LaterThan(u)' = {e \in Rate!Recent : e[1] > u}
      BY <1>0 DEF LaterThan
    <3> QED
      BY <1>0, <2>3, <3>1, RecentFacts
  <2> QED
    BY <1>0, <2>1, <2>2, <2>3 DEF WindowCounts
<1>5. WaitsForOne'
  BY <1>0, <1>1 DEF WaitsForOne
<1> QED
  BY <1>2, <1>3, <1>4, <1>5 DEF RateInv

\* The script that lets a request through counts it, as a new member or as a
\* replaced one.
LEMMA RateRedis ==
    ASSUME RateInv, NEW d \in Draws, Rate!CheckRedis(d)
    PROVE  RateInv'
<1>0. /\ RateTyped /\ GrantsPast /\ WindowCounts /\ CountersCount /\ WaitsForOne /\ Rate!Bounded
      /\ now \in Nat /\ RateWindow \in Nat /\ window' = Rate!Recent \cup {<<now, d>>}
      /\ Cardinality(Rate!Recent) < PermittedBurst
      /\ granted' = [granted EXCEPT !["redis"] = Append(granted["redis"], now)]
      /\ <<now, d>> \in Rate!Recent => collided' = Append(collided, now)
      /\ <<now, d>> \notin Rate!Recent => collided' = collided
      /\ awaited' = None /\ UNCHANGED <<client, now, counter, cleaned>>
  BY RateConstants, RateCount DEF RateInv, Rate!CheckRedis, Rate!local, RateTyped, PermittedBurst
<1>1. /\ granted["redis"] \in Seq(Nat) /\ collided \in Seq(Nat)
      /\ granted'["redis"] = Append(granted["redis"], now)
      /\ \A i \in RateInstances : granted'[i] = granted[i]
      /\ granted' \in [RateInstances \cup {"redis"} -> Seq(Nat)]
      /\ collided' \in Seq(Nat)
  <2>1. "redis" \in RateInstances \cup {"redis"} /\ granted["redis"] \in Seq(Nat)
    BY <1>0 DEF RateTyped
  <2>2. Append(granted["redis"], now) \in Seq(Nat) /\ Append(collided, now) \in Seq(Nat)
    BY <1>0, <2>1 DEF RateTyped
  <2>3. granted \in [RateInstances \cup {"redis"} -> Seq(Nat)] /\ collided \in Seq(Nat)
    BY <1>0 DEF RateTyped
  <2> QED
    BY <1>0, <2>1, <2>2, <2>3, RateConstants
<1>2. RateTyped'
  <2>1. window' \subseteq Nat \X Draws /\ IsFiniteSet(window')
    <3>1. IsFiniteSet(Rate!Recent) /\ Rate!Recent \subseteq Nat \X Draws /\ <<now, d>> \in Nat \X Draws
      BY <1>0, RecentFacts DEF RateTyped
    <3> QED
      BY <1>0, <3>1, FS_AddElement
  <2> QED
    BY <1>0, <1>1, <2>1 DEF RateTyped
<1>3. GrantsPast'
  <2>1. ASSUME NEW q \in Seq(Nat), \A k \in DOMAIN q : q[k] <= now
        PROVE  \A k \in DOMAIN Append(q, now) : Append(q, now)[k] <= now
    BY <1>0, <2>1
  <2>2. \A k \in DOMAIN granted'["redis"] : granted'["redis"][k] <= now
    BY <1>0, <1>1, <2>1 DEF GrantsPast
  <2>3. \A k \in DOMAIN collided' : collided'[k] <= now
    BY <1>0, <1>1, <2>1 DEF GrantsPast
  <2> QED
    BY <1>0, <1>1, <2>2, <2>3 DEF GrantsPast
<1>4. WindowCounts'
  <2>1. PermittedBurst \in Nat /\ PermittedBurst' = PermittedBurst
    BY <1>0, LimitTypes DEF PermittedBurst, RateTyped
  <2>2. PICK r \in Nat : /\ r = Cardinality(Rate!Recent) /\ IsFiniteSet(Rate!Recent)
                         /\ r < PermittedBurst
    BY <1>0, RecentFacts
  <2>3. Cardinality(window') <= PermittedBurst
    <3>1. Cardinality(window') = IF <<now, d>> \in Rate!Recent THEN r ELSE r + 1
      BY <1>0, <2>2, FS_AddElement
    <3> QED
      BY <2>1, <2>2, <3>1
  <2>4. ASSUME NEW u \in Int, u >= now - RateWindow
        PROVE  After(granted'["redis"], u) <= Cardinality(LaterThan(u)') + After(collided', u)
    <3>1. LaterThan(u)' = LaterThan(u) \cup (IF now > u THEN {<<now, d>>} ELSE {})
      <4>1. {e \in Rate!Recent : e[1] > u} = LaterThan(u)
        BY <1>0, <2>4, RecentFacts
      <4> QED
        BY <1>0, <4>1 DEF LaterThan
    <3>2. PICK a \in Nat, c \in Nat : a = After(granted["redis"], u) /\ c = After(collided, u)
      BY <1>1, AfterTyped
    <3>3. PICK l \in Nat : l = Cardinality(LaterThan(u)) /\ IsFiniteSet(LaterThan(u))
      BY <1>0, LaterTyped
    <3>4. a <= l + c
      BY <1>0, <2>4, <3>2, <3>3 DEF WindowCounts
    <3>5. CASE now > u
      <4>1. <<now, d>> \in LaterThan(u) <=> <<now, d>> \in Rate!Recent
        BY <1>0, <2>4, <3>5, RecentFacts
      <4>2. LaterThan(u)' = LaterThan(u) \cup {<<now, d>>}
        BY <3>1, <3>5
      <4>3. After(Append(granted["redis"], now), u) = a + 1 /\ After(Append(collided, now), u) = c + 1
        <5>1. /\ After(Append(granted["redis"], now), u) = After(granted["redis"], u) + IF now > u THEN 1 ELSE 0
              /\ After(Append(collided, now), u) = After(collided, u) + IF now > u THEN 1 ELSE 0
          BY <1>0, <1>1, AfterNext
        <5> QED
          BY <3>2, <3>5, <5>1
      <4>4. CASE <<now, d>> \in Rate!Recent
        <5>1. LaterThan(u)' = LaterThan(u)
          BY <4>1, <4>2, <4>4
        <5>2. Cardinality(LaterThan(u)') = l
          BY <3>3, <5>1
        <5>3. After(granted'["redis"], u) = a + 1 /\ After(collided', u) = c + 1
          BY <1>0, <1>1, <4>3, <4>4
        <5> QED
          BY <3>4, <5>2, <5>3
      <4>5. CASE <<now, d>> \notin Rate!Recent
        <5>1. Cardinality(LaterThan(u) \cup {<<now, d>>}) = l + 1
          BY <3>3, <4>1, <4>5, FS_AddElement
        <5>2. Cardinality(LaterThan(u)') = l + 1
          BY <4>2, <5>1
        <5>3. After(granted'["redis"], u) = a + 1 /\ After(collided', u) = c
          BY <1>0, <1>1, <3>2, <4>3, <4>5
        <5> QED
          BY <3>4, <5>2, <5>3
      <4> QED
        BY <4>4, <4>5
    <3>6. CASE ~(now > u)
      <4>1. LaterThan(u)' = LaterThan(u)
        BY <3>1, <3>6
      <4>2. After(Append(granted["redis"], now), u) = a /\ After(Append(collided, now), u) = c
        <5>1. /\ After(Append(granted["redis"], now), u) = After(granted["redis"], u) + IF now > u THEN 1 ELSE 0
              /\ After(Append(collided, now), u) = After(collided, u) + IF now > u THEN 1 ELSE 0
          BY <1>0, <1>1, AfterNext
        <5> QED
          BY <3>2, <3>6, <5>1
      <4>3. After(collided', u) = c
        BY <1>0, <3>2, <4>2
      <4>4. Cardinality(LaterThan(u)') = l /\ After(granted'["redis"], u) = a
        BY <1>1, <3>3, <4>1, <4>2
      <4> QED
        BY <3>4, <4>3, <4>4
    <3> QED
      BY <3>5, <3>6
  <2> QED
    BY <1>0, <2>1, <2>3, <2>4 DEF WindowCounts
<1>5. CountersCount'
  BY <1>0, <1>1 DEF CountersCount, Rate!Effective
<1>6. WaitsForOne'
  BY <1>0 DEF WaitsForOne
<1>7. Rate!Bounded'
  <2>1. /\ \A s \in RateInstances \cup {"redis"} :
              granted'[s] = granted[s] \/ granted'[s] = Append(granted[s], now)
        /\ collided' = collided \/ collided' = Append(collided, now)
    BY <1>0, <1>1
  <2> QED
    BY <1>0, <1>2, <1>3, <1>4, <1>5, <2>1, CheckBounded
<1> QED
  BY <1>2, <1>3, <1>4, <1>5, <1>6, <1>7 DEF RateInv

\* What the counter of an instance becomes: one that goes on or a new one, and
\* a request is let through, if at all, below the limit.
LEMMA LocalEntry ==
    ASSUME NEW i \in RateInstances, Rate!CheckLocal(i), RateInv
    PROVE  \E e \in [count : Nat, start : Nat] :
              /\ counter'[i] = [e EXCEPT !.count = IF e.count < Rate!Effective
                                                    THEN e.count + 1 ELSE e.count]
              /\ granted' = IF e.count < Rate!Effective
                            THEN [granted EXCEPT ![i] = Append(granted[i], now)] ELSE granted
              /\ \/ e = counter[i] /\ counter[i] # None
                 \/ /\ e = [count |-> 0, start |-> now]
                    /\ counter[i] # None => counter[i].start <= now - RateWindow
<1>0. RateTyped /\ now \in Nat /\ RateWindow \in Nat
  BY RateConstants DEF RateInv, RateTyped
<1>1. counter[i] # None => counter[i] \in [count : Nat, start : Nat]
  BY <1>0 DEF RateTyped
<1> DEFINE clean == now - cleaned[i] > CleanupEvery
           kept == IF clean /\ counter[i] # None /\ counter[i].start <= now - RateWindow
                   THEN None ELSE counter[i]
           entry == IF kept = None THEN [count |-> 0, start |-> now]
                    ELSE IF Rate!Expired(kept) THEN [count |-> 0, start |-> now] ELSE kept
<1>2. /\ counter' = [counter EXCEPT ![i] =
             [entry EXCEPT !.count = IF entry.count < Rate!Effective THEN entry.count + 1 ELSE entry.count]]
      /\ granted' = IF entry.count < Rate!Effective
                    THEN [granted EXCEPT ![i] = Append(granted[i], now)] ELSE granted
  BY DEF Rate!CheckLocal
<1>3. \/ entry = counter[i] /\ counter[i] # None
      \/ /\ entry = [count |-> 0, start |-> now]
         /\ counter[i] # None => counter[i].start <= now - RateWindow
  <2>1. CASE kept = None
    BY <2>1
  <2>2. CASE kept # None
    <3>1. kept = counter[i] /\ counter[i] # None
      BY <2>2
    <3>2. CASE Rate!Expired(kept)
      BY <1>0, <1>1, <2>2, <3>1, <3>2 DEF Rate!Expired
    <3>3. CASE ~Rate!Expired(kept)
      BY <2>2, <3>1, <3>3
    <3> QED
      BY <3>2, <3>3
  <2> QED
    BY <2>1, <2>2
<1>4. entry \in [count : Nat, start : Nat]
  <2>1. [count |-> 0, start |-> now] \in [count : Nat, start : Nat]
    BY <1>0
  <2> HIDE DEF entry
  <2> QED
    BY <1>1, <1>3, <2>1
<1> HIDE DEF entry
<1>5. counter'[i] = [entry EXCEPT !.count = IF entry.count < Rate!Effective
                                             THEN entry.count + 1 ELSE entry.count]
  BY <1>0, <1>2 DEF RateTyped
<1> QED
  BY <1>2, <1>3, <1>4, <1>5

LEMMA RateLocal ==
    ASSUME RateInv, NEW i \in RateInstances, Rate!CheckLocal(i)
    PROVE  RateInv'
<1>0. /\ RateTyped /\ GrantsPast /\ WindowCounts /\ CountersCount /\ WaitsForOne /\ Rate!Bounded
      /\ now \in Nat /\ RateWindow \in Nat \ {0}
      /\ counter \in [RateInstances -> [count : Nat, start : Nat] \cup {None}]
      /\ granted \in [RateInstances \cup {"redis"} -> Seq(Nat)]
      /\ UNCHANGED <<client, now, window, collided, awaited>>
  BY RateConstants DEF RateInv, Rate!CheckLocal, RateTyped
<1>1. PICK f \in Nat : f = Rate!Effective /\ f = Rate!Effective'
  <2>1. Rate!Effective \in Nat /\ Rate!Effective' = Rate!Effective
    BY <1>0, LimitTypes DEF Rate!Effective, RateTyped
  <2> QED
    BY <2>1
<1>2. PICK e \in [count : Nat, start : Nat] :
              /\ counter'[i] = [e EXCEPT !.count = IF e.count < f THEN e.count + 1 ELSE e.count]
              /\ granted' = IF e.count < f
                            THEN [granted EXCEPT ![i] = Append(granted[i], now)] ELSE granted
              /\ \/ e = counter[i] /\ counter[i] # None
                 \/ /\ e = [count |-> 0, start |-> now]
                    /\ counter[i] # None => counter[i].start <= now - RateWindow
  BY <1>1, LocalEntry
<1>3. PICK n \in Nat, s \in Nat : n = e.count /\ s = e.start
  OBVIOUS
<1>4. \A j \in RateInstances : j # i => counter'[j] = counter[j]
  BY <1>0 DEF Rate!CheckLocal
<1>5. counter' \in [RateInstances -> [count : Nat, start : Nat] \cup {None}]
  <2>1. counter'[i] \in [count : Nat, start : Nat]
    BY <1>2, <1>3
  <2>2. DOMAIN counter' = RateInstances /\ counter' = [j \in RateInstances |-> counter'[j]]
    BY <1>0 DEF Rate!CheckLocal
  <2> QED
    BY <1>0, <1>4, <2>1, <2>2
<1>6. granted[i] \in Seq(Nat) /\ Append(granted[i], now) \in Seq(Nat)
  BY <1>0
<1>7. /\ granted' \in [RateInstances \cup {"redis"} -> Seq(Nat)]
      /\ \A j \in RateInstances \cup {"redis"} : j # i => granted'[j] = granted[j]
      /\ granted'[i] = IF n < f THEN Append(granted[i], now) ELSE granted[i]
  BY <1>0, <1>2, <1>3, <1>6
<1>8. cleaned' \in [RateInstances -> Nat]
  BY <1>0 DEF Rate!CheckLocal, RateTyped
<1>9. RateTyped'
  BY <1>0, <1>5, <1>7, <1>8 DEF RateTyped
<1>10. GrantsPast'
  <2>1. ASSUME NEW q \in Seq(Nat), \A k \in DOMAIN q : q[k] <= now
        PROVE  \A k \in DOMAIN Append(q, now) : Append(q, now)[k] <= now
    BY <1>0, <2>1
  <2>2. \A k \in DOMAIN granted[i] : granted[i][k] <= now
    BY <1>0 DEF GrantsPast
  <2>3. \A k \in DOMAIN granted'[i] : granted'[i][k] <= now
    BY <1>6, <1>7, <2>1, <2>2
  <2> QED
    BY <1>0, <1>7, <2>3 DEF GrantsPast
<1>11. WindowCounts'
  <2>1. PermittedBurst' = PermittedBurst /\ \A u : LaterThan(u)' = LaterThan(u)
    BY <1>0 DEF PermittedBurst, LaterThan
  <2>2. granted'["redis"] = granted["redis"]
    BY <1>7, RateConstants
  <2> QED
    BY <1>0, <2>1, <2>2 DEF WindowCounts
\* What the entry counted before the request.
<1>12. /\ n <= f /\ s <= now
       /\ \A u \in Int : u >= s => After(granted[i], u) <= n
       /\ \A u \in Int : u >= s - RateWindow => After(granted[i], u) <= f + n
  <2>1. CASE e = counter[i] /\ counter[i] # None
    BY <1>0, <1>1, <1>3, <2>1 DEF CountersCount
  <2>2. CASE e = [count |-> 0, start |-> now] /\ counter[i] = None
    <3>1. granted[i] = <<>> /\ n = 0 /\ s = now
      BY <1>0, <1>3, <2>2 DEF CountersCount
    <3>2. ASSUME NEW u \in Int PROVE After(granted[i], u) = 0
      <4>1. \A k \in DOMAIN granted[i] : granted[i][k] <= u
        BY <3>1
      <4> QED
        BY <1>6, <4>1, AfterNone
    <3> QED
      BY <1>0, <3>1, <3>2
  <2>3. CASE e = [count |-> 0, start |-> now] /\ counter[i] # None /\ counter[i].start <= now - RateWindow
    <3>1. n = 0 /\ s = now
      BY <1>3, <2>3
    <3>2. PICK m \in Nat, r \in Nat : m = counter[i].count /\ r = counter[i].start
      BY <1>0, <2>3
    <3>3. m <= f /\ \A u \in Int : u >= r => After(granted[i], u) <= m
      BY <1>0, <1>1, <2>3, <3>2 DEF CountersCount
    <3>4. \A k \in DOMAIN granted[i] : granted[i][k] <= now
      BY <1>0 DEF GrantsPast
    <3>5. ASSUME NEW u \in Int, u >= now PROVE After(granted[i], u) = 0
      <4>1. \A k \in DOMAIN granted[i] : granted[i][k] \in Nat
        BY <1>6
      <4>2. \A k \in DOMAIN granted[i] : granted[i][k] <= u
        BY <1>0, <3>4, <3>5, <4>1
      <4> QED
        BY <1>6, <4>2, AfterNone
    <3>6. ASSUME NEW u \in Int, u >= now - RateWindow PROVE After(granted[i], u) <= f
      <4>1. u >= r
        BY <1>0, <2>3, <3>2, <3>6
      <4>2. After(granted[i], u) <= m /\ After(granted[i], u) \in Nat
        BY <1>6, <3>3, <4>1, AfterTyped
      <4> QED
        BY <3>3, <4>2
    <3> QED
      BY <1>0, <3>1, <3>5, <3>6
  <2> QED
    BY <1>2, <2>1, <2>2, <2>3
<1>13. CountersCount'
  <2> SUFFICES ASSUME NEW j \in RateInstances
               PROVE  /\ counter'[j] = None => granted'[j] = <<>>
                      /\ counter'[j] # None =>
                            /\ counter'[j].start <= now /\ counter'[j].count <= f
                            /\ \A u \in Int :
                                  /\ u >= counter'[j].start => After(granted'[j], u) <= counter'[j].count
                                  /\ u >= counter'[j].start - RateWindow =>
                                        After(granted'[j], u) <= f + counter'[j].count
    BY <1>0, <1>1 DEF CountersCount
  <2>1. CASE j # i
    BY <1>0, <1>1, <1>4, <1>7, <2>1 DEF CountersCount
  <2>2. CASE j = i
    <3>1. counter'[i] # None
      BY <1>2, RateConstants
    <3>2. counter'[i].start = s /\ counter'[i].count = IF n < f THEN n + 1 ELSE n
      BY <1>2, <1>3
    <3>3. ASSUME NEW u \in Int
          PROVE  After(granted'[i], u) <= After(granted[i], u) + IF n < f THEN 1 ELSE 0
      <4>1. After(granted[i], u) \in Nat
        BY <1>6, AfterTyped
      <4>2. After(Append(granted[i], now), u) = After(granted[i], u) + IF now > u THEN 1 ELSE 0
        BY <1>0, <1>6, AfterNext
      <4> QED
        BY <1>7, <4>1, <4>2
    <3>4. ASSUME NEW u \in Int
          PROVE  After(granted[i], u) \in Nat /\ After(granted'[i], u) \in Nat
      BY <1>6, <1>7, AfterTyped
    <3>5. ASSUME NEW u \in Int, u >= s
          PROVE  After(granted'[i], u) <= counter'[i].count
      <4>1. After(granted[i], u) <= n
        BY <1>12, <3>5
      <4> QED
        BY <3>2, <3>3, <3>4, <4>1
    <3>6. ASSUME NEW u \in Int, u >= s - RateWindow
          PROVE  After(granted'[i], u) <= f + counter'[i].count
      <4>1. After(granted[i], u) <= f + n
        BY <1>12, <3>6
      <4> QED
        BY <3>2, <3>3, <3>4, <4>1
    <3>7. counter'[i].start <= now /\ counter'[i].count <= f
      BY <1>12, <3>2
    <3> QED
      BY <2>2, <3>1, <3>2, <3>5, <3>6, <3>7
  <2> QED
    BY <2>1, <2>2
<1>14. WaitsForOne'
  BY <1>0 DEF WaitsForOne
<1>15. Rate!Bounded'
  <2>1. /\ \A j \in RateInstances \cup {"redis"} :
              granted'[j] = granted[j] \/ granted'[j] = Append(granted[j], now)
        /\ collided' = collided
    BY <1>0, <1>7
  <2> QED
    BY <1>0, <1>9, <1>10, <1>11, <1>13, <2>1, CheckBounded
<1> QED
  BY <1>9, <1>10, <1>11, <1>13, <1>14, <1>15 DEF RateInv

LEMMA RateStep == RateInv /\ [GuardsNext]_guardVars => RateInv'
<1> SUFFICES ASSUME RateInv, [GuardsNext]_guardVars PROVE RateInv'
  OBVIOUS
<1>1. ASSUME RateNext PROVE RateInv'
  BY <1>1, RateTick, RateRedis, RateDenied, RateLocal DEF RateNext, Rate!Next
<1>2. ASSUME ~RateNext PROVE RateInv'
  <2>1. UNCHANGED <<client, now, window, counter, cleaned, granted, collided, awaited>>
    BY <1>2 DEF GuardsNext, WsNext, BreakerNext, CallsNext, SubscriptionNext, guardVars, rateVars
  <2>2. UNCHANGED <<PermittedBurst, Rate!Effective>> /\ \A u : LaterThan(u)' = LaterThan(u)
    BY <2>1 DEF PermittedBurst, LaterThan, Rate!Effective
  <2>3. RateTyped' /\ GrantsPast' /\ WaitsForOne'
    BY <2>1 DEF RateInv, RateTyped, GrantsPast, WaitsForOne
  <2>4. WindowCounts' /\ CountersCount'
    BY <2>1, <2>2 DEF RateInv, WindowCounts, CountersCount
  <2>5. Rate!Bounded'
    BY <2>1 DEF RateInv, Rate!Bounded, Rate!Effective
  <2> QED
    BY <2>3, <2>4, <2>5 DEF RateInv
<1> QED
  BY <1>1, <1>2

LEMMA RateInvIs == RateInv => Rate!Bounded /\ Rate!RetryHonoured
<1> SUFFICES ASSUME RateInv, awaited # None, now >= awaited, PermittedBurst > 0
             PROVE  Cardinality(Rate!Recent) < PermittedBurst
  BY RateCount DEF RateInv, Rate!RetryHonoured, PermittedBurst
<1>1. RateTyped /\ WindowCounts /\ WaitsForOne /\ PermittedBurst \in Nat /\ IsFiniteSet(window)
  BY LimitTypes DEF RateInv, RateTyped
<1>2. CASE window = {}
  <2>1. Rate!Recent = {}
    BY <1>2 DEF Rate!Recent
  <2> QED
    BY <1>1, <2>1, FS_EmptySet
<1>3. CASE window # {}
  <2>1. PICK e \in window : awaited = e[1] + RateWindow
    BY <1>1, <1>3 DEF WaitsForOne
  <2>2. e[1] \in Nat /\ now \in Nat /\ RateWindow \in Nat
    BY <1>1, RateConstants DEF RateTyped
  <2>3. e \notin Rate!Recent
    BY <2>1, <2>2 DEF Rate!Recent
  <2>4. Rate!Recent \in SUBSET window /\ Rate!Recent # window
    BY <2>3 DEF Rate!Recent
  <2>5. Cardinality(Rate!Recent) \in Nat /\ Cardinality(window) \in Nat /\ Cardinality(window) <= PermittedBurst
    BY <1>1, RecentFacts DEF WindowCounts
  <2>6. Cardinality(Rate!Recent) < Cardinality(window)
    BY <1>1, <2>4, FS_Subset, RecentFacts
  <2> QED
    BY <1>1, <2>5, <2>6
<1> QED
  BY <1>2, <1>3

\* In no window does Redis let more of a client's requests through than the
\* burst of its tier and the members it lost, nor an instance more than twice
\* its limit, whatever the tiers, limits, failures and clean-ups; and a client
\* that comes back when it was told to is let in (distributed_rate_limit.rs).
THEOREM LimitsAreKept == GuardsSpec => []LimitsKept
<1>1. GuardsInit => RateInv
  BY RateInit
<1>2. RateInv /\ [GuardsNext]_guardVars => RateInv'
  BY RateStep
<1>3. RateInv => LimitsKept
  BY RateInvIs DEF LimitsKept
<1> QED
  BY <1>1, <1>2, <1>3, PTL DEF GuardsSpec
=============================================================================
