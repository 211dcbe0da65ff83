--------------------------- MODULE ServiceProofs ---------------------------
(***************************************************************************)
(* Theorems about GraphWriter, for any logs, any number of writers and     *)
(* failures, and about ServiceWork: whatever the services take in is       *)
(* accounted for, whatever the sizes and the inputs.                       *)
(***************************************************************************)
EXTENDS GraphWriter, ServiceWork, FiniteSetTheorems, SequenceTheorems, WellFoundedInduction, TLAPS

-----------------------------------------------------------------------------
(* Records.                                                                *)

\* What a reference to a record is, and what it refers to.
LEMMA RefFacts ==
    ASSUME NEW r \in Refs
    PROVE  /\ r[1] \in Partitions
           /\ r[2] \in 1..Len(Log[r[1]])
           /\ r = <<r[1], r[2]>>
           /\ RecordAt(r) \in Record
<1>1. PICK p \in Partitions : r \in {p} \X DOMAIN Log[p]
  BY DEF Refs
<1>2. r[1] = p /\ r[2] \in DOMAIN Log[p] /\ r = <<r[1], r[2]>>
  BY <1>1
<1>3. Log[p] \in Seq(Record)
  BY GraphWriterAssumption DEF GraphWriterAssumption
<1>4. DOMAIN Log[p] = 1..Len(Log[p])
  BY <1>3
<1>5. Log[p][r[2]] \in Record
  BY <1>2, <1>3, <1>4
<1> QED
  BY <1>2, <1>4, <1>5 DEF RecordAt

\* The offsets of a partition name its records, and no record is Nothing.
LEMMA RefMade ==
    ASSUME NEW p \in Partitions, NEW i \in 1..Len(Log[p])
    PROVE  <<p, i>> \in Refs /\ <<p, i>> # Nothing
<1>1. Log[p] \in Seq(Record)
  BY GraphWriterAssumption DEF GraphWriterAssumption
<1>2. DOMAIN Log[p] = 1..Len(Log[p])
  BY <1>1
<1> QED
  BY <1>2 DEF Refs, Nothing

\* No record is Nothing.
LEMMA RefSomething == Nothing \notin Refs
<1> SUFFICES ASSUME Nothing \in Refs PROVE FALSE
  OBVIOUS
<1>1. Nothing = <<Nothing[1], Nothing[2]>>
  BY RefFacts
<1> QED
  BY <1>1 DEF Nothing

\* The fields of the records that have a handler.
LEMMA RecordFacts ==
    ASSUME NEW r \in Record
    PROVE  /\ r.kind = "upsert" => r.version \in Versions /\ r.deps \subseteq Packages
           /\ r.kind = "yank" => r.version \in Versions
           /\ r.kind = "delete" => r.package \in Packages
  BY DEF Record

-----------------------------------------------------------------------------
(* Type correctness.                                                       *)

GraphType ==
    /\ packages  \in [Packages -> {"absent", "live", "deleted"}]
    /\ versions  \in [Versions -> {"absent", "live", "yanked"}]
    /\ depends   \subseteq Versions \X Packages
    /\ projected \subseteq Packages \X Packages

\* The four kinds of queries keep the graph a graph.
LEMMA ApplyType ==
    ASSUME GraphType, NEW r \in Record, Apply(r)
    PROVE  GraphType'
<1>0. PackageOf \in [Versions -> Packages]
  BY GraphWriterAssumption DEF GraphWriterAssumption
<1>1. CASE r.kind = "upsert" /\ Upsert(r.version, r.deps)
  <2>1. r.version \in Versions /\ r.deps \subseteq Packages
    BY <1>1, RecordFacts
  <2>2. PackageOf[r.version] \in Packages
    BY <1>0, <2>1
  <2>3. packages' \in [Packages -> {"absent", "live", "deleted"}]
    BY <1>1 DEF GraphType, Upsert, MergeNodes
  <2>4. versions' \in [Versions -> {"absent", "live", "yanked"}]
    BY <1>1 DEF GraphType, Upsert, MergeNodes
  <2>5. depends' \subseteq Versions \X Packages
    BY <1>1, <2>1 DEF GraphType, Upsert
  <2>6. projected' \subseteq Packages \X Packages
    BY <1>1, <2>1, <2>2 DEF GraphType, Upsert
  <2> QED
    BY <2>3, <2>4, <2>5, <2>6 DEF GraphType
<1>2. CASE r.kind = "yank" /\ Yank(r.version)
  BY <1>2 DEF GraphType, Yank
<1>3. CASE r.kind = "delete" /\ Delete(r.package)
  BY <1>3 DEF GraphType, Delete
<1>4. CASE r.kind \in {"package", "empty"} /\ UNCHANGED graph
  BY <1>4 DEF GraphType, graph
<1> QED
  BY <1>1, <1>2, <1>3, <1>4 DEF Apply

\* A writer is inside a record exactly when it holds one.
WorkOK == \A w \in Writers : pc[w] = "recv" <=> work[w] = Nothing

Typed == TypeOK /\ WorkOK

\* The writer goes on to its next record.
LEMMA NextRecordType ==
    ASSUME Typed, NEW w \in Writers, NextRecord(w)
    PROVE  /\ pc' \in [Writers -> PC]
           /\ work' \in [Writers -> Refs \cup {Nothing}]
           /\ WorkOK'
  BY DEF Typed, TypeOK, WorkOK, NextRecord, PC

\* The writer takes another step of process_message with the same record.
LEMMA SameRecordType ==
    ASSUME Typed, NEW w \in Writers, NEW q \in PC \ {"recv"},
           pc[w] # "recv", pc' = [pc EXCEPT ![w] = q], work' = work
    PROVE  /\ pc' \in [Writers -> PC]
           /\ work' \in [Writers -> Refs \cup {Nothing}]
           /\ WorkOK'
           /\ work[w] \in Refs
  BY DEF Typed, TypeOK, WorkOK, PC

LEMMA TypedInit == Init => Typed
  BY RefSomething DEF Init, Typed, TypeOK, WorkOK, PC

LEMMA TypedNext == Typed /\ [Next]_vars => Typed'
<1> SUFFICES ASSUME Typed, [Next]_vars PROVE Typed'
  OBVIOUS
<1>0. MaxFaults \in Nat
  BY GraphWriterAssumption DEF GraphWriterAssumption
<1>1. ASSUME NEW w \in Writers, NEW p \in Partitions, Receive(w, p) PROVE Typed'
  <2>1. pos[p] + 1 \in 1..Len(Log[p])
    <3>1. Log[p] \in Seq(Record)
      BY GraphWriterAssumption DEF GraphWriterAssumption
    <3>2. Len(Log[p]) \in Nat
      BY <3>1
    <3> QED
      BY <1>1, <3>2 DEF Receive, Typed, TypeOK
  <2>2. <<p, pos[p] + 1>> \in Refs /\ <<p, pos[p] + 1>> # Nothing
    BY <2>1, RefMade
  <2>3. TypeOK'
    BY <1>1, <2>2 DEF Receive, Typed, TypeOK, PC, graph
  <2>4. WorkOK'
    BY <1>1, <2>2 DEF Receive, Typed, TypeOK, WorkOK, PC
  <2> QED
    BY <2>3, <2>4 DEF Typed
<1>2. ASSUME NEW w \in Writers, Handle(w) PROVE Typed'
  <2>1. "commit" \in PC \ {"recv"} /\ pc[w] # "recv"
    BY <1>2 DEF PC, Handle
  <2>2. work[w] \in Refs
    BY <1>2, <2>1, SameRecordType DEF Handle
  <2>3. GraphType'
    BY <1>2, <2>2, RefFacts, ApplyType DEF Handle, Typed, TypeOK, GraphType
  <2>4. pc' \in [Writers -> PC] /\ work' \in [Writers -> Refs \cup {Nothing}] /\ WorkOK'
    BY <1>2, <2>1, SameRecordType DEF Handle
  <2> QED
    BY <1>2, <2>2, <2>3, <2>4 DEF Handle, Typed, TypeOK, GraphType
<1>3. ASSUME NEW w \in Writers, Reject(w) PROVE Typed'
  <2>1. "dlq" \in PC \ {"recv"} /\ pc[w] # "recv"
    BY <1>3 DEF PC, Reject
  <2>2. pc' \in [Writers -> PC] /\ work' \in [Writers -> Refs \cup {Nothing}] /\ WorkOK'
    BY <1>3, <2>1, SameRecordType DEF Reject
  <2> QED
    BY <1>3, <2>2 DEF Reject, Typed, TypeOK, graph
<1>4. ASSUME NEW w \in Writers, HandleFails(w) PROVE Typed'
  <2>1. "dlq" \in PC \ {"recv"} /\ pc[w] # "recv"
    BY <1>4 DEF PC, HandleFails
  <2>2. /\ pc' \in [Writers -> PC]
        /\ work' \in [Writers -> Refs \cup {Nothing}]
        /\ WorkOK'
        /\ work[w] \in Refs
    BY <1>4, <2>1, SameRecordType DEF HandleFails
  <2>3. GraphType'
    <3>1. CASE Apply(RecordAt(work[w]))
      BY <3>1, <2>2, RefFacts, ApplyType DEF Typed, TypeOK, GraphType
    <3>2. CASE UNCHANGED graph
      BY <3>2 DEF Typed, TypeOK, GraphType, graph
    <3> QED
      BY <1>4, <3>1, <3>2 DEF HandleFails
  <2>4. faults' \in Nat
    BY <1>4 DEF HandleFails, Fault, Typed, TypeOK
  <2> QED
    BY <1>4, <2>2, <2>3, <2>4 DEF HandleFails, Typed, TypeOK, GraphType
<1>5. ASSUME NEW w \in Writers, SendToDlq(w) PROVE Typed'
  <2>1. "commit" \in PC \ {"recv"} /\ pc[w] # "recv"
    BY <1>5 DEF PC, SendToDlq
  <2>2. /\ pc' \in [Writers -> PC]
        /\ work' \in [Writers -> Refs \cup {Nothing}]
        /\ WorkOK'
        /\ work[w] \in Refs
    BY <1>5, <2>1, SameRecordType DEF SendToDlq
  <2> QED
    BY <1>5, <2>2 DEF SendToDlq, Typed, TypeOK, graph
<1>6. ASSUME NEW w \in Writers, SendToDlqFails(w) PROVE Typed'
  <2>1. pc' \in [Writers -> PC] /\ work' \in [Writers -> Refs \cup {Nothing}] /\ WorkOK'
    BY <1>6, NextRecordType DEF SendToDlqFails
  <2>2. work[w] \in Refs
    BY <1>6 DEF SendToDlqFails, Typed, TypeOK, WorkOK
  <2> QED
    BY <1>6, <2>1, <2>2 DEF SendToDlqFails, Fault, Typed, TypeOK, graph
<1>7. ASSUME NEW w \in Writers, CommitOffset(w) PROVE Typed'
  <2>1. pc' \in [Writers -> PC] /\ work' \in [Writers -> Refs \cup {Nothing}] /\ WorkOK'
    BY <1>7, NextRecordType DEF CommitOffset
  <2>2. work[w] \in Refs
    BY <1>7 DEF CommitOffset, Typed, TypeOK, WorkOK
  <2>3. work[w][2] \in Nat
    BY <2>2, RefFacts
  <2>4. committed' \in [Partitions -> Nat]
    BY <1>7, <2>3 DEF CommitOffset, Typed, TypeOK
  <2> QED
    BY <1>7, <2>1, <2>4 DEF CommitOffset, Typed, TypeOK, graph
<1>8. ASSUME NEW w \in Writers, CommitFails(w) PROVE Typed'
  <2>1. pc' \in [Writers -> PC] /\ work' \in [Writers -> Refs \cup {Nothing}] /\ WorkOK'
    BY <1>8, NextRecordType DEF CommitFails
  <2> QED
    BY <1>8, <2>1 DEF CommitFails, Fault, Typed, TypeOK, graph
<1>9. ASSUME NEW w \in Writers, Crash(w) PROVE Typed'
  <2>1. pc' \in [Writers -> PC] /\ work' \in [Writers -> Refs \cup {Nothing}] /\ WorkOK'
    BY <1>9, NextRecordType DEF Crash
  <2> QED
    BY <1>9, <2>1 DEF Crash, Fault, Typed, TypeOK, graph
<1>10. ASSUME NEW w \in Writers, NEW p \in Partitions, Rebalance(w, p) PROVE Typed'
  BY <1>10 DEF Rebalance, Fault, Typed, TypeOK, WorkOK, graph
<1>11. ASSUME UNCHANGED vars PROVE Typed'
  BY <1>11 DEF vars, Typed, TypeOK, WorkOK
<1> QED
  BY <1>1, <1>2, <1>3, <1>4, <1>5, <1>6, <1>7, <1>8, <1>9, <1>10, <1>11
     DEF Next, WriterStep, WriterFault

\* Spec never leaves the types of TypeOK.
THEOREM TypeCorrect == Spec => []TypeOK
<1>1. Spec => []Typed
  BY TypedInit, TypedNext, PTL DEF Spec
<1> QED
  BY <1>1, PTL DEF Typed

-----------------------------------------------------------------------------
(* Delivery: no committed record is lost while the dead-letter topic takes *)
(* what it is given.                                                       *)

\* What makes CommittedHandled inductive: a writer at its commit has handled
\* its record; below the record a writer holds everything is handled, for it
\* received them in turn; and below the delivery position everything is
\* handled but the record the owner of the partition is inside of.
CommitHandled ==
    \A w \in Writers : pc[w] = "commit" => Handled(work[w])
BelowWork ==
    \A w \in Writers : work[w] # Nothing =>
        \A j \in Nat \ {0} : j < work[w][2] => Handled(<<work[w][1], j>>)
BelowPos ==
    \A p \in Partitions : \A j \in Nat \ {0} :
        j <= pos[p] => Handled(<<p, j>>) \/ work[owner[p]] = <<p, j>>
BelowCommitted ==
    \A p \in Partitions : \A j \in Nat \ {0} :
        j <= committed[p] => Handled(<<p, j>>)

Delivered == CommitHandled /\ BelowWork /\ BelowPos /\ BelowCommitted

LEMMA DeliveredInit == Init => Delivered
<1> SUFFICES ASSUME Init PROVE Delivered
  OBVIOUS
<1>1. CommitHandled /\ BelowWork
  BY DEF Init, CommitHandled, BelowWork
<1>2. \A p \in Partitions : pos[p] = 0 /\ committed[p] = 0
  BY DEF Init
<1>3. BelowPos
  BY <1>2 DEF BelowPos
<1>4. BelowCommitted
  BY <1>2 DEF BelowCommitted
<1> QED
  BY <1>1, <1>3, <1>4 DEF Delivered

\* A record that was handled stays handled.
LEMMA HandledGrows ==
    ASSUME done \subseteq done', dlq \subseteq dlq'
    PROVE  \A r : Handled(r) => Handled(r)'
  BY DEF Handled

\* A step that only moves writer w within its record.
LEMMA DeliveredSameRecord ==
    ASSUME Typed, Delivered, NEW w \in Writers, NEW q \in PC,
           done \subseteq done', dlq \subseteq dlq',
           pc' = [pc EXCEPT ![w] = q], q = "commit" => Handled(work[w])',
           UNCHANGED <<work, pos, owner, committed>>
    PROVE  Delivered'
<1>1. \A r : Handled(r) => Handled(r)'
  BY HandledGrows
<1>2. CommitHandled'
  BY <1>1 DEF Delivered, CommitHandled, Typed, TypeOK
<1>3. BelowWork'
  BY <1>1 DEF Delivered, BelowWork
<1>4. BelowPos'
  BY <1>1 DEF Delivered, BelowPos
<1>5. BelowCommitted'
  BY <1>1 DEF Delivered, BelowCommitted
<1> QED
  BY <1>2, <1>3, <1>4, <1>5 DEF Delivered

LEMMA DeliveredNext ==
    ASSUME "dlq" \notin FaultKinds
    PROVE  Typed /\ Delivered /\ [Next]_vars => Delivered'
<1> SUFFICES ASSUME Typed, Delivered, [Next]_vars PROVE Delivered'
  OBVIOUS
<1> USE DEF Delivered
<1>1. ASSUME NEW w \in Writers, NEW p \in Partitions, Receive(w, p) PROVE Delivered'
  <2>1. UNCHANGED <<done, dlq, committed, owner>>
    BY <1>1 DEF Receive
  <2>2. \A r : Handled(r) <=> Handled(r)'
    BY <2>1 DEF Handled
  <2>3. work[w] = Nothing /\ owner[p] = w /\ pos[p] \in Nat
    BY <1>1 DEF Receive, Typed, TypeOK, WorkOK
  <2>4. /\ work' = [work EXCEPT ![w] = <<p, pos[p] + 1>>]
        /\ pos' = [pos EXCEPT ![p] = @ + 1]
        /\ pc' = [pc EXCEPT ![w] = "handle"]
    BY <1>1 DEF Receive
  <2>5. CommitHandled'
    BY <2>2, <2>4 DEF CommitHandled, Typed, TypeOK
  <2>6. \A q \in Partitions, j \in Nat \ {0} :
            owner[q] = w /\ j <= pos[q] => Handled(<<q, j>>)
    BY <2>3, SMTT(60) DEF BelowPos, Nothing
  <2>7. BelowWork'
    <3>1. \A j \in Nat \ {0} : j < pos[p] + 1 => Handled(<<p, j>>)
      BY <2>3, <2>6
    <3> QED
      BY <2>2, <2>4, <3>1 DEF BelowWork, Typed, TypeOK
  <2>8. BelowPos'
    <3> SUFFICES ASSUME NEW q \in Partitions, NEW j \in Nat \ {0}, j <= pos'[q]
                 PROVE  Handled(<<q, j>>)' \/ work'[owner'[q]] = <<q, j>>
      BY DEF BelowPos
    <3>1. owner[q] \in Writers /\ owner'[q] = owner[q]
      BY <2>1 DEF Typed, TypeOK
    <3>2. CASE owner[q] # w
      <4>1. q # p /\ pos'[q] = pos[q]
        BY <2>3, <2>4, <3>2 DEF Typed, TypeOK
      <4>2. work'[owner[q]] = work[owner[q]]
        BY <2>4, <3>1, <3>2 DEF Typed, TypeOK
      <4> QED
        BY <2>2, <3>1, <4>1, <4>2 DEF BelowPos
    <3>3. CASE owner[q] = w /\ q # p
      BY <2>2, <2>4, <2>6, <3>3 DEF Typed, TypeOK
    <3>4. CASE owner[q] = w /\ q = p
      <4>1. j <= pos[p] \/ j = pos[p] + 1
        BY <2>3, <2>4, <3>4 DEF Typed, TypeOK
      <4> QED
        BY <2>2, <2>4, <2>6, <3>1, <3>4, <4>1 DEF Typed, TypeOK
    <3> QED
      BY <3>2, <3>3, <3>4
  <2>9. BelowCommitted'
    BY <2>1, <2>2 DEF BelowCommitted
  <2> QED
    BY <2>5, <2>7, <2>8, <2>9
<1>2. ASSUME NEW w \in Writers, Handle(w) PROVE Delivered'
  BY <1>2, DeliveredSameRecord DEF Handle, Handled, PC
<1>3. ASSUME NEW w \in Writers, Reject(w) PROVE Delivered'
  BY <1>3, DeliveredSameRecord DEF Reject, PC
<1>4. ASSUME NEW w \in Writers, HandleFails(w) PROVE Delivered'
  BY <1>4, DeliveredSameRecord DEF HandleFails, PC
<1>5. ASSUME NEW w \in Writers, SendToDlq(w) PROVE Delivered'
  BY <1>5, DeliveredSameRecord DEF SendToDlq, Handled, PC
<1>6. ASSUME NEW w \in Writers, SendToDlqFails(w) PROVE Delivered'
  BY <1>6 DEF SendToDlqFails, Fault
<1>7. ASSUME NEW w \in Writers, pc[w] = "commit", NextRecord(w),
             UNCHANGED <<owner, pos, dlq, done>>,
             \/ committed' = committed
             \/ committed' = [committed EXCEPT ![work[w][1]] = work[w][2]]
      PROVE  Delivered'
  <2>1. \A r : Handled(r) <=> Handled(r)'
    BY <1>7 DEF Handled
  <2>2. Handled(work[w])
    BY <1>7 DEF CommitHandled
  <2>3. work[w] \in Refs /\ work[w] # Nothing
    BY <1>7 DEF Typed, TypeOK, WorkOK
  <2>4. work[w] = <<work[w][1], work[w][2]>> /\ work[w][2] \in Nat
    BY <2>3, RefFacts
  <2>5. pc' = [pc EXCEPT ![w] = "recv"] /\ work' = [work EXCEPT ![w] = Nothing]
    BY <1>7 DEF NextRecord
  <2>6. CommitHandled'
    BY <2>1, <2>5 DEF CommitHandled, Typed, TypeOK
  <2>7. BelowWork'
    BY <2>1, <2>5 DEF BelowWork, Typed, TypeOK
  <2>8. BelowPos'
    <3> SUFFICES ASSUME NEW q \in Partitions, NEW j \in Nat \ {0}, j <= pos'[q]
                 PROVE  Handled(<<q, j>>)' \/ work'[owner'[q]] = <<q, j>>
      BY DEF BelowPos
    <3>1. owner[q] \in Writers /\ owner'[q] = owner[q] /\ j <= pos[q]
      BY <1>7 DEF Typed, TypeOK
    <3>2. Handled(<<q, j>>) \/ work[owner[q]] = <<q, j>>
      BY <3>1 DEF BelowPos
    <3>3. CASE owner[q] = w
      BY <2>1, <2>2, <3>2, <3>3
    <3>4. CASE owner[q] # w
      BY <2>1, <2>5, <3>1, <3>2, <3>4 DEF Typed, TypeOK
    <3> QED
      BY <3>3, <3>4
  <2>9. BelowCommitted'
    <3>1. CASE committed' = committed
      BY <2>1, <3>1 DEF BelowCommitted
    <3>2. CASE committed' = [committed EXCEPT ![work[w][1]] = work[w][2]]
      <4> SUFFICES ASSUME NEW p \in Partitions, NEW j \in Nat \ {0},
                          j <= committed'[p]
                   PROVE  Handled(<<p, j>>)'
        BY DEF BelowCommitted
      <4>1. CASE p # work[w][1]
        BY <2>1, <3>2, <4>1 DEF BelowCommitted, Typed, TypeOK
      <4>2. CASE p = work[w][1]
        <5>1. j <= work[w][2]
          BY <3>2, <4>2 DEF Typed, TypeOK
        <5>2. j < work[w][2] \/ j = work[w][2]
          BY <2>4, <5>1
        <5>3. j < work[w][2] => Handled(<<p, j>>)
          BY <2>3, <4>2 DEF BelowWork
        <5>4. j = work[w][2] => <<p, j>> = work[w]
          BY <2>4, <4>2
        <5> QED
          BY <2>1, <2>2, <5>2, <5>3, <5>4
      <4> QED
        BY <4>1, <4>2
    <3> QED
      BY <1>7, <3>1, <3>2
  <2> QED
    BY <2>6, <2>7, <2>8, <2>9
<1>8. ASSUME NEW w \in Writers, CommitOffset(w) PROVE Delivered'
  BY <1>7, <1>8 DEF CommitOffset
<1>9. ASSUME NEW w \in Writers, CommitFails(w) PROVE Delivered'
  BY <1>7, <1>9 DEF CommitFails
<1>10. ASSUME NEW w \in Writers, Crash(w) PROVE Delivered'
  <2>1. UNCHANGED <<done, dlq, committed, owner>> /\ NextRecord(w)
    BY <1>10 DEF Crash
  <2>2. \A r : Handled(r) <=> Handled(r)'
    BY <2>1 DEF Handled
  <2>3. CommitHandled' /\ BelowWork'
    BY <2>1, <2>2 DEF NextRecord, CommitHandled, BelowWork, Typed, TypeOK
  <2>4. BelowPos'
    <3> SUFFICES ASSUME NEW q \in Partitions, NEW j \in Nat \ {0}, j <= pos'[q]
                 PROVE  Handled(<<q, j>>)' \/ work'[owner'[q]] = <<q, j>>
      BY DEF BelowPos
    <3>1. CASE owner[q] = w
      BY <1>10, <2>2, <3>1 DEF Crash, BelowCommitted
    <3>2. CASE owner[q] # w
      <4>1. j <= pos[q] /\ owner'[q] = owner[q] /\ owner[q] \in Writers
        BY <1>10, <2>1, <3>2 DEF Crash, Typed, TypeOK
      <4>2. work'[owner[q]] = work[owner[q]]
        BY <2>1, <3>2, <4>1 DEF NextRecord, Typed, TypeOK
      <4> QED
        BY <2>2, <4>1, <4>2 DEF BelowPos
    <3> QED
      BY <3>1, <3>2
  <2>5. BelowCommitted'
    BY <2>1, <2>2 DEF BelowCommitted
  <2> QED
    BY <2>3, <2>4, <2>5
<1>11. ASSUME NEW w \in Writers, NEW p \in Partitions, Rebalance(w, p)
       PROVE  Delivered'
  <2>1. UNCHANGED <<done, dlq, committed, pc, work>>
    BY <1>11 DEF Rebalance
  <2>2. \A r : Handled(r) <=> Handled(r)'
    BY <2>1 DEF Handled
  <2>3. CommitHandled' /\ BelowWork' /\ BelowCommitted'
    BY <2>1, <2>2 DEF CommitHandled, BelowWork, BelowCommitted
  <2>4. BelowPos'
    BY <1>11, <2>1, <2>2 DEF Rebalance, BelowPos, BelowCommitted, Typed, TypeOK
  <2> QED
    BY <2>3, <2>4
<1>12. ASSUME UNCHANGED vars PROVE Delivered'
  <2>1. \A r : Handled(r) <=> Handled(r)'
    BY <1>12 DEF vars, Handled
  <2> QED
    BY <1>12, <2>1
       DEF vars, CommitHandled, BelowWork, BelowPos, BelowCommitted
<1> QED
  BY <1>1, <1>2, <1>3, <1>4, <1>5, <1>6, <1>8, <1>9, <1>10, <1>11, <1>12
     DEF Next, WriterStep, WriterFault

\* While the dead-letter topic takes what it is given, every record at or
\* below a committed offset was applied or dead-lettered.
THEOREM CommittedIsHandled ==
    ASSUME "dlq" \notin FaultKinds
    PROVE  Spec => []CommittedHandled
<1>1. ASSUME Typed, Delivered PROVE CommittedHandled
  <2> SUFFICES ASSUME NEW p \in Partitions, NEW i \in 1..committed[p]
               PROVE  Handled(<<p, i>>)
    BY DEF CommittedHandled
  <2>1. committed[p] \in Nat
    BY <1>1 DEF Typed, TypeOK
  <2>2. i \in Nat \ {0} /\ i <= committed[p]
    BY <2>1
  <2> QED
    BY <1>1, <2>2 DEF Delivered, BelowCommitted
<1>2. Typed /\ Delivered /\ [Next]_vars => Delivered'
  BY DeliveredNext
<1>3. Spec => [](Typed /\ Delivered)
  BY <1>2, TypedInit, TypedNext, DeliveredInit, PTL DEF Spec
<1> QED
  BY <1>1, <1>3, PTL

-----------------------------------------------------------------------------
(* The graph: whatever is lost or redelivered, the edges of a version are  *)
(* those of one event, and they are mirrored between the packages.         *)

GraphInv == ProjectionCovers /\ DepsOfOneEvent

\* An upsert replaces the edges of its version and of no other.
LEMMA UpsertDeps ==
    ASSUME GraphType, NEW v \in Versions, NEW D \in SUBSET Packages, Upsert(v, D)
    PROVE  Deps(v)' = D /\ \A u \in Versions \ {v} : Deps(u)' = Deps(u)
<1>1. \A u \in Versions, q \in Packages :
          <<u, q>> \in depends' <=> IF u = v THEN q \in D ELSE <<u, q>> \in depends
  BY DEF Upsert
<1>2. Deps(v)' = D
  BY <1>1 DEF Deps
<1>3. ASSUME NEW u \in Versions \ {v} PROVE Deps(u)' = Deps(u)
  BY <1>1 DEF Deps
<1> QED
  BY <1>2, <1>3

LEMMA ApplyGraph ==
    ASSUME GraphType, GraphInv, NEW r \in Refs, Apply(RecordAt(r))
    PROVE  GraphInv'
<1>0. RecordAt(r) \in Record
  BY RefFacts
<1>1. CASE RecordAt(r).kind = "upsert" /\ Upsert(RecordAt(r).version, RecordAt(r).deps)
  <2> DEFINE v == RecordAt(r).version
             D == RecordAt(r).deps
  <2>1. v \in Versions /\ D \in SUBSET Packages /\ PackageOf[v] \in Packages
    BY <1>0, <1>1, RecordFacts, GraphWriterAssumption DEF GraphWriterAssumption
  <2>2. Upsert(v, D) /\ MergeNodes(v, D)
    BY <1>1 DEF Upsert
  <2> HIDE DEF v, D
  <2>3. \A q \in Packages : q \in D \cup {PackageOf[v]} \/ packages[q] # "absent"
                                => packages'[q] # "absent"
    BY <2>2 DEF MergeNodes, GraphType
  <2>4. projected' = projected \cup ({PackageOf[v]} \X D)
    BY <2>2 DEF Upsert
  <2>5. depends' = {d \in depends : d[1] # v} \cup ({v} \X D)
    BY <2>2 DEF Upsert
  <2>6. ProjectionCovers'
    <3>1. ASSUME NEW d \in depends' PROVE <<PackageOf[d[1]], d[2]>> \in projected'
      <4>1. CASE d \in depends
        BY <2>4, <4>1 DEF GraphInv, ProjectionCovers
      <4>2. CASE d \in {v} \X D
        BY <2>4, <4>2
      <4> QED
        BY <2>5, <4>1, <4>2
    <3>2. ASSUME NEW u \in Versions, versions'[u] # "absent"
          PROVE  packages'[PackageOf[u]] # "absent"
      <4>1. PackageOf[u] \in Packages
        BY GraphWriterAssumption DEF GraphWriterAssumption
      <4>2. CASE u = v
        BY <2>1, <2>3, <4>2
      <4>3. CASE u # v
        <5>1. versions'[u] = versions[u]
          BY <2>2, <4>3 DEF MergeNodes, GraphType
        <5> QED
          BY <2>3, <3>2, <4>1, <5>1 DEF GraphInv, ProjectionCovers
      <4> QED
        BY <4>2, <4>3
    <3>3. ASSUME NEW e \in projected'
          PROVE  packages'[e[1]] # "absent" /\ packages'[e[2]] # "absent"
      <4>1. CASE e \in projected
        BY <2>3, <4>1 DEF GraphInv, ProjectionCovers, GraphType
      <4>2. CASE e \in {PackageOf[v]} \X D
        BY <2>1, <2>3, <4>2
      <4> QED
        BY <2>4, <4>1, <4>2
    <3> QED
      BY <3>1, <3>2, <3>3 DEF ProjectionCovers
  <2>7. DepsOfOneEvent'
    <3>1. Deps(v)' = D /\ \A u \in Versions \ {v} : Deps(u)' = Deps(u)
      BY <2>1, <2>2, UpsertDeps
    <3>2. r \in Upserts(v) /\ RecordAt(r).deps = D
      BY <1>1 DEF Upserts, v, D
    <3> QED
      BY <3>1, <3>2 DEF GraphInv, DepsOfOneEvent, Upserts
  <2> QED
    BY <2>6, <2>7 DEF GraphInv
<1>2. CASE RecordAt(r).kind = "yank" /\ Yank(RecordAt(r).version)
  <2>1. UNCHANGED <<packages, depends, projected>>
    BY <1>2 DEF Yank
  <2>2. \A u \in Versions : versions'[u] # "absent" => versions[u] # "absent"
    BY <1>2 DEF Yank, GraphType
  <2>3. ProjectionCovers'
    BY <2>1, <2>2 DEF GraphInv, ProjectionCovers
  <2>4. DepsOfOneEvent'
    BY <2>1 DEF GraphInv, DepsOfOneEvent, Deps, Upserts
  <2> QED
    BY <2>3, <2>4 DEF GraphInv
<1>3. CASE RecordAt(r).kind = "delete" /\ Delete(RecordAt(r).package)
  <2>1. UNCHANGED <<versions, depends, projected>>
    BY <1>3 DEF Delete
  <2>2. \A q \in Packages : packages[q] # "absent" => packages'[q] # "absent"
    BY <1>3 DEF Delete, GraphType
  <2>3. PackageOf \in [Versions -> Packages]
    BY GraphWriterAssumption DEF GraphWriterAssumption
  <2>4. ProjectionCovers'
    BY <2>1, <2>2, <2>3 DEF GraphInv, ProjectionCovers, GraphType
  <2>5. DepsOfOneEvent'
    BY <2>1 DEF GraphInv, DepsOfOneEvent, Deps, Upserts
  <2> QED
    BY <2>4, <2>5 DEF GraphInv
<1>4. CASE UNCHANGED graph
  BY <1>4 DEF graph, GraphInv, ProjectionCovers, DepsOfOneEvent, Deps, Upserts
<1> QED
  BY <1>1, <1>2, <1>3, <1>4 DEF Apply

LEMMA GraphInit == Init => GraphInv
  BY DEF Init, GraphInv, ProjectionCovers, DepsOfOneEvent, Deps

LEMMA GraphNext == Typed /\ GraphInv /\ [Next]_vars => GraphInv'
<1> SUFFICES ASSUME Typed, GraphInv, [Next]_vars PROVE GraphInv'
  OBVIOUS
<1>1. CASE UNCHANGED graph
  BY <1>1 DEF graph, GraphInv, ProjectionCovers, DepsOfOneEvent, Deps, Upserts
<1>2. CASE \E w \in Writers : pc[w] = "handle" /\ Apply(RecordAt(work[w]))
  <2>1. PICK w \in Writers : pc[w] = "handle" /\ Apply(RecordAt(work[w]))
    BY <1>2
  <2>2. work[w] \in Refs
    BY <2>1 DEF Typed, TypeOK, WorkOK
  <2>3. GraphType
    BY DEF Typed, TypeOK, GraphType
  <2> QED
    BY <2>1, <2>2, <2>3, ApplyGraph
<1>3. UNCHANGED graph \/ \E w \in Writers : pc[w] = "handle" /\ Apply(RecordAt(work[w]))
  BY DEF Next, WriterStep, WriterFault, Receive, Handle, Reject, HandleFails,
         SendToDlq, SendToDlqFails, CommitOffset, CommitFails, Crash, Rebalance,
         vars, graph
<1> QED
  BY <1>1, <1>2, <1>3

LEMMA GraphInvariant == Spec => []GraphInv
<1>1. Spec => [](Typed /\ GraphInv)
  BY TypedInit, TypedNext, GraphInit, GraphNext, PTL DEF Spec
<1> QED
  BY <1>1, PTL

\* Consistency checks 3 and 6 hold in every state.
THEOREM ProjectionIsComplete == Spec => []ProjectionCovers
  BY GraphInvariant, PTL DEF GraphInv

\* The edges of a version always come from one event.
THEOREM DepsAreOfOneEvent == Spec => []DepsOfOneEvent
  BY GraphInvariant, PTL DEF GraphInv

\* The graph is consistent in every state, whatever events the topics hold.
THEOREM GraphIsConsistent == Spec => []Consistent
<1>1. ProjectionCovers /\ DepsOfOneEvent => Consistent
  BY DEF Consistent
<1> QED
  BY <1>1, ProjectionIsComplete, DepsAreOfOneEvent, PTL

-----------------------------------------------------------------------------
(* Convergence: while partitions stay with their writers and the dead-letter *)
(* topic takes what it is given, redelivery ends in the last events.         *)

\* No event of the version is in the dead-letter topic.
Clean(v) == (Upserts(v) \cup Yanks(v)) \cap dlq = {}

\* The record was delivered since its partition was last rewound, and nobody is
\* still about to handle it or to send it to the dead-letter topic.
Passed(r) ==
    /\ r[2] <= pos[r[1]]
    /\ \A w \in Writers : work[w] = r => pc[w] = "commit"

\* A writer inside a record has the partition, which stands at that record, past
\* the committed offset.
InTurn ==
    /\ \A p \in Partitions : committed[p] <= pos[p]
    /\ \A w \in Writers : pc[w] # "recv" =>
          /\ owner[work[w][1]] = w
          /\ work[w][2] = pos[work[w][1]]
          /\ committed[work[w][1]] < pos[work[w][1]]

\* The graph holds the record that the version was last given, as far as its
\* partition was delivered; before that an older one may be applied again.
Reflected ==
    \A v \in Versions : Clean(v) =>
        /\ \A r \in Upserts(v) : Passed(r) =>
              /\ versions[v] # "absent"
              /\ (\A s \in Upserts(v) : s[1] = r[1] /\ s[2] <= r[2]) =>
                    Deps(v) = RecordAt(r).deps
        /\ \A s \in Yanks(v) :
              Passed(s) /\ (\E r \in Upserts(v) : r[1] = s[1] /\ r[2] < s[2]) =>
                  versions[v] = "yanked"

LEMMA InTurnNext ==
    ASSUME "rebalance" \notin FaultKinds
    PROVE  Typed /\ InTurn /\ [Next]_vars => InTurn'
<1> SUFFICES ASSUME Typed, InTurn, [Next]_vars PROVE InTurn'
  OBVIOUS
<1>t. /\ \A p \in Partitions : committed[p] \in Nat /\ pos[p] \in Nat /\ owner[p] \in Writers
      /\ \A w \in Writers : pc[w] # "recv" => work[w] \in Refs /\ work[w][1] \in Partitions
      /\ DOMAIN pc = Writers /\ DOMAIN work = Writers /\ DOMAIN pos = Partitions
      /\ DOMAIN committed = Partitions
  <2>1. \A w \in Writers : pc[w] # "recv" => work[w] \in Refs
    BY DEF Typed, TypeOK, WorkOK
  <2> QED
    BY <2>1, RefFacts DEF Typed, TypeOK
<1>1. ASSUME NEW w \in Writers, NEW p \in Partitions, Receive(w, p) PROVE InTurn'
  <2>1. /\ owner' = owner /\ committed' = committed /\ owner[p] = w
        /\ pos' = [pos EXCEPT ![p] = pos[p] + 1]
        /\ work' = [work EXCEPT ![w] = <<p, pos[p] + 1>>]
        /\ pc' = [pc EXCEPT ![w] = "handle"]
    BY <1>1 DEF Receive
  <2>2. \A q \in Partitions : committed'[q] <= pos'[q]
    BY <1>t, <2>1 DEF InTurn
  <2>3. ASSUME NEW u \in Writers, pc'[u] # "recv"
        PROVE  /\ owner'[work'[u][1]] = u /\ work'[u][2] = pos'[work'[u][1]]
               /\ committed'[work'[u][1]] < pos'[work'[u][1]]
    <3>1. CASE u = w
      <4>1. work'[u] = <<p, pos[p] + 1>> /\ pos'[p] = pos[p] + 1
        BY <1>t, <2>1, <3>1
      <4>2. committed[p] < pos[p] + 1
        BY <1>t DEF InTurn
      <4> QED
        BY <2>1, <3>1, <4>1, <4>2
    <3>2. CASE u # w
      <4>1. pc[u] # "recv" /\ work'[u] = work[u]
        BY <1>t, <2>1, <2>3, <3>2
      <4>2. work[u][1] # p /\ work[u][1] \in Partitions
        BY <1>t, <2>1, <3>2, <4>1 DEF InTurn
      <4> QED
        BY <1>t, <2>1, <4>1, <4>2 DEF InTurn
    <3> QED
      BY <3>1, <3>2
  <2> QED
    BY <2>2, <2>3 DEF InTurn
<1>2. ASSUME NEW w \in Writers, Handle(w) \/ Reject(w) \/ HandleFails(w) \/ SendToDlq(w)
      PROVE  InTurn'
  <2>1. /\ UNCHANGED <<owner, committed, pos, work>>
        /\ pc[w] # "recv" /\ \A u \in Writers \ {w} : pc'[u] = pc[u]
    BY <1>2, <1>t DEF Handle, Reject, HandleFails, SendToDlq
  <2> QED
    BY <2>1 DEF InTurn
<1>3. ASSUME NEW w \in Writers, SendToDlqFails(w) \/ CommitFails(w) PROVE InTurn'
  <2>1. /\ UNCHANGED <<owner, committed, pos>> /\ pc'[w] = "recv"
        /\ \A u \in Writers \ {w} : pc'[u] = pc[u] /\ work'[u] = work[u]
    BY <1>3, <1>t DEF SendToDlqFails, CommitFails, NextRecord
  <2> QED
    BY <2>1 DEF InTurn
<1>4. ASSUME NEW w \in Writers, CommitOffset(w) PROVE InTurn'
  <2> DEFINE p == work[w][1]
  <2>1. /\ UNCHANGED <<owner, pos>> /\ pc'[w] = "recv" /\ pc[w] = "commit"
        /\ \A u \in Writers \ {w} : pc'[u] = pc[u] /\ work'[u] = work[u]
        /\ committed' = IF owner[p] = w THEN [committed EXCEPT ![p] = work[w][2]]
                        ELSE committed
    BY <1>4, <1>t DEF CommitOffset, NextRecord
  <2>2. p \in Partitions /\ owner[p] = w /\ work[w][2] = pos[p]
    BY <1>t, <2>1 DEF InTurn
  <2> HIDE DEF p
  <2>3. \A q \in Partitions : committed'[q] = IF q = p THEN pos[p] ELSE committed[q]
    BY <1>t, <2>1, <2>2
  <2>4. \A q \in Partitions : committed'[q] <= pos'[q]
    BY <1>t, <2>1, <2>3 DEF InTurn
  <2>5. ASSUME NEW u \in Writers, pc'[u] # "recv"
        PROVE  /\ owner'[work'[u][1]] = u /\ work'[u][2] = pos'[work'[u][1]]
               /\ committed'[work'[u][1]] < pos'[work'[u][1]]
    <3>1. u # w /\ pc[u] # "recv" /\ work'[u] = work[u]
      BY <2>1, <2>5
    <3>2. work[u][1] # p /\ work[u][1] \in Partitions
      BY <1>t, <2>2, <3>1 DEF InTurn
    <3> QED
      BY <2>1, <2>3, <3>1, <3>2 DEF InTurn
  <2> QED
    BY <2>4, <2>5 DEF InTurn
<1>5. ASSUME NEW w \in Writers, Crash(w) PROVE InTurn'
  <2>1. /\ UNCHANGED <<owner, committed>> /\ pc'[w] = "recv"
        /\ \A u \in Writers \ {w} : pc'[u] = pc[u] /\ work'[u] = work[u]
        /\ \A p \in Partitions : pos'[p] = IF owner[p] = w THEN committed[p] ELSE pos[p]
    BY <1>5, <1>t DEF Crash, NextRecord
  <2>2. \A p \in Partitions : committed'[p] <= pos'[p]
    BY <1>t, <2>1 DEF InTurn
  <2>3. ASSUME NEW u \in Writers, pc'[u] # "recv"
        PROVE  /\ owner'[work'[u][1]] = u /\ work'[u][2] = pos'[work'[u][1]]
               /\ committed'[work'[u][1]] < pos'[work'[u][1]]
    <3>1. u # w /\ pc[u] # "recv" /\ work'[u] = work[u] /\ work[u][1] \in Partitions
      BY <1>t, <2>1, <2>3
    <3> QED
      BY <2>1, <3>1 DEF InTurn
  <2> QED
    BY <2>2, <2>3 DEF InTurn
<1>6. ~ \E w \in Writers, p \in Partitions : Rebalance(w, p)
  BY DEF Rebalance, Fault
<1>7. CASE UNCHANGED vars
  BY <1>7 DEF vars, InTurn
<1> QED
  BY <1>1, <1>2, <1>3, <1>4, <1>5, <1>6, <1>7 DEF Next, WriterStep, WriterFault

\* What a record does to a version: it is never unwritten nor unyanked; an
\* upsert writes it, and its edges; a yank of what was written yanks it.
LEMMA ApplyVersions ==
    ASSUME GraphType, NEW r \in Refs, Apply(RecordAt(r)), NEW v \in Versions
    PROVE  /\ versions[v] # "absent" => versions'[v] # "absent"
           /\ versions[v] = "yanked" => versions'[v] = "yanked"
           /\ r \in Upserts(v) => versions'[v] # "absent" /\ Deps(v)' = RecordAt(r).deps
           /\ r \notin Upserts(v) => Deps(v)' = Deps(v)
           /\ r \in Yanks(v) /\ versions[v] # "absent" => versions'[v] = "yanked"
<1>0. RecordAt(r) \in Record
  BY RefFacts
<1> DEFINE c == RecordAt(r)
<1>1. CASE c.kind = "upsert" /\ Upsert(c.version, c.deps)
  <2>1. c.version \in Versions /\ c.deps \in SUBSET Packages
    BY <1>0, <1>1, RecordFacts
  <2>2. Deps(c.version)' = c.deps /\ \A u \in Versions \ {c.version} : Deps(u)' = Deps(u)
    BY <1>1, <2>1, UpsertDeps
  <2>3. versions' = [versions EXCEPT ![c.version] =
                         IF versions[c.version] = "absent" THEN "live" ELSE versions[c.version]]
    BY <1>1 DEF Upsert, MergeNodes
  <2>4. /\ versions[v] # "absent" => versions'[v] = versions[v]
        /\ c.version = v => versions'[v] # "absent"
    BY <2>1, <2>3 DEF GraphType
  <2>5. r \in Upserts(v) <=> c.version = v
    BY <1>1 DEF Upserts
  <2>6. r \notin Yanks(v)
    BY <1>1 DEF Yanks
  <2> QED
    BY <2>2, <2>4, <2>5, <2>6
<1>2. CASE c.kind = "yank" /\ Yank(c.version)
  <2>1. c.version \in Versions
    BY <1>0, <1>2, RecordFacts
  <2>2. /\ depends' = depends
        /\ versions' = [versions EXCEPT ![c.version] =
                            IF versions[c.version] = "absent" THEN versions[c.version]
                            ELSE "yanked"]
    BY <1>2 DEF Yank
  <2>3. r \notin Upserts(v) /\ (r \in Yanks(v) <=> c.version = v)
    BY <1>2 DEF Upserts, Yanks
  <2>4. Deps(v)' = Deps(v)
    BY <2>2 DEF Deps
  <2> QED
    BY <2>1, <2>2, <2>3, <2>4 DEF GraphType
<1>3. CASE \/ c.kind = "delete" /\ Delete(c.package)
           \/ c.kind \in {"package", "empty"} /\ UNCHANGED graph
  <2>1. versions' = versions /\ depends' = depends
    BY <1>3 DEF Delete, graph
  <2>2. r \notin Upserts(v) /\ r \notin Yanks(v)
    BY <1>3 DEF Upserts, Yanks
  <2> QED
    BY <2>1, <2>2 DEF Deps
<1> QED
  BY <1>1, <1>2, <1>3 DEF Apply

\* A step that leaves the graph alone and lets no record pass, but for what
\* goes to the dead-letter topic.
LEMMA WaitingKeepsReflected ==
    ASSUME Reflected, UNCHANGED graph, dlq \subseteq dlq',
           \A r \in Refs : Passed(r)' => Passed(r) \/ r \in dlq'
    PROVE  Reflected'
<1>1. versions' = versions /\ depends' = depends
  BY DEF graph
<1>2. \A v \in Versions : /\ Clean(v)' => Clean(v)
                          /\ Clean(v)' => \A r \in Upserts(v) \cup Yanks(v) :
                                             r \in Refs /\ r \notin dlq'
  BY DEF Clean, Upserts, Yanks, RecordAt
<1>3. \A v \in Versions : Deps(v)' = Deps(v)
  BY <1>1 DEF Deps
<1>4. ASSUME NEW v \in Versions, Clean(v)'
      PROVE  /\ \A r \in Upserts(v) : Passed(r)' =>
                    /\ versions'[v] # "absent"
                    /\ (\A s \in Upserts(v) : s[1] = r[1] /\ s[2] <= r[2]) =>
                          Deps(v)' = RecordAt(r).deps
             /\ \A s \in Yanks(v) :
                    Passed(s)' /\ (\E r \in Upserts(v) : r[1] = s[1] /\ r[2] < s[2]) =>
                        versions'[v] = "yanked"
  <2>1. Clean(v) /\ \A r \in Upserts(v) \cup Yanks(v) : Passed(r)' => Passed(r)
    BY SMTT(60), <1>2, <1>4
  <2> QED
    BY <1>1, <1>3, <2>1 DEF Reflected
<1> QED
  BY <1>4 DEF Reflected, Upserts, Yanks, RecordAt

\* The record that is applied is the last delivered of its partition: what
\* comes after it, and has passed before, does not exist.
LEMMA ApplyKeepsReflected ==
    ASSUME Typed, InTurn, Reflected, NEW w \in Writers, pc[w] = "handle",
           Apply(RecordAt(work[w])), UNCHANGED <<work, pos, dlq>>,
           NEW c \in PC, pc' = [pc EXCEPT ![w] = c]
    PROVE  Reflected'
<1> DEFINE q == work[w]
<1>1. /\ q \in Refs /\ q = <<q[1], q[2]>> /\ q[1] \in Partitions /\ q[2] \in Nat
      /\ owner[q[1]] = w /\ q[2] = pos[q[1]]
  <2>1. q \in Refs
    BY DEF Typed, TypeOK, WorkOK
  <2>2. owner[q[1]] = w /\ q[2] = pos[q[1]]
    BY DEF InTurn
  <2>3. q[1] \in Partitions /\ pos[q[1]] \in Nat
    BY <2>1, RefFacts DEF Typed, TypeOK
  <2> QED
    BY <2>1, <2>2, <2>3, RefFacts
<1>2. GraphType
  BY DEF Typed, TypeOK, GraphType
<1> HIDE DEF q
<1>3. Apply(RecordAt(q))
  BY DEF q
<1>4. \A r : Passed(r)' /\ r # q => Passed(r)
  BY DEF Passed, Typed, TypeOK, q
<1>5. ASSUME NEW v \in Versions, Clean(v)
      PROVE  /\ \A r \in Upserts(v) : Passed(r)' =>
                    /\ versions'[v] # "absent"
                    /\ (\A s \in Upserts(v) : s[1] = r[1] /\ s[2] <= r[2]) =>
                          Deps(v)' = RecordAt(r).deps
             /\ \A s \in Yanks(v) :
                    Passed(s)' /\ (\E r \in Upserts(v) : r[1] = s[1] /\ r[2] < s[2]) =>
                        versions'[v] = "yanked"
  <2>1. /\ versions[v] # "absent" => versions'[v] # "absent"
        /\ versions[v] = "yanked" => versions'[v] = "yanked"
        /\ q \in Upserts(v) => versions'[v] # "absent" /\ Deps(v)' = RecordAt(q).deps
        /\ q \notin Upserts(v) => Deps(v)' = Deps(v)
        /\ q \in Yanks(v) /\ versions[v] # "absent" => versions'[v] = "yanked"
    BY <1>1, <1>2, <1>3, ApplyVersions
  <2>2. ASSUME NEW r \in Upserts(v), Passed(r)'
        PROVE  /\ versions'[v] # "absent"
               /\ (\A s \in Upserts(v) : s[1] = r[1] /\ s[2] <= r[2]) =>
                     Deps(v)' = RecordAt(r).deps
    <3>1. CASE r = q
      BY <2>1, <2>2, <3>1
    <3>2. CASE r # q
      <4>1. Passed(r)
        BY <1>4, <2>2, <3>2
      <4>2. versions'[v] # "absent"
        BY <1>5, <2>1, <4>1 DEF Reflected
      <4>3. ASSUME \A s \in Upserts(v) : s[1] = r[1] /\ s[2] <= r[2]
            PROVE  Deps(v)' = RecordAt(r).deps
        <5>1. q \notin Upserts(v)
          <6>1. ASSUME q \in Upserts(v) PROVE FALSE
            <7>1. q[1] = r[1] /\ q[2] <= r[2]
              BY <4>3, <6>1
            <7>2. r[2] <= pos[r[1]]
              BY <4>1 DEF Passed
            <7>3. r \in Refs
              BY DEF Upserts
            <7>4. r = <<r[1], r[2]>> /\ r[2] \in 1..Len(Log[r[1]]) /\ r[1] \in Partitions
              BY <7>3, RefFacts
            <7>5. r[2] \in Int
              BY <7>4
            <7>6. r[2] = q[2]
              BY <1>1, <7>1, <7>2, <7>5
            <7> QED
              BY <1>1, <3>2, <7>1, <7>4, <7>6
          <6> QED
            BY <6>1
        <5>2. Deps(v) = RecordAt(r).deps
          BY <1>5, <4>1, <4>3 DEF Reflected
        <5> QED
          BY <2>1, <5>1, <5>2
      <4> QED
        BY <4>2, <4>3
    <3> QED
      BY <3>1, <3>2
  <2>3. ASSUME NEW s \in Yanks(v), Passed(s)',
               NEW r \in Upserts(v), r[1] = s[1], r[2] < s[2]
        PROVE  versions'[v] = "yanked"
    <3>1. CASE s = q
      \* The upsert has passed: the writer of the partition is at the yank.
      <4>1. Passed(r)
        <5>1. r \in Refs
          BY DEF Upserts
        <5>2. r[2] \in Int /\ r # Nothing
          <6>1. r[2] \in 1..Len(Log[r[1]])
            BY <5>1, RefFacts
          <6> QED
            BY <5>1, <6>1, RefSomething
        <5>3. r[2] < pos[r[1]]
          BY <1>1, <2>3, <3>1
        <5>4. \A u \in Writers : work[u] # r
          <6> SUFFICES ASSUME NEW u \in Writers, work[u] = r PROVE FALSE
            OBVIOUS
          <6>1. pc[u] # "recv"
            BY <5>2 DEF Typed, WorkOK
          <6>2. r[2] = pos[r[1]]
            BY <6>1 DEF InTurn
          <6> QED
            BY <5>2, <5>3, <6>2
        <5>5. r[2] <= pos[r[1]]
          BY <1>1, <2>3, <3>1, <5>2, <5>3
        <5> QED
          BY <5>4, <5>5 DEF Passed
      <4>2. versions[v] # "absent"
        BY <1>5, <4>1 DEF Reflected
      <4> QED
        BY <2>1, <2>3, <3>1, <4>2
    <3>2. CASE s # q
      <4>1. Passed(s)
        BY <1>4, <2>3, <3>2
      <4> QED
        BY <1>5, <2>1, <2>3, <4>1 DEF Reflected
    <3> QED
      BY <3>1, <3>2
  <2> QED
    BY <2>2, <2>3
<1>6. \A v \in Versions : Clean(v)' <=> Clean(v)
  BY DEF Clean, Upserts, Yanks, RecordAt
<1> QED
  BY <1>5, <1>6 DEF Reflected, Upserts, Yanks, RecordAt

LEMMA ReflectedInit == Init => InTurn /\ Reflected
<1> SUFFICES ASSUME Init PROVE InTurn /\ Reflected
  OBVIOUS
<1>1. InTurn
  BY DEF Init, InTurn
<1>2. ASSUME NEW r \in Refs PROVE ~ Passed(r)
  <2>1. r[1] \in Partitions /\ r[2] \in 1..Len(Log[r[1]])
    BY RefFacts
  <2>2. pos[r[1]] = 0 /\ r[2] >= 1 /\ r[2] \in Int
    BY <2>1 DEF Init
  <2> QED
    BY <2>2 DEF Passed
<1>3. \A v \in Versions : \A r \in Upserts(v) \cup Yanks(v) : ~ Passed(r)
  BY <1>2 DEF Upserts, Yanks
<1> QED
  BY <1>1, <1>3 DEF Reflected

LEMMA ReflectedNext ==
    ASSUME "rebalance" \notin FaultKinds, "dlq" \notin FaultKinds
    PROVE  Typed /\ InTurn /\ Reflected /\ [Next]_vars => Reflected'
<1> SUFFICES ASSUME Typed, InTurn, Reflected, [Next]_vars PROVE Reflected'
  OBVIOUS
<1>t. /\ \A p \in Partitions : committed[p] \in Nat /\ pos[p] \in Nat /\ committed[p] <= pos[p]
      /\ DOMAIN pc = Writers /\ DOMAIN work = Writers /\ DOMAIN pos = Partitions
      /\ \A w \in Writers : pc[w] = "recv" <=> work[w] = Nothing
  BY DEF Typed, TypeOK, WorkOK, InTurn
<1>r. \A r \in Refs : /\ r = <<r[1], r[2]>> /\ r[1] \in Partitions
                      /\ r[2] \in Nat /\ r # Nothing
  BY RefFacts, RefSomething
\* A record is no longer held by w, that stood at the commit; or w holds the
\* same record further on, or the next one.
<1>1. ASSUME NEW w \in Writers, NEW p \in Partitions, Receive(w, p) PROVE Reflected'
  <2>1. /\ UNCHANGED graph /\ dlq' = dlq /\ pc[w] = "recv"
        /\ pos' = [pos EXCEPT ![p] = pos[p] + 1]
        /\ work' = [work EXCEPT ![w] = <<p, pos[p] + 1>>]
        /\ pc' = [pc EXCEPT ![w] = "handle"]
    BY <1>1 DEF Receive
  <2>2. ASSUME NEW r \in Refs, Passed(r)' PROVE Passed(r)
    <3>1. r # <<p, pos[p] + 1>>
      <4>1. work'[w] = <<p, pos[p] + 1>> /\ pc'[w] = "handle"
        BY <1>t, <2>1
      <4> QED
        BY <2>2, <4>1 DEF Passed
    <3>2. r[2] <= pos'[r[1]]
      BY <2>2 DEF Passed
    <3>3. r[2] <= pos[r[1]]
      <4>1. CASE r[1] = p
        <5>1. pos'[p] = pos[p] + 1
          BY <1>t, <2>1
        <5>2. r[2] # pos[p] + 1
          BY <1>r, <3>1, <4>1
        <5> QED
          BY <1>t, <1>r, <3>2, <4>1, <5>1, <5>2
      <4>2. CASE r[1] # p
        BY <1>t, <1>r, <2>1, <3>2, <4>2
      <4> QED
        BY <4>1, <4>2
    <3>4. ASSUME NEW u \in Writers, work[u] = r PROVE pc[u] = "commit"
      <4>1. u # w
        BY <1>t, <1>r, <2>1, <3>4
      <4>2. work'[u] = r /\ pc'[u] = pc[u]
        BY <1>t, <2>1, <3>4, <4>1
      <4> QED
        BY <2>2, <4>2 DEF Passed
    <3> QED
      BY <3>3, <3>4 DEF Passed
  <2> QED
    BY <2>1, <2>2, WaitingKeepsReflected
<1>2. ASSUME NEW w \in Writers, Handle(w) PROVE Reflected'
  BY <1>2, ApplyKeepsReflected DEF Handle, PC
<1>3. ASSUME NEW w \in Writers, Reject(w) \/ (HandleFails(w) /\ UNCHANGED graph)
      PROVE  Reflected'
  <2>1. /\ UNCHANGED graph /\ UNCHANGED <<work, pos, dlq>>
        /\ pc[w] = "handle" /\ pc' = [pc EXCEPT ![w] = "dlq"]
    BY <1>3 DEF Reject, HandleFails
  <2>2. \A r \in Refs : Passed(r)' => Passed(r)
    BY <1>t, <2>1 DEF Passed
  <2> QED
    BY <2>1, <2>2, WaitingKeepsReflected
<1>4. ASSUME NEW w \in Writers, HandleFails(w), Apply(RecordAt(work[w])) PROVE Reflected'
  BY <1>4, ApplyKeepsReflected DEF HandleFails, PC
<1>5. ASSUME NEW w \in Writers, SendToDlq(w) PROVE Reflected'
  <2>1. /\ UNCHANGED graph /\ UNCHANGED <<work, pos>>
        /\ dlq' = dlq \cup {work[w]} /\ pc' = [pc EXCEPT ![w] = "commit"]
    BY <1>5 DEF SendToDlq
  <2>2. \A r \in Refs : Passed(r)' => Passed(r) \/ r \in dlq'
    BY <1>t, <2>1 DEF Passed
  <2> QED
    BY <2>1, <2>2, WaitingKeepsReflected
<1>6. ASSUME NEW w \in Writers, CommitOffset(w) \/ CommitFails(w) PROVE Reflected'
  <2>1. /\ UNCHANGED graph /\ UNCHANGED <<pos, dlq>> /\ pc[w] = "commit"
        /\ \A u \in Writers \ {w} : pc'[u] = pc[u] /\ work'[u] = work[u]
    BY <1>6, <1>t DEF CommitOffset, CommitFails, NextRecord
  <2>2. \A r \in Refs : Passed(r)' => Passed(r)
    BY <2>1 DEF Passed
  <2> QED
    BY <2>1, <2>2, WaitingKeepsReflected
<1>7. ASSUME NEW w \in Writers, Crash(w) PROVE Reflected'
  <2>1. /\ UNCHANGED graph /\ dlq' = dlq
        /\ \A u \in Writers \ {w} : pc'[u] = pc[u] /\ work'[u] = work[u]
        /\ \A p \in Partitions : pos'[p] = IF owner[p] = w THEN committed[p] ELSE pos[p]
    BY <1>7, <1>t DEF Crash, NextRecord
  \* What w was handling lies past the committed offset.
  <2>2. ASSUME NEW r \in Refs, Passed(r)' PROVE Passed(r)
    <3>1. r[2] <= pos'[r[1]]
      BY <2>2 DEF Passed
    <3>2. r[2] <= pos[r[1]]
      BY <1>t, <1>r, <2>1, <3>1
    <3>3. work[w] # r
      <4> SUFFICES ASSUME work[w] = r PROVE FALSE
        OBVIOUS
      <4>1. pc[w] # "recv"
        BY <1>t, <1>r
      <4>2. owner[r[1]] = w /\ r[2] = pos[r[1]] /\ committed[r[1]] < pos[r[1]]
        BY <4>1 DEF InTurn
      <4> QED
        BY <1>t, <1>r, <2>1, <3>1, <4>2
    <3>4. \A u \in Writers \ {w} : work[u] = r => pc[u] = "commit"
      BY <2>1, <2>2 DEF Passed
    <3> QED
      BY <3>2, <3>3, <3>4 DEF Passed
  <2> QED
    BY <2>1, <2>2, WaitingKeepsReflected
<1>8. ~ \E w \in Writers : SendToDlqFails(w) \/ \E p \in Partitions : Rebalance(w, p)
  BY DEF SendToDlqFails, Rebalance, Fault
<1>9. CASE UNCHANGED vars
  <2>1. UNCHANGED graph /\ UNCHANGED <<pc, work, pos, dlq>>
    BY <1>9 DEF vars, graph
  <2>2. \A r \in Refs : Passed(r)' => Passed(r)
    BY <2>1 DEF Passed
  <2> QED
    BY <2>1, <2>2, WaitingKeepsReflected
<1>10. ASSUME NEW w \in Writers, HandleFails(w) PROVE Reflected'
  BY <1>3, <1>4, <1>10 DEF HandleFails
<1> QED
  BY <1>1, <1>2, <1>3, <1>5, <1>6, <1>7, <1>8, <1>9, <1>10
  DEF Next, WriterStep, WriterFault

\* When every partition is delivered and every writer idle, each version has
\* the edges of its last upsert and is yanked if a yank came after it, unless
\* an event of it was dead-lettered: however often crashes, lost answers of
\* Memgraph and lost commits made process_message apply a record again, and
\* older ones over newer ones on the way.  The two hypotheses are what it rests
\* on: a writer that lost its partition could finish an old record after the new
\* owner's last, and a record the dead-letter topic refused would be skipped.
THEOREM RedeliveryConverges ==
    ASSUME "rebalance" \notin FaultKinds, "dlq" \notin FaultKinds
    PROVE  Spec => []Converges
<1> DEFINE I == Typed /\ InTurn /\ Reflected
<1>1. Init => I
  BY TypedInit, ReflectedInit
<1>2. I /\ [Next]_vars => I'
  BY TypedNext, InTurnNext, ReflectedNext
<1>3. I => Converges
  <2> SUFFICES ASSUME Typed, Reflected, Drained PROVE Converges
    BY DEF Converges
  <2>1. \A r \in Refs : Passed(r)
    <3> SUFFICES ASSUME NEW r \in Refs PROVE Passed(r)
      OBVIOUS
    <3>1. r[1] \in Partitions /\ r[2] \in 1..Len(Log[r[1]]) /\ r # Nothing
      BY RefFacts, RefSomething
    <3>2. r[2] <= pos[r[1]]
      BY <3>1 DEF Drained
    <3>3. \A w \in Writers : work[w] # r
      BY <3>1 DEF Drained, Typed, WorkOK
    <3> QED
      BY <3>2, <3>3 DEF Passed
  <2>2. \A v \in Versions : \A r \in Upserts(v) \cup Yanks(v) : Passed(r)
    BY <2>1 DEF Upserts, Yanks
  <2>3. ASSUME NEW v \in Versions, NEW r \in Upserts(v), Clean(v)
        PROVE  /\ (\A s \in Upserts(v) : s[1] = r[1] /\ s[2] <= r[2])
                       => Deps(v) = RecordAt(r).deps
               /\ (\E s \in Yanks(v) : s[1] = r[1] /\ r[2] < s[2])
                       => versions[v] = "yanked"
    BY <2>2, <2>3 DEF Reflected
  <2> QED
    BY <2>3 DEF Converges, Clean
<1> QED
  BY <1>1, <1>2, <1>3, PTL DEF Spec

-----------------------------------------------------------------------------
(* What lies in the cells of a grid: places and what each of them holds.   *)

\* One cell for each place of g and each thing in it.
Cells(g, places) == UNION {{i} \X g[i] : i \in places}

LEMMA CellIn == \A g, places, c : c \in Cells(g, places) <=> \E i \in places : c \in {i} \X g[i]
  BY DEF Cells

LEMMA CellsAdded ==
    ASSUME NEW g, NEW places, NEW j, j \notin places, IsFiniteSet(Cells(g, places)),
           NEW n \in Nat, g[j] = 1 .. n
    PROVE  /\ IsFiniteSet(Cells(g, places \cup {j}))
           /\ Cardinality(Cells(g, places \cup {j})) = Cardinality(Cells(g, places)) + n
<1> DEFINE C == Cells(g, places)  D == {j} \X (1 .. n)
<1>1. Cells(g, places \cup {j}) = C \cup D
  <2>1. \A c : c \in Cells(g, places \cup {j}) <=> (c \in C \/ c \in D)
    <3>1. D = {j} \X g[j]
      OBVIOUS
    <3>2. \A c : c \in Cells(g, places \cup {j}) <=> \E i \in places \cup {j} : c \in {i} \X g[i]
      BY CellIn, Zenon
    <3>3. \A c : c \in C <=> \E i \in places : c \in {i} \X g[i]
      BY CellIn, Zenon
    <3> HIDE DEF C, D
    <3> QED
      BY <3>1, <3>2, <3>3, Zenon
  <2> HIDE DEF C, D
  <2>2. \A c : c \in C \cup D <=> (c \in C \/ c \in D)
    OBVIOUS
  <2> QED
    BY <2>1, <2>2, Zenon
<1>2. C \cap D = {}
  <2> SUFFICES ASSUME NEW c, c \in C, c \in D PROVE FALSE
    OBVIOUS
  <2>1. PICK i \in places : c \in {i} \X g[i]
    BY CellIn, Zenon
  <2>2. c[1] = i /\ c[1] = j
    BY <2>1
  <2> QED
    BY <2>2
<1>3. IsFiniteSet(D) /\ Cardinality(D) = n
  <2>1. IsFiniteSet({j}) /\ Cardinality({j}) = 1
    BY FS_Singleton, Zenon
  <2>2. IsFiniteSet(1 .. n) /\ Cardinality(1 .. n) = n
    BY FS_Interval
  <2>3. IsFiniteSet({j} \X (1 .. n)) /\ Cardinality({j} \X (1 .. n)) = 1 * n
    <3>1. \A S, T : (IsFiniteSet(S) /\ IsFiniteSet(T)) =>
             IsFiniteSet(S \X T) /\ Cardinality(S \X T) = Cardinality(S) * Cardinality(T)
      BY FS_Product, Zenon
    <3>2. IsFiniteSet({j} \X (1 .. n)) /\ Cardinality({j} \X (1 .. n)) = Cardinality({j}) * Cardinality(1 .. n)
      BY <2>1, <2>2, <3>1
    <3> QED
      BY <2>1, <2>2, <3>2
  <2> QED
    BY <2>3
<1> HIDE DEF C, D
<1>4. IsFiniteSet(C) /\ Cardinality(C) \in Nat
  BY FS_CardinalityType DEF C
<1>5. IsFiniteSet(C \cup D) /\ Cardinality(C \cup D) = Cardinality(C) + Cardinality(D) - Cardinality(C \cap D)
  BY <1>3, <1>4, FS_Union, Zenon
<1>6. Cardinality(C \cap D) = 0
  BY <1>2, FS_EmptySet, Zenon
<1>7. Cardinality(C \cup D) = Cardinality(C) + n
  BY <1>3, <1>4, <1>5, <1>6
<1> QED
  BY <1>1, <1>5, <1>7 DEF C

LEMMA CellsOfFewer ==
    ASSUME NEW g, NEW places, NEW fewer \in SUBSET places, IsFiniteSet(Cells(g, places))
    PROVE  /\ IsFiniteSet(Cells(g, fewer))
           /\ Cardinality(Cells(g, fewer)) \in Nat /\ Cardinality(Cells(g, places)) \in Nat
           /\ Cardinality(Cells(g, fewer)) <= Cardinality(Cells(g, places))
<1> DEFINE C == Cells(g, places)  D == Cells(g, fewer)
<1>1. \A c : c \in D => c \in C
  BY CellIn, Zenon
<1> HIDE DEF C, D
<1>2. D \in SUBSET C
  BY <1>1
<1>3. IsFiniteSet(C)
  BY DEF C
<1>4. IsFiniteSet(D) /\ Cardinality(D) <= Cardinality(C)
  BY <1>2, <1>3, FS_Subset
<1>5. Cardinality(C) \in Nat /\ Cardinality(D) \in Nat
  BY <1>3, <1>4, FS_CardinalityType
<1> QED
  BY <1>4, <1>5 DEF C, D

LEMMA CellsSame ==
    ASSUME NEW g, NEW h, NEW places, \A i \in places : g[i] = h[i]
    PROVE  Cells(g, places) = Cells(h, places)
<1> DEFINE C == Cells(g, places)  D == Cells(h, places)
<1>1. \A c : c \in C <=> c \in D
  <2>1. \A c : c \in C <=> \E i \in places : c \in {i} \X g[i]
    BY CellIn, Zenon
  <2>2. \A c : c \in D <=> \E i \in places : c \in {i} \X h[i]
    BY CellIn, Zenon
  <2> QED
    BY <2>1, <2>2, Zenon
<1> HIDE DEF C, D
<1>2. C = D
  BY <1>1
<1> QED
  BY <1>2 DEF C, D

LEMMA NoCells == \A g : IsFiniteSet(Cells(g, {})) /\ Cardinality(Cells(g, {})) = 0
<1> SUFFICES ASSUME NEW g PROVE IsFiniteSet(Cells(g, {})) /\ Cardinality(Cells(g, {})) = 0
  OBVIOUS
<1>1. Cells(g, {}) = {}
  BY DEF Cells
<1> QED
  BY <1>1, FS_EmptySet

-----------------------------------------------------------------------------
(* Archives: what was read stays within the limits.                        *)

UnitsOf(q) == [i \in DOMAIN q |-> 1 .. q[i].size]
Size(q, places) == Cardinality(Cells(UnitsOf(q), places))
Sources(q, n) == {i \in 1 .. n : Archived!IsSource(q[i])}

ArchiveInv ==
    /\ entries \in Seq(PackedFiles) /\ read \in Nat /\ read <= Len(entries)
    /\ IsFiniteSet(Cells(UnitsOf(entries), Sources(entries, read)))
    /\ inspected = Size(entries, Sources(entries, read))
    /\ results \in Seq(Nat) /\ Len(results) <= MaxFiles
    /\ \A i \in DOMAIN results : results[i] \in Sources(entries, read)
    /\ \A i \in 1 .. Len(results) - 1 : results[i] < results[i + 1]
    /\ Size(entries, Range(results)) <= MaxUnpackedSize
    /\ \A i \in 1 .. read :
          (Archived!IsSource(entries[i]) /\ Archived!Readable(entries[i]) /\ i \notin Range(results)) =>
              Size(entries, Sources(entries, i)) > MaxUnpackedSize
    /\ reading => (inspected <= MaxUnpackedSize /\ Len(results) < MaxFiles)
    /\ (read < Len(entries) /\ read > 0 /\ ~reading) =>
          (Len(results) = MaxFiles \/ inspected > MaxUnpackedSize)

LEMMA ArchiveLimits ==
    MaxFiles \in Nat \ {0} /\ MaxUnpackedSize \in Nat /\ \A e \in PackedFiles : e.size \in Nat
  BY WorkAssumption DEF WorkAssumption, Archived!LimitsAssumption

LEMMA SizeIs ==
    ASSUME NEW places \in SUBSET DOMAIN entries
    PROVE  Archived!SizeOf(places) = Size(entries, places)
<1>1. \A S : Archived!Cardinality(S) = Cardinality(S)
  BY DEF Archived!Cardinality, Cardinality
<1>2. {{i} \X (1 .. entries[i].size) : i \in places} = {{i} \X UnitsOf(entries)[i] : i \in places}
  BY DEF UnitsOf
<1>3. Archived!SizeOf(places) = Cardinality(UNION {{i} \X (1 .. entries[i].size) : i \in places})
  BY <1>1 DEF Archived!SizeOf
<1> QED
  BY <1>2, <1>3, Zenon DEF Size, Cells

LEMMA SourcesIn ==
    ASSUME NEW q \in Seq(PackedFiles), NEW n \in Nat, n <= Len(q)
    PROVE  Sources(q, n) \in SUBSET DOMAIN q
  BY DEF Sources

\* One more place adds its size when it is a source.
LEMMA SourcesMore ==
    ASSUME NEW q \in Seq(PackedFiles), NEW n \in Nat, n < Len(q),
           IsFiniteSet(Cells(UnitsOf(q), Sources(q, n)))
    PROVE  /\ IsFiniteSet(Cells(UnitsOf(q), Sources(q, n + 1)))
           /\ Size(q, Sources(q, n)) \in Nat
           /\ Size(q, Sources(q, n + 1)) =
                  Size(q, Sources(q, n)) + IF Archived!IsSource(q[n + 1]) THEN q[n + 1].size ELSE 0
<1> DEFINE S == Sources(q, n)  T == Sources(q, n + 1)
<1>1. n + 1 \in DOMAIN q /\ q[n + 1] \in PackedFiles
  OBVIOUS
<1>2. q[n + 1].size \in Nat /\ UnitsOf(q)[n + 1] = 1 .. q[n + 1].size
  BY <1>1, ArchiveLimits DEF UnitsOf
<1>3. n + 1 \notin S
  BY DEF Sources
<1>4. T = IF Archived!IsSource(q[n + 1]) THEN S \cup {n + 1} ELSE S
  <2>1. \A i : i \in 1 .. n + 1 <=> (i \in 1 .. n \/ i = n + 1)
    OBVIOUS
  <2>2. \A i : i \in T <=> (i \in S \/ (i = n + 1 /\ Archived!IsSource(q[n + 1])))
    BY <2>1, Zenon DEF Sources
  <2> HIDE DEF S, T
  <2> QED
    BY <2>2
<1>5. Cardinality(Cells(UnitsOf(q), S)) \in Nat
  BY FS_CardinalityType
<1> HIDE DEF S, T
<1>6. CASE Archived!IsSource(q[n + 1])
  <2>1. T = S \cup {n + 1}
    BY <1>4, <1>6
  <2>2. IsFiniteSet(Cells(UnitsOf(q), S))
    BY DEF S
  <2>3. /\ IsFiniteSet(Cells(UnitsOf(q), S \cup {n + 1}))
        /\ Cardinality(Cells(UnitsOf(q), S \cup {n + 1})) = Cardinality(Cells(UnitsOf(q), S)) + q[n + 1].size
    BY <1>2, <1>3, <2>2, CellsAdded
  <2> QED
    BY <2>1, <2>3, <1>5, <1>6 DEF Size, S, T
<1>7. CASE ~Archived!IsSource(q[n + 1])
  <2>1. T = S
    BY <1>4, <1>7
  <2> QED
    BY <2>1, <1>5, <1>7 DEF Size, S, T
<1> QED
  BY <1>6, <1>7

LEMMA ArchiveInvIs == ArchiveInv => Archived!WithinBudget
<1> SUFFICES ASSUME ArchiveInv PROVE Archived!WithinBudget
  OBVIOUS
<1>1. Archived!Taken = Range(results)
  BY DEF Archived!Taken, Archived!ToSet, Range
<1>2. \A n : Archived!SourcesUpTo(n) = Sources(entries, n)
  BY Zenon DEF Archived!SourcesUpTo, Sources
<1>3. /\ entries \in Seq(PackedFiles) /\ read \in Nat /\ read <= Len(entries)
      /\ \A i \in DOMAIN results : results[i] \in Sources(entries, read)
  BY DEF ArchiveInv
<1>4. Range(results) \in SUBSET DOMAIN entries
  BY <1>3, SourcesIn DEF Range
<1>5. Archived!SizeOf(Archived!Taken) <= MaxUnpackedSize
  BY <1>1, <1>4, SizeIs DEF ArchiveInv
<1>6. \A i \in 1 .. read : Archived!SizeOf(Archived!SourcesUpTo(i)) = Size(entries, Sources(entries, i))
  <2> SUFFICES ASSUME NEW i \in 1 .. read
               PROVE  Archived!SizeOf(Archived!SourcesUpTo(i)) = Size(entries, Sources(entries, i))
    OBVIOUS
  <2>1. i \in Nat /\ i <= Len(entries)
    BY <1>3
  <2>2. Sources(entries, i) \in SUBSET DOMAIN entries
    BY <1>3, <2>1, SourcesIn
  <2> QED
    BY <1>2, <2>2, SizeIs
<1>7. \A i \in 1 .. read :
          (Archived!IsSource(entries[i]) /\ Archived!Readable(entries[i]) /\ i \notin Archived!Taken) =>
              Archived!SizeOf(Archived!SourcesUpTo(i)) > MaxUnpackedSize
  BY <1>1, <1>6, Zenon DEF ArchiveInv
<1> QED
  BY <1>5, <1>7, Zenon DEF Archived!WithinBudget, ArchiveInv

LEMMA ArchiveInit == WorkInit => ArchiveInv
<1> SUFFICES ASSUME WorkInit PROVE ArchiveInv
  OBVIOUS
<1>1. entries = <<>> /\ read = 0 /\ inspected = 0 /\ results = <<>> /\ reading = FALSE
  BY DEF WorkInit, Archived!Init
<1>2. Sources(<<>>, 0) = {} /\ Range(<<>>) = {}
  BY DEF Sources, Range
<1>3. Size(<<>>, {}) = 0 /\ IsFiniteSet(Cells(UnitsOf(<<>>), {}))
  BY NoCells DEF Size
<1>4. /\ entries \in Seq(PackedFiles) /\ read \in Nat /\ read <= Len(entries)
      /\ results \in Seq(Nat) /\ Len(results) <= MaxFiles
      /\ \A i : i \notin DOMAIN results /\ i \notin 1 .. read /\ i \notin 1 .. Len(results) - 1
  BY <1>1, ArchiveLimits
<1>6. Sources(entries, read) = {} /\ Range(results) = {}
  BY <1>1, <1>2
<1>7. Size(entries, {}) = 0 /\ IsFiniteSet(Cells(UnitsOf(entries), {}))
  BY NoCells, Zenon DEF Size
<1>8. 0 <= MaxUnpackedSize
  BY ArchiveLimits
<1>5. /\ IsFiniteSet(Cells(UnitsOf(entries), Sources(entries, read)))
      /\ inspected = Size(entries, Sources(entries, read))
      /\ Size(entries, Range(results)) <= MaxUnpackedSize
  BY <1>1, <1>6, <1>7, <1>8
<1> QED
  BY <1>1, <1>4, <1>5 DEF ArchiveInv

LEMMA ArchivePack == ASSUME ArchiveInv, Archived!Pack PROVE ArchiveInv'
<1>1. PICK e \in PackedFiles : entries' = Append(entries, e)
  BY DEF Archived!Pack
<1>2. read' = read /\ inspected' = inspected /\ results' = results /\ reading' = reading /\ read = 0 /\ ~reading
  BY DEF Archived!Pack
<1>3. \A q : Sources(q, 0) = {}
  BY DEF Sources
<1>4. \A q : Size(q, {}) = 0 /\ IsFiniteSet(Cells(UnitsOf(q), {}))
  BY NoCells DEF Size
<1>5. results \in Seq(Nat) /\ Range(results) = {}
  BY <1>2, <1>3 DEF ArchiveInv, Range
<1>6. entries' \in Seq(PackedFiles) /\ 0 <= Len(entries')
  BY <1>1 DEF ArchiveInv
<1>7. \A i : i \notin DOMAIN results
  BY <1>5 DEF Range
<1>8. results = <<>>
  <2>1. \A r \in Seq(Nat) : (\A i : i \notin DOMAIN r) => r = <<>>
    <3>1. \A r \in Seq(Nat) : r # <<>> => 1 \in DOMAIN r
      BY EmptySeq
    <3> QED
      BY <3>1, Zenon
  <2> QED
    BY <1>5, <1>7, <2>1
<1>9. /\ \A i : i \notin 1 .. 0 /\ i \notin 1 .. Len(results) - 1
      /\ Len(results) <= MaxFiles
  BY <1>8, ArchiveLimits
<1>10. /\ IsFiniteSet(Cells(UnitsOf(entries'), Sources(entries', read')))
       /\ inspected' = Size(entries', Sources(entries', read'))
       /\ Size(entries', Range(results')) <= MaxUnpackedSize
  <2>1. inspected = 0
    BY <1>2, <1>3, <1>4 DEF ArchiveInv
  <2>2. 0 <= MaxUnpackedSize
    BY ArchiveLimits
  <2>3. Sources(entries', read') = {} /\ Range(results') = {} /\ inspected' = 0
    BY <2>1, <1>2, <1>3, <1>5
  <2>4. Size(entries', {}) = 0 /\ IsFiniteSet(Cells(UnitsOf(entries'), {}))
    BY <1>4, Zenon
  <2> QED
    BY <2>2, <2>3, <2>4
<1> QED
  BY <1>2, <1>5, <1>6, <1>7, <1>9, <1>10 DEF ArchiveInv

LEMMA ArchiveOpen == ASSUME ArchiveInv, Archived!Open PROVE ArchiveInv'
<1>1. /\ entries' = entries /\ read' = read /\ inspected' = inspected /\ results' = results /\ reading' = TRUE
      /\ read = 0
  BY DEF Archived!Open
<1>2. Sources(entries, 0) = {} /\ Size(entries, {}) = 0
  BY NoCells DEF Sources, Size
<1>3. inspected = 0
  BY <1>1, <1>2 DEF ArchiveInv
<1>4. results \in Seq(Nat) /\ \A i : i \notin DOMAIN results
  BY <1>1, <1>2 DEF ArchiveInv
<1>5. Len(results) < MaxFiles
  <2>1. \A r \in Seq(Nat) : (\A i : i \notin DOMAIN r) => Len(r) = 0
    BY SMTT(60)
  <2> QED
    BY <1>4, <2>1, ArchiveLimits
<1>6. inspected <= MaxUnpackedSize
  BY <1>3, ArchiveLimits
<1> QED
  BY <1>1, <1>5, <1>6 DEF ArchiveInv

LEMMA ArchiveRead == ASSUME ArchiveInv, Archived!ReadEntry PROVE ArchiveInv'
<1> DEFINE n == read + 1
           e == entries[n]
           source == Archived!IsSource(e)
           fits == inspected' <= MaxUnpackedSize
<1>1. /\ reading /\ read < Len(entries) /\ read' = n /\ entries' = entries
      /\ inspected' = inspected + IF source THEN e.size ELSE 0
      /\ results' = IF source /\ fits /\ Archived!Readable(e) THEN Append(results, n) ELSE results
      /\ reading' = (fits /\ Len(results') < MaxFiles)
  BY DEF Archived!ReadEntry
<1>2. /\ entries \in Seq(PackedFiles) /\ read \in Nat /\ n \in Nat /\ n <= Len(entries) /\ n > 0
      /\ IsFiniteSet(Cells(UnitsOf(entries), Sources(entries, read)))
      /\ inspected = Size(entries, Sources(entries, read))
      /\ results \in Seq(Nat) /\ Len(results) < MaxFiles /\ Len(results) \in Nat
  BY <1>1 DEF ArchiveInv
<1>3. /\ IsFiniteSet(Cells(UnitsOf(entries), Sources(entries, n)))
      /\ inspected' = Size(entries, Sources(entries, n))
      /\ inspected' \in Nat
  <2>1. e.size \in Nat
    BY <1>2, ArchiveLimits
  <2>2. /\ IsFiniteSet(Cells(UnitsOf(entries), Sources(entries, n)))
        /\ Size(entries, Sources(entries, read)) \in Nat
        /\ Size(entries, Sources(entries, n)) =
              Size(entries, Sources(entries, read)) + IF source THEN e.size ELSE 0
    BY <1>1, <1>2, SourcesMore
  <2> HIDE DEF n, e, source
  <2> QED
    BY <1>1, <1>2, <2>1, <2>2
<1>4. Sources(entries, read) \subseteq Sources(entries, n)
  BY <1>2 DEF Sources
<1>5. results' \in Seq(Nat) /\ Len(results') <= MaxFiles /\ Len(results') \in Nat
  BY <1>1, <1>2, ArchiveLimits
<1>6. \A i \in DOMAIN results : results[i] \in Sources(entries, read) /\ results[i] < n /\ results[i] \in Nat
  BY <1>2 DEF ArchiveInv, Sources
<1>7. CASE source /\ fits /\ Archived!Readable(e)
  <2>1. /\ results' = Append(results, n) /\ DOMAIN results = 1 .. Len(results)
        /\ \A i \in DOMAIN results' : (i \in DOMAIN results /\ results'[i] = results[i])
                                      \/ (i = Len(results) + 1 /\ results'[i] = n)
        /\ Len(results') = Len(results) + 1 /\ results'[Len(results) + 1] = n
        /\ \A i \in 1 .. Len(results) : results'[i] = results[i]
    BY <1>1, <1>2, <1>7
  <2>2. n \in Sources(entries, n)
    BY <1>2, <1>7 DEF Sources
  <2>3. \A i \in DOMAIN results' : results'[i] \in Sources(entries, n)
    BY <2>1, <2>2, <1>4, <1>6
  <2>4. \A i \in 1 .. Len(results') - 1 : results'[i] < results'[i + 1]
    <3> SUFFICES ASSUME NEW i \in 1 .. Len(results) PROVE results'[i] < results'[i + 1]
      BY <2>1, <1>2
    <3>1. CASE i = Len(results)
      BY <3>1, <2>1, <1>2, <1>6
    <3>2. CASE i # Len(results)
      <4>1. i \in 1 .. Len(results) - 1 /\ i + 1 \in 1 .. Len(results)
        BY <3>2, <1>2
      <4>2. results[i] < results[i + 1]
        BY <4>1, Zenon DEF ArchiveInv
      <4> QED
        BY <4>1, <4>2, <2>1
    <3> QED
      BY <3>1, <3>2
  <2>5. Size(entries, Range(results')) <= MaxUnpackedSize
    <3>1. Range(results') \in SUBSET Sources(entries, n)
      BY <2>3 DEF Range
    <3>2. /\ Size(entries, Range(results')) \in Nat
          /\ Size(entries, Range(results')) <= Size(entries, Sources(entries, n))
      BY <3>1, <1>3, CellsOfFewer DEF Size
    <3> QED
      BY <3>2, <1>3, <1>7, ArchiveLimits
  <2>6. \A i \in 1 .. n :
          (Archived!IsSource(entries[i]) /\ Archived!Readable(entries[i]) /\ i \notin Range(results')) =>
              Size(entries, Sources(entries, i)) > MaxUnpackedSize
    <3> SUFFICES ASSUME NEW i \in 1 .. n, Archived!IsSource(entries[i]), Archived!Readable(entries[i]),
                        i \notin Range(results')
                 PROVE  Size(entries, Sources(entries, i)) > MaxUnpackedSize
      OBVIOUS
    <3>1. i # n
      <4>1. Len(results) + 1 \in DOMAIN results'
        BY <2>1, <1>2
      <4> QED
        BY <4>1, <2>1 DEF Range
    <3>2. i \in 1 .. read /\ i \notin Range(results)
      BY <3>1, <2>1, <1>2 DEF Range
    <3> QED
      BY <3>2, Zenon DEF ArchiveInv
  <2>7. reading' => (inspected' <= MaxUnpackedSize /\ Len(results') < MaxFiles)
    BY <1>1
  <2>8. (read' < Len(entries') /\ read' > 0 /\ ~reading') =>
          (Len(results') = MaxFiles \/ inspected' > MaxUnpackedSize)
    <3>1. ~reading' => (~fits \/ ~(Len(results') < MaxFiles))
      BY <1>1, Zenon
    <3>2. ~fits => inspected' > MaxUnpackedSize
      BY <1>3, ArchiveLimits
    <3>3. ~(Len(results') < MaxFiles) => Len(results') = MaxFiles
      BY <1>5, ArchiveLimits
    <3> QED
      BY <3>1, <3>2, <3>3, Zenon
  <2>9. read' \in Nat /\ read' <= Len(entries')
    BY <1>1, <1>2
  <2> HIDE DEF n, e, source, fits
  <2> QED
    BY <1>1, <1>2, <1>3, <1>5, <2>3, <2>4, <2>5, <2>6, <2>7, <2>8, <2>9 DEF ArchiveInv
<1>8. CASE ~(source /\ fits /\ Archived!Readable(e))
  <2>1. results' = results
    BY <1>1, <1>8
  <2>2. \A i \in DOMAIN results' : results'[i] \in Sources(entries, n)
    BY <2>1, <1>4, <1>6
  <2>3. \A i \in 1 .. n :
          (Archived!IsSource(entries[i]) /\ Archived!Readable(entries[i]) /\ i \notin Range(results')) =>
              Size(entries, Sources(entries, i)) > MaxUnpackedSize
    <3> SUFFICES ASSUME NEW i \in 1 .. n, Archived!IsSource(entries[i]), Archived!Readable(entries[i]),
                        i \notin Range(results')
                 PROVE  Size(entries, Sources(entries, i)) > MaxUnpackedSize
      OBVIOUS
    <3>1. CASE i = n
      <4>1. ~fits
        BY <3>1, <1>8
      <4> QED
        BY <3>1, <4>1, <1>3, ArchiveLimits
    <3>2. CASE i # n
      <4>1. i \in 1 .. read /\ i \notin Range(results)
        BY <3>2, <2>1, <1>2
      <4> QED
        BY <4>1, Zenon DEF ArchiveInv
    <3> QED
      BY <3>1, <3>2
  <2>4. /\ \A i \in 1 .. Len(results) - 1 : results[i] < results[i + 1]
        /\ Size(entries, Range(results)) <= MaxUnpackedSize
    BY ZenonT(60) DEF ArchiveInv
  <2>7. reading' => (inspected' <= MaxUnpackedSize /\ Len(results') < MaxFiles)
    BY <1>1
  <2>8. (read' < Len(entries') /\ read' > 0 /\ ~reading') =>
          (Len(results') = MaxFiles \/ inspected' > MaxUnpackedSize)
    <3>1. ~reading' => (~fits \/ ~(Len(results') < MaxFiles))
      BY <1>1, Zenon
    <3>2. ~fits => inspected' > MaxUnpackedSize
      BY <1>3, ArchiveLimits
    <3>3. ~(Len(results') < MaxFiles) => Len(results') = MaxFiles
      BY <1>5, ArchiveLimits
    <3> QED
      BY <3>1, <3>2, <3>3, Zenon
  <2>9. read' \in Nat /\ read' <= Len(entries')
    BY <1>1, <1>2
  <2> HIDE DEF n, e, source, fits
  <2> QED
    BY <1>1, <1>2, <1>3, <1>5, <2>1, <2>2, <2>3, <2>4, <2>7, <2>8, <2>9 DEF ArchiveInv
<1> QED
  BY <1>7, <1>8

LEMMA ArchiveStep == ArchiveInv /\ [WorkNext]_workVars => ArchiveInv'
<1> SUFFICES ASSUME ArchiveInv, [WorkNext]_workVars PROVE ArchiveInv'
  OBVIOUS
<1>1. CASE UNCHANGED archiveVars
  BY <1>1 DEF archiveVars, ArchiveInv
<1>2. CASE Archived!Next
  BY <1>2, ArchivePack, ArchiveOpen, ArchiveRead DEF Archived!Next
<1>3. UNCHANGED archiveVars \/ Archived!Next
  BY DEF WorkNext, OthersUnchanged, workVars
<1> QED
  BY <1>1, <1>2, <1>3

-----------------------------------------------------------------------------
(* Releases: the dependencies that changed.                                *)

Manifests(r) ==
    /\ r.oldDeps \in [DOMAIN r.oldDeps -> DependencyVersions]
    /\ r.newDeps \in [DOMAIN r.newDeps -> DependencyVersions]

PredictionInv ==
    /\ DOMAIN release = {"old", "new", "changelog", "oldDeps", "newDeps"}
    /\ release.newDeps # None => Manifests(release)

LEMMA Versioned ==
    /\ \A v, w \in DependencyVersions : v.text = w.text => v = w
    /\ \A v \in DependencyVersions : v.major \in Nat /\ v.minor \in Nat /\ v.patch \in Nat
    /\ \A r \in Releases :
          /\ DOMAIN r = {"old", "new", "changelog", "oldDeps", "newDeps"}
          /\ r.newDeps # None => Manifests(r)
  BY WorkAssumption, Zenon DEF WorkAssumption, Predictions!VersionsAssumption, Manifests

\* A version that is no step up from another differs in what comes after the
\* dash only, or is a downgrade.
LEMMA NoStepUp ==
    ASSUME NEW before \in DependencyVersions, NEW after \in DependencyVersions,
           before.text = after.text
           \/ (~(after.major > before.major) /\ ~(after.minor > before.minor \/ after.patch > before.patch))
    PROVE  \/ Predictions!VersionBump(before, after) \in {"none", "preRelease"}
           \/ after.major < before.major
           \/ (after.major = before.major /\ (after.minor < before.minor \/ after.patch < before.patch))
<1>1. /\ before.major \in Nat /\ before.minor \in Nat /\ before.patch \in Nat
      /\ after.major \in Nat /\ after.minor \in Nat /\ after.patch \in Nat
  BY Versioned
<1>2. (before.major = after.major /\ before.minor = after.minor /\ before.patch = after.patch) =>
      Predictions!VersionBump(before, after) \in {"none", "preRelease"}
  BY DEF Predictions!VersionBump
<1>3. CASE before.text = after.text
  BY <1>2, <1>3, Versioned
<1>4. CASE ~(after.major > before.major) /\ ~(after.minor > before.minor \/ after.patch > before.patch)
  BY <1>1, <1>2, <1>4
<1> QED
  BY <1>3, <1>4

LEMMA PredictionInvIs == PredictionInv => Predictions!DiffPartitions
<1> SUFFICES ASSUME PredictionInv, release.newDeps # None PROVE Predictions!DiffPartitions
  BY DEF Predictions!DiffPartitions
<1> DEFINE old == release.oldDeps  new == release.newDeps
           d == Predictions!DependencyDiff(old, new)
           told == <<d.added, d.removed, d.major, d.minor>>
           moved == {n \in DOMAIN old \cap DOMAIN new : old[n].text # new[n].text}
           major == {n \in moved : new[n].major > old[n].major}
           minor == {n \in moved \ major : new[n].minor > old[n].minor \/ new[n].patch > old[n].patch}
<1>1. old \in [DOMAIN old -> DependencyVersions] /\ new \in [DOMAIN new -> DependencyVersions]
  BY DEF PredictionInv, Manifests
<1>2. /\ d.added = DOMAIN new \ DOMAIN old /\ d.removed = DOMAIN old \ DOMAIN new
      /\ d.major = major /\ d.minor = minor
  BY DEF Predictions!DependencyDiff
<1> HIDE DEF d
<1>3. /\ told[1] = d.added /\ told[2] = d.removed /\ told[3] = d.major /\ told[4] = d.minor
      /\ DOMAIN told = {1, 2, 3, 4}
  OBVIOUS
<1>4. /\ \A n : n \in major => n \in DOMAIN old /\ n \in DOMAIN new
      /\ \A n : n \in minor => n \in DOMAIN old /\ n \in DOMAIN new /\ n \notin major
  OBVIOUS
<1> HIDE DEF told
<1>5. \A i, j \in DOMAIN told : i # j => told[i] \cap told[j] = {}
  <2> HIDE DEF old, new, major, minor
  <2> QED
    BY <1>2, <1>3, <1>4
<1>6. ASSUME NEW n \in DOMAIN old \cup DOMAIN new, n \notin UNION {told[i] : i \in DOMAIN told}
      PROVE  \/ Predictions!VersionBump(old[n], new[n]) \in {"none", "preRelease"}
             \/ new[n].major < old[n].major
             \/ (new[n].major = old[n].major /\ (new[n].minor < old[n].minor \/ new[n].patch < old[n].patch))
  <2>1. n \notin d.added /\ n \notin d.removed /\ n \notin major /\ n \notin minor
    BY <1>2, <1>3, <1>6
  <2>2. n \in DOMAIN old /\ n \in DOMAIN new
    BY <1>2, <1>6, <2>1
  <2>3. old[n] \in DependencyVersions /\ new[n] \in DependencyVersions
    BY <1>1, <2>2
  <2>4. old[n].text = new[n].text
        \/ (~(new[n].major > old[n].major) /\ ~(new[n].minor > old[n].minor \/ new[n].patch > old[n].patch))
    BY <2>1, <2>2, Zenon
  <2> QED
    BY <2>3, <2>4, NoStepUp, Zenon
<1> QED
  BY <1>5, <1>6, Zenon DEF Predictions!DiffPartitions, told, d

LEMMA PredictionInit == WorkInit => PredictionInv
  BY Versioned DEF WorkInit, Predictions!Init, PredictionInv

LEMMA PredictionChange == ASSUME PredictionInv, Predictions!Change PROVE PredictionInv'
<1> DEFINE fields == {"old", "new", "changelog", "oldDeps", "newDeps"}
<1>1. DOMAIN release = fields
  BY DEF PredictionInv
<1>2. release.newDeps # None => Manifests(release)
  BY DEF PredictionInv
<1>3. CASE \E n \in DOMAIN release.newDeps \cap DOMAIN release.oldDeps :
               release.newDeps # None
               /\ release' = [release EXCEPT !.newDeps = Predictions!Restrict(@, DOMAIN @ \ {n})]
  <2>1. PICK n : /\ release.newDeps # None
                 /\ release' = [release EXCEPT !.newDeps =
                        Predictions!Restrict(release.newDeps, DOMAIN release.newDeps \ {n})]
    BY <1>3
  <2> DEFINE f == Predictions!Restrict(release.newDeps, DOMAIN release.newDeps \ {n})
  <2>2. release'.newDeps = f /\ release'.oldDeps = release.oldDeps /\ DOMAIN release' = fields
    BY <2>1, <1>1
  <2>3. release.newDeps \in [DOMAIN release.newDeps -> DependencyVersions]
    BY <2>1, <1>2 DEF Manifests
  <2>4. f \in [DOMAIN f -> DependencyVersions]
    BY <2>3 DEF Predictions!Restrict
  <2>5. release.oldDeps \in [DOMAIN release.oldDeps -> DependencyVersions]
    BY <2>1, <1>2 DEF Manifests
  <2> HIDE DEF f
  <2> QED
    BY <2>2, <2>4, <2>5 DEF PredictionInv, Manifests
<1>4. CASE \E n \in DOMAIN release.newDeps, v \in DependencyVersions :
               release.newDeps # None /\ release' = [release EXCEPT !.newDeps[n] = v]
  <2>1. PICK n \in DOMAIN release.newDeps, v \in DependencyVersions :
               release.newDeps # None /\ release' = [release EXCEPT !.newDeps[n] = v]
    BY <1>4
  <2> DEFINE f == [release.newDeps EXCEPT ![n] = v]
  <2>2. release'.newDeps = f /\ release'.oldDeps = release.oldDeps /\ DOMAIN release' = fields
    BY <2>1, <1>1
  <2>3. release.newDeps \in [DOMAIN release.newDeps -> DependencyVersions]
    BY <2>1, <1>2 DEF Manifests
  <2>4. f \in [DOMAIN f -> DependencyVersions]
    BY <2>3
  <2>5. release.oldDeps \in [DOMAIN release.oldDeps -> DependencyVersions]
    BY <2>1, <1>2 DEF Manifests
  <2> HIDE DEF f
  <2> QED
    BY <2>2, <2>4, <2>5 DEF PredictionInv, Manifests
<1>5. CASE \/ \E word : release' = [release EXCEPT !.changelog = @ \cup {word}]
           \/ release' = [release EXCEPT !.new.major = @ + 1]
  <2>1. release'.newDeps = release.newDeps /\ release'.oldDeps = release.oldDeps /\ DOMAIN release' = fields
    BY <1>5, <1>1
  <2> QED
    BY <2>1, <1>2 DEF PredictionInv, Manifests
<1> QED
  BY <1>3, <1>4, <1>5 DEF Predictions!Change

LEMMA PredictionStep == PredictionInv /\ [WorkNext]_workVars => PredictionInv'
<1> SUFFICES ASSUME PredictionInv, [WorkNext]_workVars PROVE PredictionInv'
  OBVIOUS
<1>1. CASE UNCHANGED predictionVars
  BY <1>1 DEF predictionVars, PredictionInv, Manifests
<1>2. CASE Predictions!Change
  BY <1>2, PredictionChange
<1>3. UNCHANGED predictionVars \/ Predictions!Change
  BY DEF WorkNext, OthersUnchanged, workVars
<1> QED
  BY <1>1, <1>2, <1>3

-----------------------------------------------------------------------------
(* Embeddings: each vector with its text.                                  *)

EmbedStages == {"idle", "asked", "done", "failed"}
EmbedFields == {"stage", "texts", "results", "pending", "attempt", "single", "count"}

\* What a task asks for and has: a vector is that of its text or none, and the
\* places that the model is still asked for have none.
CallOk(call) ==
    /\ DOMAIN call = EmbedFields
    /\ call.stage \in EmbedStages /\ call.texts \in Seq(EmbedTexts)
    /\ call.results \in [DOMAIN call.texts -> EmbedTexts \cup {None, Embedders!Empty}]
    /\ \A i \in DOMAIN call.texts : call.results[i] \in {call.texts[i], None, Embedders!Empty}
    /\ call.pending \subseteq DOMAIN call.texts
    /\ call.stage = "asked" => call.pending # {} /\ \A i \in call.pending : call.results[i] = None
    /\ call.stage = "done" => \A i \in DOMAIN call.texts : call.results[i] # None
    /\ call.single => Len(call.texts) = 1
    /\ (call.stage = "done" /\ call.single) => call.results = call.texts

EmbedInv ==
    /\ \A t \in DOMAIN vectors : vectors[t] = t
    /\ DOMAIN vectors \subseteq EmbedTexts
    /\ DOMAIN calls = EmbedTasks /\ \A c \in EmbedTasks : CallOk(calls[c])

LEMMA TextsGiven ==
    /\ EmbedBatches \subseteq Seq(EmbedTexts) /\ None \notin EmbedTexts /\ None # Embedders!Empty
    /\ EmbedBatchSize \in Nat \ {0} /\ MaxLength \in Nat \ {0} /\ MaxTokens \in Nat \ {0}
  BY WorkAssumption DEF WorkAssumption, Embedders!TextsAssumption

LEMMA FirstIn == \A n, places : Embedders!First(n, places) \subseteq places
  BY DEF Embedders!First

LEMMA FirstOfOne == ASSUME NEW n \in Nat \ {0} PROVE Embedders!First(n, {1}) = {1}
<1>1. \A S : Embedders!Cardinality(S) = Cardinality(S)
  BY DEF Embedders!Cardinality, Cardinality
<1>2. {j \in {1} : j <= 1} = {1} /\ Cardinality({1}) = 1
  BY FS_Singleton
<1>3. Embedders!Cardinality({j \in {1} : j <= 1}) <= n
  BY <1>1, <1>2
<1> QED
  BY <1>3 DEF Embedders!First

LEMMA EmbedInvIs == EmbedInv => Embedders!VectorsAlign
<1> SUFFICES ASSUME EmbedInv PROVE Embedders!VectorsAlign
  OBVIOUS
<1>1. \A t \in DOMAIN vectors : vectors[t] = t
  BY DEF EmbedInv
<1>2. ASSUME NEW c \in EmbedTasks
      PROVE  /\ \A i \in DOMAIN calls[c].texts :
                    calls[c].results[i] \in {calls[c].texts[i], None, Embedders!Empty}
             /\ calls[c].stage = "done" => None \notin Embedders!ToSet(calls[c].results)
             /\ (calls[c].stage = "done" /\ calls[c].single) => calls[c].results = calls[c].texts
             /\ calls[c].stage = "asked" => \A i \in calls[c].pending : calls[c].results[i] = None
  <2>1. CallOk(calls[c])
    BY DEF EmbedInv
  <2>2. calls[c].stage = "done" => None \notin Embedders!ToSet(calls[c].results)
    BY <2>1 DEF CallOk, Embedders!ToSet
  <2> QED
    BY <2>1, <2>2, Zenon DEF CallOk
<1> QED
  BY <1>1, <1>2, Zenon DEF Embedders!VectorsAlign

LEMMA EmbedInit == WorkInit => EmbedInv
<1> SUFFICES ASSUME WorkInit PROVE EmbedInv
  OBVIOUS
<1>1. vectors = [t \in {} |-> None] /\ calls = [c \in EmbedTasks |-> Embedders!Idle(0)]
  BY DEF WorkInit, Embedders!Init
<1>2. CallOk(Embedders!Idle(0))
  BY DEF CallOk, Embedders!Idle, EmbedStages, EmbedFields
<1> QED
  BY <1>1, <1>2 DEF EmbedInv

\* One task becomes what it may be, and the cache holds what it may.
LEMMA CallBecomes ==
    ASSUME EmbedInv, NEW c \in EmbedTasks, NEW call, CallOk(call), Embedders!Become(c, call),
           \A t \in DOMAIN vectors' : vectors'[t] = t, DOMAIN vectors' \subseteq EmbedTexts
    PROVE  EmbedInv'
<1>1. calls' = [calls EXCEPT ![c] = call]
  BY DEF Embedders!Become
<1>2. DOMAIN calls = EmbedTasks /\ \A d \in EmbedTasks : CallOk(calls[d])
  BY DEF EmbedInv
<1>3. DOMAIN calls' = EmbedTasks /\ \A d \in EmbedTasks : calls'[d] = IF d = c THEN call ELSE calls[d]
  BY <1>1, <1>2
<1>4. \A d \in EmbedTasks : CallOk(calls'[d])
  BY <1>2, <1>3
<1>5. \A d \in EmbedTasks : CallOk(calls[d])'
  BY <1>4 DEF CallOk, Embedders!Empty
<1> QED
  BY <1>3, <1>5 DEF EmbedInv

LEMMA EmbedAsk ==
    ASSUME EmbedInv, NEW c \in EmbedTasks, NEW texts \in Seq(EmbedTexts), NEW single \in BOOLEAN,
           single => Len(texts) = 1, Embedders!Ask(c, texts, single)
    PROVE  EmbedInv'
<1> DEFINE unknown == {i \in DOMAIN texts : texts[i] \notin DOMAIN vectors}
           had == [i \in DOMAIN texts |-> IF texts[i] \in DOMAIN vectors THEN vectors[texts[i]] ELSE None]
           call == [stage |-> IF unknown = {} THEN "done" ELSE "asked", texts |-> texts,
                    results |-> had, pending |-> unknown, attempt |-> 0, single |-> single,
                    count |-> calls[c].count + 1]
<1>1. vectors' = vectors /\ Embedders!Become(c, call)
  BY DEF Embedders!Ask
<1>2. (\A t \in DOMAIN vectors : vectors[t] = t) /\ DOMAIN vectors \subseteq EmbedTexts
  BY DEF EmbedInv
<1>3. \A i \in DOMAIN texts : texts[i] \in EmbedTexts
  OBVIOUS
<1>4. \A i \in DOMAIN texts : had[i] = IF i \in unknown THEN None ELSE texts[i]
  BY <1>2
<1>5. /\ had \in [DOMAIN texts -> EmbedTexts \cup {None, Embedders!Empty}]
      /\ unknown \subseteq DOMAIN texts /\ DOMAIN had = DOMAIN texts
  BY <1>2, <1>3
<1>6. unknown = {} => had = texts
  <2>1. texts = [i \in DOMAIN texts |-> texts[i]]
    OBVIOUS
  <2>2. ASSUME unknown = {} PROVE \A i \in DOMAIN texts : had[i] = texts[i]
    BY <1>4, <2>2
  <2> HIDE DEF unknown
  <2>3. ASSUME unknown = {} PROVE [i \in DOMAIN texts |-> IF texts[i] \in DOMAIN vectors THEN vectors[texts[i]] ELSE None]
                                  = [i \in DOMAIN texts |-> texts[i]]
    BY <2>2, <2>3
  <2> QED
    BY <2>1, <2>3
<1> HIDE DEF unknown, had
<1>7. /\ DOMAIN call = EmbedFields /\ call.stage \in EmbedStages
      /\ call.texts = texts /\ call.results = had /\ call.pending = unknown /\ call.single = single
      /\ call.stage = "asked" => unknown # {}
      /\ call.stage = "done" => unknown = {}
  BY DEF EmbedFields, EmbedStages
<1> HIDE DEF call
<1>8. CallOk(call)
  <2>1. call.results \in [DOMAIN call.texts -> EmbedTexts \cup {None, Embedders!Empty}]
    BY <1>5, <1>7
  <2>2. \A i \in DOMAIN call.texts : call.results[i] \in {call.texts[i], None, Embedders!Empty}
    BY <1>4, <1>7
  <2>3. call.stage = "asked" => call.pending # {} /\ \A i \in call.pending : call.results[i] = None
    BY <1>4, <1>5, <1>7
  <2>4. call.stage = "done" => \A i \in DOMAIN call.texts : call.results[i] # None
    BY <1>3, <1>4, <1>7, TextsGiven
  <2> QED
    BY <2>1, <2>2, <2>3, <2>4, <1>5, <1>6, <1>7 DEF CallOk
<1> QED
  BY <1>1, <1>2, <1>8, CallBecomes

LEMMA EmbedRetry == ASSUME EmbedInv, NEW c \in EmbedTasks, Embedders!Retry(c) PROVE EmbedInv'
<1> DEFINE call == [calls[c] EXCEPT !.attempt = @ + 1]
<1>1. vectors' = vectors /\ Embedders!Become(c, call)
  BY DEF Embedders!Retry
<1>2. CallOk(calls[c]) /\ (\A t \in DOMAIN vectors : vectors[t] = t) /\ DOMAIN vectors \subseteq EmbedTexts
  BY DEF EmbedInv
<1>3. /\ DOMAIN call = EmbedFields /\ call.stage = calls[c].stage /\ call.texts = calls[c].texts
      /\ call.results = calls[c].results /\ call.pending = calls[c].pending /\ call.single = calls[c].single
  BY <1>2 DEF CallOk, EmbedFields
<1> HIDE DEF call
<1>4. CallOk(call)
  BY <1>2, <1>3 DEF CallOk
<1> QED
  BY <1>1, <1>2, <1>4, CallBecomes

LEMMA EmbedFail == ASSUME EmbedInv, NEW c \in EmbedTasks, Embedders!Fail(c) PROVE EmbedInv'
<1> DEFINE call == [calls[c] EXCEPT !.stage = "failed"]
<1>1. vectors' = vectors /\ Embedders!Become(c, call)
  BY DEF Embedders!Fail
<1>2. CallOk(calls[c]) /\ (\A t \in DOMAIN vectors : vectors[t] = t) /\ DOMAIN vectors \subseteq EmbedTexts
  BY DEF EmbedInv
<1>3. /\ DOMAIN call = EmbedFields /\ call.stage = "failed" /\ call.texts = calls[c].texts
      /\ call.results = calls[c].results /\ call.pending = calls[c].pending /\ call.single = calls[c].single
  BY <1>2 DEF CallOk, EmbedFields
<1> HIDE DEF call
<1>4. CallOk(call)
  BY <1>2, <1>3 DEF CallOk, EmbedStages
<1> QED
  BY <1>1, <1>2, <1>4, CallBecomes

LEMMA EmbedKept ==
    ASSUME EmbedInv, NEW call, NEW kept \in Embedders!Evicted(call)
    PROVE  /\ \A t \in DOMAIN kept : kept[t] = t
           /\ DOMAIN kept \subseteq EmbedTexts
  BY DEF EmbedInv, Embedders!Evicted, Embedders!Restrict

LEMMA EmbedAnswer ==
    ASSUME EmbedInv, NEW c \in EmbedTasks, NEW n \in 0 .. EmbedBatchSize, Embedders!Answer(c, n)
    PROVE  EmbedInv'
<1> DEFINE old == calls[c]
           chunk == Embedders!Chunk(old)
           rest == old.pending \ chunk
           answered == Embedders!First(n, chunk)
           known == Embedders!Insert(old, n)
           call == [known EXCEPT !.pending = rest, !.attempt = 0,
                     !.stage = IF rest = {} THEN "done" ELSE "asked",
                     !.results = [i \in DOMAIN @ |->
                         IF rest = {} /\ @[i] = None THEN Embedders!Empty ELSE @[i]]]
<1>1. PICK kept \in Embedders!Evicted(old) :
          vectors' = [t \in {old.texts[i] : i \in answered} \cup DOMAIN kept |->
                         IF t \in {old.texts[i] : i \in answered} THEN t ELSE kept[t]]
  BY DEF Embedders!Answer
<1>2. Embedders!Become(c, call) /\ old.stage = "asked" /\ (old.single => n = 1)
  BY DEF Embedders!Answer
<1>3. /\ DOMAIN old = EmbedFields /\ old.texts \in Seq(EmbedTexts)
      /\ old.results \in [DOMAIN old.texts -> EmbedTexts \cup {None, Embedders!Empty}]
      /\ \A i \in DOMAIN old.texts : old.results[i] \in {old.texts[i], None, Embedders!Empty}
      /\ old.pending \subseteq DOMAIN old.texts /\ old.pending # {}
      /\ \A i \in old.pending : old.results[i] = None
      /\ old.single => Len(old.texts) = 1
  BY <1>2 DEF EmbedInv, CallOk
<1>4. chunk \subseteq old.pending /\ answered \subseteq chunk
  BY FirstIn DEF Embedders!Chunk
<1> HIDE DEF old, chunk, answered
<1>5. /\ DOMAIN known = EmbedFields /\ known.texts = old.texts /\ known.single = old.single
      /\ known.results = [i \in DOMAIN old.results |->
             IF i \in Embedders!First(n, Embedders!Chunk(old)) THEN old.texts[i] ELSE old.results[i]]
  BY <1>3 DEF Embedders!Insert, EmbedFields
<1>6. known.results = [i \in DOMAIN old.texts |-> IF i \in answered THEN old.texts[i] ELSE old.results[i]]
  BY <1>3, <1>5 DEF answered, chunk
<1> DEFINE had == [i \in DOMAIN old.texts |->
                 IF rest = {} /\ known.results[i] = None THEN Embedders!Empty ELSE known.results[i]]
<1> HIDE DEF known
<1>7. DOMAIN known.results = DOMAIN old.texts
  BY <1>6
<1>8. /\ DOMAIN call = EmbedFields /\ call.texts = old.texts /\ call.single = old.single /\ call.pending = rest
      /\ call.stage = IF rest = {} THEN "done" ELSE "asked"
      /\ call.results = had
  BY <1>5, <1>7 DEF EmbedFields
<1> HIDE DEF call
<1>9. \A i \in DOMAIN old.texts :
          /\ old.texts[i] \in EmbedTexts
          /\ known.results[i] = IF i \in answered THEN old.texts[i] ELSE old.results[i]
          /\ had[i] = IF rest = {} /\ known.results[i] = None THEN Embedders!Empty ELSE known.results[i]
  BY <1>3, <1>6
<1>10. had \in [DOMAIN old.texts -> EmbedTexts \cup {None, Embedders!Empty}]
  BY <1>3, <1>9
<1>11. \A i \in DOMAIN old.texts : had[i] \in {old.texts[i], None, Embedders!Empty}
  BY <1>3, <1>9
<1>12. rest # {} => \A i \in rest : had[i] = None
  BY <1>3, <1>4, <1>9
<1>13. rest = {} => \A i \in DOMAIN old.texts : had[i] # None
  BY <1>9, TextsGiven
<1>14. (rest = {} /\ old.single) => had = old.texts
  <2> SUFFICES ASSUME rest = {}, old.single PROVE had = old.texts
    OBVIOUS
  <2>1. n = 1 /\ Len(old.texts) = 1 /\ DOMAIN old.texts = {1}
    <3>1. n = 1 /\ Len(old.texts) = 1
      BY <1>2, <1>3 DEF old
    <3>2. \A q \in Seq(EmbedTexts) : Len(q) = 1 => DOMAIN q = {1}
      OBVIOUS
    <3> QED
      BY <3>1, <3>2, <1>3
  <2>2. old.pending = {1}
    BY <2>1, <1>3
  <2>3. chunk = {1} /\ answered = {1}
    <3>1. chunk = {1}
      <4>1. chunk = Embedders!First(EmbedBatchSize, {1})
        BY <2>2, Zenon DEF chunk, Embedders!Chunk
      <4>2. EmbedBatchSize \in Nat \ {0}
        BY TextsGiven
      <4> QED
        BY <4>1, <4>2, FirstOfOne, Zenon
    <3>2. answered = Embedders!First(1, {1})
      BY <2>1, <3>1, Zenon DEF answered
    <3>3. 1 \in Nat \ {0}
      OBVIOUS
    <3> QED
      BY <3>1, <3>2, <3>3, FirstOfOne, Zenon
  <2>4. had[1] = old.texts[1]
    BY <2>1, <2>3, <1>9, TextsGiven
  <2> HIDE DEF had
  <2>5. had \in [{1} -> EmbedTexts \cup {None, Embedders!Empty}] /\ old.texts \in [{1} -> EmbedTexts]
    BY <2>1, <1>3, <1>10
  <2> QED
    BY <2>4, <2>5
<1> HIDE DEF rest, had
<1>15. rest \subseteq DOMAIN old.texts
  BY <1>3 DEF rest
<1>16. CallOk(call)
  BY <1>3, <1>8, <1>10, <1>11, <1>12, <1>13, <1>14, <1>15 DEF CallOk, EmbedStages
<1>17. (\A t \in DOMAIN vectors' : vectors'[t] = t) /\ DOMAIN vectors' \subseteq EmbedTexts
  <2>1. (\A t \in DOMAIN kept : kept[t] = t) /\ DOMAIN kept \subseteq EmbedTexts
    BY EmbedKept
  <2>2. {old.texts[i] : i \in answered} \subseteq EmbedTexts
    BY <1>3, <1>4
  <2> QED
    BY <2>1, <2>2, <1>1
<1> QED
  BY <1>2, <1>16, <1>17, CallBecomes

LEMMA EmbedStep == EmbedInv /\ [WorkNext]_workVars => EmbedInv'
<1> SUFFICES ASSUME EmbedInv, [WorkNext]_workVars PROVE EmbedInv'
  OBVIOUS
<1>1. CASE UNCHANGED embedderVars
  BY <1>1 DEF embedderVars, EmbedInv, CallOk, Embedders!Empty
<1>2. CASE Embedders!Next
  <2>1. ASSUME NEW c \in EmbedTasks, NEW t \in EmbedTexts, Embedders!Ask(c, <<t>>, TRUE) PROVE EmbedInv'
    <3>1. <<t>> \in Seq(EmbedTexts) /\ Len(<<t>>) = 1
      OBVIOUS
    <3> QED
      BY <2>1, <3>1, EmbedAsk
  <2>2. ASSUME NEW c \in EmbedTasks, NEW texts \in EmbedBatches, Embedders!Ask(c, texts, FALSE) PROVE EmbedInv'
    BY <2>2, TextsGiven, EmbedAsk
  <2> QED
    BY <1>2, <2>1, <2>2, EmbedRetry, EmbedFail, EmbedAnswer DEF Embedders!Next
<1>3. UNCHANGED embedderVars \/ Embedders!Next
  BY DEF WorkNext, OthersUnchanged, workVars
<1> QED
  BY <1>1, <1>2, <1>3

-----------------------------------------------------------------------------
(* The model: a text is embedded alike in any batch.                       *)

ModelInv ==
    /\ batch \in Seq(Seq(TextTokens))
    /\ \A i \in DOMAIN batch : Len(batch[i]) \in 1 .. MaxTokens
    /\ Embedders!DefaultRegistered

LEMMA LeastNat ==
    ASSUME NEW S \in SUBSET Nat, S # {}
    PROVE  \E n \in S : \A m \in S : n <= m
<1>1. PICK n \in S : \A m \in S : <<m, n>> \notin OpToRel(<, Nat)
  BY NatLessThanWellFounded, WFMin, Zenon
<1>2. \A m \in S : ~(m < n)
  BY <1>1, Zenon DEF OpToRel
<1> QED
  BY <1>2

LEMMA GreatestNat ==
    ASSUME NEW S \in SUBSET Nat, S # {}, NEW b \in Nat, \A n \in S : n <= b
    PROVE  \E n \in S : \A m \in S : n >= m
<1> DEFINE B == {k \in Nat : \A n \in S : n <= k}
<1>1. b \in B /\ B \in SUBSET Nat
  OBVIOUS
<1>2. PICK k \in B : \A l \in B : k <= l
  BY <1>1, LeastNat
<1>3. k \in Nat /\ (\A n \in S : n <= k) /\ \A n \in S : n \in Nat
  OBVIOUS
<1>4. k \in S
  <2> SUFFICES ASSUME k \notin S PROVE FALSE
    OBVIOUS
  <2>1. \A n \in S : n < k /\ n \in Nat
    BY <1>3
  <2>4. PICK n \in S : n < k /\ n \in Nat
    BY <2>1
  <2>2. k - 1 \in Nat /\ \A m \in S : m <= k - 1
    BY <2>1, <2>4, <1>3
  <2>3. k - 1 \in B
    BY <2>2
  <2> QED
    BY <2>3, <1>2, <1>3
<1> QED
  BY <1>3, <1>4

LEMMA MaxIs ==
    ASSUME NEW S \in SUBSET Nat, S # {}, NEW b \in Nat, \A n \in S : n <= b
    PROVE  Embedders!Max(S) \in S /\ \A m \in S : Embedders!Max(S) >= m
<1>1. \E n \in S : \A m \in S : n >= m
  BY GreatestNat
<1> QED
  BY <1>1, Zenon DEF Embedders!Max
\* The length of a batch is no less than what any of its texts is cut to.
LEMMA LengthOfBatch ==
    ASSUME NEW texts \in Seq(Seq(TextTokens)), NEW b \in Nat, \A j \in DOMAIN texts : Len(texts[j]) <= b,
           NEW i \in DOMAIN texts
    PROVE  LET length == Embedders!MaxLen(texts)
           IN  /\ length \in Nat /\ length <= MaxLength
               /\ Embedders!Smaller(Len(texts[i]), length) = Embedders!Smaller(Len(texts[i]), MaxLength)
<1> DEFINE S == {Len(t) : t \in Embedders!ToSet(texts)}
<1>1. \A j \in DOMAIN texts : texts[j] \in Seq(TextTokens) /\ Len(texts[j]) \in Nat
  OBVIOUS
<1>2. \A n : n \in S <=> \E j \in DOMAIN texts : n = Len(texts[j])
  BY DEF Embedders!ToSet
<1> DEFINE m == Embedders!Max(S)
<1>3. Embedders!MaxLen(texts) = Embedders!Smaller(m, MaxLength)
  BY Zenon DEF Embedders!MaxLen
<1> HIDE DEF S
<1>4. S \in SUBSET Nat /\ S # {} /\ (\A n \in S : n <= b) /\ Len(texts[i]) \in S
  BY <1>1, <1>2
<1>5. m \in S /\ \A n \in S : m >= n
  BY <1>4, MaxIs
<1> HIDE DEF m
<1>6. m \in Nat /\ Len(texts[i]) \in Nat /\ Len(texts[i]) <= m /\ MaxLength \in Nat
  BY <1>4, <1>5, WorkAssumption DEF WorkAssumption, Embedders!TextsAssumption
<1> QED
  BY <1>3, <1>6 DEF Embedders!Smaller

\* What is made of the places that are attended to counts, and nothing else.
LEMMA PoolingSame ==
    ASSUME NEW strategy \in Embedders!Strategies, NEW m \in Nat \ {0},
           NEW g, NEW h, NEW p, NEW q,
           m \in Nat \ {0}, {j \in DOMAIN g : p[j]} = 1 .. m, {j \in DOMAIN h : q[j]} = 1 .. m,
           \A j \in 1 .. m : g[j] = h[j]
    PROVE  Embedders!ApplyPooling(strategy, g, p) = Embedders!ApplyPooling(strategy, h, q)
<1> DEFINE last(n) == {j \in 1 .. m : Embedders!Cardinality({k \in 1 .. m : k >= j}) <= n}
<1>1. ASSUME NEW js \in SUBSET (1 .. m) PROVE Embedders!Mean(g, js) = Embedders!Mean(h, js)
  <2>1. [j \in js |-> g[j]] = [j \in js |-> h[j]]
    OBVIOUS
  <2> QED
    BY <2>1, Zenon DEF Embedders!Mean
<1>2. g[1] = h[1]
  OBVIOUS
<1>3. {g[j] : j \in 1 .. m} = {h[j] : j \in 1 .. m}
  OBVIOUS
<1>4. last(1) \in SUBSET (1 .. m) /\ last(2) \in SUBSET (1 .. m) /\ 1 .. m \in SUBSET (1 .. m)
  OBVIOUS
<1>5. CASE strategy = "mean"
  <2>1. Embedders!ApplyPooling(strategy, g, p) = Embedders!Mean(g, 1 .. m)
    BY <1>5 DEF Embedders!ApplyPooling
  <2>2. Embedders!ApplyPooling(strategy, h, q) = Embedders!Mean(h, 1 .. m)
    BY <1>5 DEF Embedders!ApplyPooling
  <2> QED
    BY <2>1, <2>2, <1>1, <1>4
<1>6. CASE strategy = "cls"
  <2>1. Embedders!ApplyPooling(strategy, g, p) = <<g[1], 1>>
    BY <1>6 DEF Embedders!ApplyPooling
  <2>2. Embedders!ApplyPooling(strategy, h, q) = <<h[1], 1>>
    BY <1>6 DEF Embedders!ApplyPooling
  <2> QED
    BY <2>1, <2>2, <1>2
<1>7. CASE strategy = "max"
  <2>1. Embedders!ApplyPooling(strategy, g, p) = <<Embedders!Max({g[j] : j \in 1 .. m}), 1>>
    BY <1>7 DEF Embedders!ApplyPooling
  <2>2. Embedders!ApplyPooling(strategy, h, q) = <<Embedders!Max({h[j] : j \in 1 .. m}), 1>>
    BY <1>7 DEF Embedders!ApplyPooling
  <2> QED
    BY <2>1, <2>2, <1>3
<1>8. CASE strategy = "last1"
  <2>1. Embedders!ApplyPooling(strategy, g, p) = Embedders!Mean(g, last(1))
    BY <1>8 DEF Embedders!ApplyPooling
  <2>2. Embedders!ApplyPooling(strategy, h, q) = Embedders!Mean(h, last(1))
    BY <1>8 DEF Embedders!ApplyPooling
  <2> QED
    BY <2>1, <2>2, <1>1, <1>4
<1>9. CASE strategy = "last2"
  <2>1. Embedders!ApplyPooling(strategy, g, p) = Embedders!Mean(g, last(2))
    BY <1>9 DEF Embedders!ApplyPooling
  <2>2. Embedders!ApplyPooling(strategy, h, q) = Embedders!Mean(h, last(2))
    BY <1>9 DEF Embedders!ApplyPooling
  <2> QED
    BY <2>1, <2>2, <1>1, <1>4
<1> QED
  BY <1>5, <1>6, <1>7, <1>8, <1>9 DEF Embedders!Strategies

\* What a text is pooled to, brought to any length that cuts it as the greatest
\* length does, is told by what it is cut to.
LEMMA PooledByCut ==
    ASSUME NEW strategy \in Embedders!Strategies,
           NEW t \in Seq(TextTokens), NEW k \in Nat, NEW u \in Seq(TextTokens), NEW l \in Nat,
           Len(t) > 0, Len(u) > 0, k <= MaxLength, l <= MaxLength,
           Embedders!Smaller(Len(t), k) = Embedders!Smaller(Len(t), MaxLength),
           Embedders!Smaller(Len(u), l) = Embedders!Smaller(Len(u), MaxLength),
           Embedders!Cut(t, MaxLength) = Embedders!Cut(u, MaxLength)
    PROVE  Embedders!ApplyPooling(strategy, Embedders!Hidden(t, k), Embedders!AttentionMask(t, k))
           = Embedders!ApplyPooling(strategy, Embedders!Hidden(u, l), Embedders!AttentionMask(u, l))
<1> DEFINE c == Embedders!Cut(t, MaxLength)
           m == Embedders!Smaller(Len(t), MaxLength)
           made == [j \in 1 .. m |-> 10 * c[j] + Embedders!Context(c)]
<1>1. MaxLength \in Nat \ {0} /\ Len(t) \in Nat /\ Len(u) \in Nat
  BY WorkAssumption DEF WorkAssumption, Embedders!TextsAssumption
<1>2. ASSUME NEW s \in Seq(TextTokens), Len(s) > 0, NEW n \in Nat, n <= MaxLength,
             Embedders!Smaller(Len(s), n) = Embedders!Smaller(Len(s), MaxLength),
             Embedders!Cut(s, MaxLength) = c
      PROVE  /\ m = Embedders!Smaller(Len(s), MaxLength) /\ m \in Nat \ {0}
             /\ {j \in DOMAIN Embedders!Hidden(s, n) : Embedders!AttentionMask(s, n)[j]} = 1 .. m
             /\ \A j \in 1 .. m : Embedders!Hidden(s, n)[j] = 10 * c[j] + Embedders!Context(c)
  <2>1. \A q \in Seq(TextTokens) : Len(q) > 0 =>
            /\ Embedders!Smaller(Len(q), MaxLength) \in Nat \ {0}
            /\ Embedders!Smaller(Len(q), MaxLength) <= Len(q)
    BY <1>1 DEF Embedders!Smaller
  <2>2. \A q \in Seq(TextTokens), b \in Nat : b <= Len(q) => Len(SubSeq(q, 1, b)) = b
    <3> SUFFICES ASSUME NEW q \in Seq(TextTokens), NEW b \in Nat, b <= Len(q) PROVE Len(SubSeq(q, 1, b)) = b
      OBVIOUS
    <3>1. \A i \in 1 .. b : q[i] \in TextTokens
      OBVIOUS
    <3>2. Len(SubSeq(q, 1, b)) = IF 1 <= b THEN b - 1 + 1 ELSE 0
      BY <3>1, SubSeqProperties
    <3> QED
      BY <3>2
  <2>3. \A q \in Seq(TextTokens) : Len(q) > 0 => Len(Embedders!Cut(q, MaxLength)) = Embedders!Smaller(Len(q), MaxLength)
    BY <2>1, <2>2 DEF Embedders!Cut
  <2>4. m = Embedders!Smaller(Len(s), MaxLength) /\ Len(c) = m /\ m \in Nat \ {0}
    BY <2>1, <2>3, <1>2
  <2>5. Embedders!Cut(s, n) = c
    BY <1>2, Zenon DEF Embedders!Cut
  <2>6. Embedders!Hidden(s, n) =
            [j \in 1 .. n |-> IF j <= Len(c) THEN 10 * c[j] + Embedders!Context(c) ELSE Junk]
    BY <2>5, Zenon DEF Embedders!Hidden
  <2> HIDE DEF c, m
  <2>7. m = Embedders!Smaller(Len(s), n) /\ Len(s) \in Nat
    BY <2>4, <1>2
  <2>8. m <= n /\ m <= Len(s) /\ \A j \in Nat : (j <= n /\ j <= Len(s)) => j <= m
    BY <2>7, <1>2 DEF Embedders!Smaller
  <2>9. {j \in 1 .. n : Embedders!AttentionMask(s, n)[j]} = 1 .. m
    <3>1. \A j \in 1 .. n : Embedders!AttentionMask(s, n)[j] <=> j <= Len(s)
      BY Zenon DEF Embedders!AttentionMask
    <3>2. \A j : (j \in 1 .. n /\ j <= Len(s)) <=> j \in 1 .. m
      BY <2>4, <2>7, <2>8, <1>2
    <3>3. \A j : j \in {z \in 1 .. n : Embedders!AttentionMask(s, n)[z]} <=> j \in 1 .. m
      BY <3>1, <3>2, Zenon
    <3> QED
      BY <3>3, Zenon
  <2>10. DOMAIN Embedders!Hidden(s, n) = 1 .. n
    BY <2>6
  <2>11. \A j \in 1 .. m : Embedders!Hidden(s, n)[j] = 10 * c[j] + Embedders!Context(c)
    <3> SUFFICES ASSUME NEW j \in 1 .. m PROVE Embedders!Hidden(s, n)[j] = 10 * c[j] + Embedders!Context(c)
      OBVIOUS
    <3>1. j \in 1 .. n /\ j <= Len(c)
      BY <2>4, <2>8
    <3> QED
      BY <3>1, <2>6
  <2> QED
    BY <2>4, <2>9, <2>10, <2>11
<1> DEFINE g == Embedders!Hidden(t, k)  p == Embedders!AttentionMask(t, k)
           h == Embedders!Hidden(u, l)  q == Embedders!AttentionMask(u, l)
<1>3. /\ m \in Nat \ {0} /\ {j \in DOMAIN g : p[j]} = 1 .. m
      /\ \A j \in 1 .. m : g[j] = 10 * c[j] + Embedders!Context(c)
  BY <1>2
<1>4. /\ {j \in DOMAIN h : q[j]} = 1 .. m
      /\ \A j \in 1 .. m : h[j] = 10 * c[j] + Embedders!Context(c)
  BY <1>2
<1> HIDE DEF m, c, g, h, p, q
<1>5. \A j \in 1 .. m : g[j] = h[j]
  BY <1>3, <1>4
<1>6. Embedders!ApplyPooling(strategy, g, p) = Embedders!ApplyPooling(strategy, h, q)
  BY SMTT(60), <1>3, <1>4, <1>5, PoolingSame
<1> QED
  BY <1>6 DEF g, h, p, q

LEMMA ModelInvIs == ModelInv => Embedders!BatchIndependent
<1> SUFFICES ASSUME ModelInv, NEW strategy \in Embedders!Strategies, batch # <<>>,
                    NEW i \in DOMAIN batch, NEW j \in DOMAIN batch
             PROVE  /\ Embedders!EmbedBatch(strategy, batch)[i] = Embedders!Embed(strategy, batch[i])
                    /\ Embedders!Cut(batch[i], MaxLength) = Embedders!Cut(batch[j], MaxLength) =>
                          Embedders!EmbedBatch(strategy, batch)[i] = Embedders!EmbedBatch(strategy, batch)[j]
  BY Zenon DEF Embedders!BatchIndependent
<1> DEFINE length == Embedders!MaxLen(batch)
           pooled(t, n) ==
              Embedders!ApplyPooling(strategy, Embedders!Hidden(t, n), Embedders!AttentionMask(t, n))
<1>1. /\ batch \in Seq(Seq(TextTokens)) /\ MaxTokens \in Nat
      /\ \A n \in DOMAIN batch : batch[n] \in Seq(TextTokens) /\ Len(batch[n]) > 0 /\ Len(batch[n]) <= MaxTokens
  BY WorkAssumption DEF ModelInv, WorkAssumption, Embedders!TextsAssumption
<1>2. \A n \in DOMAIN batch :
          /\ length \in Nat /\ length <= MaxLength
          /\ Embedders!Smaller(Len(batch[n]), length) = Embedders!Smaller(Len(batch[n]), MaxLength)
  BY <1>1, LengthOfBatch
<1>3. \A n \in DOMAIN batch : Embedders!EmbedBatch(strategy, batch)[n] = pooled(batch[n], length)
  BY DEF Embedders!EmbedBatch
<1> DEFINE one == <<batch[i]>>  own == Embedders!MaxLen(one)
<1>4. one \in Seq(Seq(TextTokens)) /\ DOMAIN one = {1} /\ one[1] = batch[i]
  BY <1>1
<1>5. /\ own \in Nat /\ own <= MaxLength
      /\ Embedders!Smaller(Len(batch[i]), own) = Embedders!Smaller(Len(batch[i]), MaxLength)
  <2> HIDE DEF one
  <2>1. \A n \in DOMAIN one : Len(one[n]) <= MaxTokens
    BY <1>1, <1>4
  <2> QED
    BY <1>1, <1>4, <2>1, LengthOfBatch
<1>6. Embedders!Embed(strategy, batch[i]) = pooled(batch[i], own)
  BY <1>4 DEF Embedders!Embed, Embedders!EmbedBatch
<1> HIDE DEF length, one, own
<1>7. pooled(batch[i], length) = pooled(batch[i], own)
  BY <1>1, <1>2, <1>5, PooledByCut
<1>8. Embedders!Cut(batch[i], MaxLength) = Embedders!Cut(batch[j], MaxLength) =>
          pooled(batch[i], length) = pooled(batch[j], length)
  BY <1>1, <1>2, PooledByCut
<1> QED
  BY <1>3, <1>6, <1>7, <1>8, Zenon

LEMMA ModelInit == WorkInit => ModelInv
  BY DEF WorkInit, Embedders!ModelInit, ModelInv, Embedders!DefaultRegistered

LEMMA ModelStep == ModelInv /\ [WorkNext]_workVars => ModelInv'
<1> SUFFICES ASSUME ModelInv, [WorkNext]_workVars PROVE ModelInv'
  OBVIOUS
<1>1. CASE UNCHANGED modelVars
  BY <1>1 DEF modelVars, ModelInv, Embedders!DefaultRegistered
<1>2. CASE Embedders!Prepare
  <2>1. models' = models /\ default' = default /\ Embedders!DefaultRegistered
    BY <1>2 DEF Embedders!Prepare, ModelInv
  <2>2. MaxTokens \in Nat \ {0}
    BY WorkAssumption DEF WorkAssumption, Embedders!TextsAssumption
  <2>3. /\ batch \in Seq(Seq(TextTokens)) /\ DOMAIN batch = 1 .. Len(batch) /\ Len(batch) \in Nat
        /\ \A i \in DOMAIN batch : batch[i] \in Seq(TextTokens) /\ Len(batch[i]) \in 1 .. MaxTokens
    BY DEF ModelInv
  <2>4. CASE \E x \in TextTokens : batch' = Append(batch, <<x>>)
    <3>1. PICK x \in TextTokens : batch' = Append(batch, <<x>>)
      BY <2>4
    <3>2. <<x>> \in Seq(TextTokens) /\ Len(<<x>>) = 1
      OBVIOUS
    <3>3. /\ batch' \in Seq(Seq(TextTokens))
          /\ \A i \in DOMAIN batch' : batch'[i] = <<x>> \/ (i \in DOMAIN batch /\ batch'[i] = batch[i])
      BY <3>1, <3>2, <2>3
    <3>4. \A i \in DOMAIN batch' : Len(batch'[i]) \in 1 .. MaxTokens
      <4>1. Len(<<x>>) \in 1 .. MaxTokens
        BY <3>2, <2>2
      <4> QED
        BY <4>1, <3>3, <2>3, Zenon
    <3> QED
      BY <3>3, <3>4, <2>1 DEF ModelInv, Embedders!DefaultRegistered
  <2>5. CASE \E x \in TextTokens :
               /\ batch # <<>> /\ Len(Embedders!Last(batch)) < MaxTokens
               /\ batch' = [batch EXCEPT ![Len(batch)] = Append(@, x)]
    <3>1. PICK x \in TextTokens :
               /\ batch # <<>> /\ Len(Embedders!Last(batch)) < MaxTokens
               /\ batch' = [batch EXCEPT ![Len(batch)] = Append(@, x)]
      BY <2>5
    <3> DEFINE n == Len(batch)  t == Append(batch[n], x)
    <3>2. n \in DOMAIN batch /\ batch[n] \in Seq(TextTokens) /\ Len(batch[n]) < MaxTokens /\ Len(batch[n]) \in Nat
      BY <3>1, <2>3 DEF Embedders!Last
    <3>3. t \in Seq(TextTokens) /\ Len(t) = Len(batch[n]) + 1
      BY <3>2
    <3>4. batch' = [batch EXCEPT ![n] = t]
      BY <3>1
    <3> HIDE DEF n, t
    <3>5. /\ batch' \in Seq(Seq(TextTokens))
          /\ \A i \in DOMAIN batch' : i \in DOMAIN batch /\ batch'[i] = IF i = n THEN t ELSE batch[i]
      <4>1. n \in 1 .. Len(batch)
        BY <3>2, <2>3
      <4>2. /\ [batch EXCEPT ![n] = t] \in Seq(Seq(TextTokens))
            /\ Len([batch EXCEPT ![n] = t]) = Len(batch)
            /\ \A j \in 1 .. Len(batch) : [batch EXCEPT ![n] = t][j] = IF j = n THEN t ELSE batch[j]
        BY <4>1, <3>3, <2>3, ExceptSeq
      <4>3. DOMAIN batch' = DOMAIN batch
        BY <3>4
      <4> QED
        BY <4>2, <4>3, <3>4, <2>3
    <3>6. Len(t) \in 1 .. MaxTokens
      BY <3>2, <3>3, <2>2
    <3>7. \A i \in DOMAIN batch' : Len(batch'[i]) \in 1 .. MaxTokens
      BY <3>5, <3>6, <2>3
    <3> QED
      BY <3>5, <3>7, <2>1 DEF ModelInv, Embedders!DefaultRegistered
  <2> QED
    BY <1>2, <2>4, <2>5 DEF Embedders!Prepare
<1>3. CASE Embedders!Run
  BY <1>3 DEF Embedders!Run, ModelInv, Embedders!DefaultRegistered
<1>4. ASSUME NEW name \in ModelNames, NEW loads \in BOOLEAN, Embedders!Register(name, loads) PROVE ModelInv'
  BY <1>4 DEF Embedders!Register, ModelInv, Embedders!DefaultRegistered
<1>5. UNCHANGED modelVars \/ Embedders!ModelNext
  BY DEF WorkNext, OthersUnchanged, workVars
<1> QED
  BY <1>1, <1>2, <1>3, <1>4, <1>5 DEF Embedders!ModelNext

-----------------------------------------------------------------------------
(* The audit trail: entries in order.                                      *)

LEMMA SeqsOf ==
    ASSUME NEW S, NEW q \in Seq(S)
    PROVE  /\ Len(q) \in Nat /\ DOMAIN q = 1 .. Len(q)
           /\ \A e \in S : /\ Append(q, e) \in Seq(S) /\ Len(Append(q, e)) = Len(q) + 1
                           /\ Append(q, e)[Len(q) + 1] = e
                           /\ \A i \in DOMAIN q : Append(q, e)[i] = q[i]
           /\ q # <<>> => /\ Tail(q) \in Seq(S) /\ Head(q) \in S /\ Head(q) = q[1]
                          /\ Len(Tail(q)) = Len(q) - 1 /\ Len(q) > 0
                          /\ \A i \in 1 .. Len(q) - 1 : Tail(q)[i] = q[i + 1]
<1>1. Len(q) \in Nat /\ DOMAIN q = 1 .. Len(q)
  OBVIOUS
<1>2. \A e \in S : /\ Append(q, e) \in Seq(S) /\ Len(Append(q, e)) = Len(q) + 1
                   /\ Append(q, e)[Len(q) + 1] = e
                   /\ \A i \in DOMAIN q : Append(q, e)[i] = q[i]
  OBVIOUS
<1>3. q # <<>> => /\ Tail(q) \in Seq(S) /\ Head(q) \in S /\ Head(q) = q[1]
                  /\ Len(Tail(q)) = Len(q) - 1 /\ Len(q) > 0
                  /\ \A i \in 1 .. Len(q) - 1 : Tail(q)[i] = q[i + 1]
  OBVIOUS
<1> QED
  BY <1>1, <1>2, <1>3

LoggedEntry == [at : Nat, tenant : {e.tenant : e \in LoggedEntries},
                action : {e.action : e \in LoggedEntries}, status : {e.status : e \in LoggedEntries}]

\* What is in q was logged before the time n, before what is in r, in order.
Until(q, n) == \A i \in DOMAIN q : q[i].at < n
Earlier(q, r) == \A i \in DOMAIN q, j \in DOMAIN r : q[i].at < r[j].at
Ascending(q) == \A i, j \in DOMAIN q : i < j => q[i].at < q[j].at

LEMMA AtTyped == ASSUME NEW q \in Seq(LoggedEntry) PROVE \A i \in DOMAIN q : q[i].at \in Nat
<1>1. \A i \in DOMAIN q : q[i] \in LoggedEntry
  OBVIOUS
<1>2. \A e \in LoggedEntry : e.at \in Nat
  BY DEF LoggedEntry
<1> QED
  BY <1>1, <1>2, Zenon

LEMMA EntryAppended ==
    ASSUME NEW q \in Seq(LoggedEntry), NEW e \in LoggedEntry
    PROVE  /\ (Ascending(q) /\ Until(q, e.at)) => Ascending(Append(q, e))
           /\ \A n \in Nat : (Until(q, n) /\ e.at < n) => Until(Append(q, e), n)
           /\ \A p \in Seq(LoggedEntry) :
                 /\ (Earlier(p, q) /\ Until(p, e.at)) => Earlier(p, Append(q, e))
                 /\ (Earlier(q, p) /\ (\A j \in DOMAIN p : e.at < p[j].at)) => Earlier(Append(q, e), p)
<1> DEFINE t == Append(q, e)
<1>1. /\ DOMAIN q = 1 .. Len(q) /\ Len(q) \in Nat /\ DOMAIN t = 1 .. Len(q) + 1
      /\ t[Len(q) + 1] = e /\ \A i \in 1 .. Len(q) : t[i] = q[i]
  BY SeqsOf
<1>2. e.at \in Nat /\ \A i \in DOMAIN q : q[i].at \in Nat
  BY AtTyped DEF LoggedEntry
<1> HIDE DEF t
<1>3. (Ascending(q) /\ Until(q, e.at)) => Ascending(t)
  BY <1>1, <1>2 DEF Ascending, Until
<1>4. \A n \in Nat : (Until(q, n) /\ e.at < n) => Until(t, n)
  BY <1>1, <1>2 DEF Until
<1>5. ASSUME NEW p \in Seq(LoggedEntry)
      PROVE  /\ (Earlier(p, q) /\ Until(p, e.at)) => Earlier(p, t)
             /\ (Earlier(q, p) /\ (\A j \in DOMAIN p : e.at < p[j].at)) => Earlier(t, p)
  <2>1. \A j \in DOMAIN t : (j \in DOMAIN q /\ t[j] = q[j]) \/ t[j] = e
    BY <1>1
  <2> QED
    BY <2>1, Zenon DEF Earlier, Until
<1> QED
  BY <1>3, <1>4, <1>5 DEF t

LEMMA EntryTaken ==
    ASSUME NEW q \in Seq(LoggedEntry), q # <<>>
    PROVE  /\ Ascending(q) => (Ascending(Tail(q)) /\ \A j \in DOMAIN Tail(q) : Head(q).at < Tail(q)[j].at)
           /\ \A n : Until(q, n) => (Until(Tail(q), n) /\ Head(q).at < n)
           /\ \A p : Earlier(p, q) => (Earlier(p, Tail(q)) /\ Until(p, Head(q).at))
<1> DEFINE t == Tail(q)  e == Head(q)
<1>1. /\ DOMAIN q = 1 .. Len(q) /\ Len(q) \in Nat \ {0} /\ DOMAIN t = 1 .. Len(q) - 1
      /\ e = q[1] /\ \A i \in 1 .. Len(q) - 1 : t[i] = q[i + 1]
  BY SeqsOf
<1> HIDE DEF t, e
<1>2. \A i \in DOMAIN t : i + 1 \in DOMAIN q /\ t[i] = q[i + 1] /\ 1 < i + 1
  BY <1>1
<1>3. 1 \in DOMAIN q
  BY <1>1
<1>4. Ascending(q) => (Ascending(t) /\ \A j \in DOMAIN t : e.at < t[j].at)
  <2>1. \A i, j \in DOMAIN t : i < j => i + 1 < j + 1
    BY <1>1
  <2> QED
    BY <1>1, <1>2, <1>3, <2>1, Zenon DEF Ascending
<1>5. ASSUME NEW n PROVE Until(q, n) => (Until(t, n) /\ e.at < n)
  BY <1>1, <1>2, <1>3, Zenon DEF Until
<1>6. ASSUME NEW p PROVE Earlier(p, q) => (Earlier(p, t) /\ Until(p, e.at))
  BY <1>1, <1>2, <1>3, Zenon DEF Earlier, Until
<1> QED
  BY <1>4, <1>5, <1>6 DEF t, e

LEMMA EntriesJoined ==
    ASSUME NEW p \in Seq(LoggedEntry), NEW q \in Seq(LoggedEntry)
    PROVE  /\ p \o q \in Seq(LoggedEntry) /\ Len(p \o q) = Len(p) + Len(q)
           /\ (Ascending(p) /\ Ascending(q) /\ Earlier(p, q)) => Ascending(p \o q)
           /\ \A n : (Until(p, n) /\ Until(q, n)) => Until(p \o q, n)
           /\ \A r : (Earlier(p, r) /\ Earlier(q, r)) => Earlier(p \o q, r)
<1> DEFINE t == p \o q
<1>1. /\ Len(p) \in Nat /\ Len(q) \in Nat /\ t \in Seq(LoggedEntry) /\ Len(t) = Len(p) + Len(q)
      /\ DOMAIN t = 1 .. Len(p) + Len(q) /\ DOMAIN p = 1 .. Len(p) /\ DOMAIN q = 1 .. Len(q)
  OBVIOUS
<1>2. \A i \in DOMAIN p : t[i] = p[i]
  BY <1>1
<1>3. \A i \in DOMAIN t : i \notin DOMAIN p => (i - Len(p) \in DOMAIN q /\ t[i] = q[i - Len(p)])
  BY <1>1
<1> HIDE DEF t
<1>4. (Ascending(p) /\ Ascending(q) /\ Earlier(p, q)) => Ascending(t)
  <2> SUFFICES ASSUME Ascending(p), Ascending(q), Earlier(p, q),
                      NEW i \in DOMAIN t, NEW j \in DOMAIN t, i < j
               PROVE  t[i].at < t[j].at
    BY DEF Ascending
  <2>1. CASE j \in DOMAIN p
    <3>1. i \in DOMAIN p
      BY <2>1, <1>1
    <3> QED
      BY <2>1, <3>1, <1>2, Zenon DEF Ascending
  <2>2. CASE i \in DOMAIN p /\ j \notin DOMAIN p
    BY <2>2, <1>2, <1>3, Zenon DEF Earlier
  <2>3. CASE i \notin DOMAIN p /\ j \notin DOMAIN p
    <3>1. i - Len(p) < j - Len(p)
      BY <1>1
    <3> QED
      BY <2>3, <1>3, <3>1, Zenon DEF Ascending
  <2>4. CASE i \notin DOMAIN p /\ j \in DOMAIN p
    BY <2>4, <1>1
  <2> QED
    BY <2>1, <2>2, <2>3, <2>4
<1>5. ASSUME NEW n PROVE (Until(p, n) /\ Until(q, n)) => Until(t, n)
  BY <1>2, <1>3, Zenon DEF Until
<1>6. ASSUME NEW r PROVE (Earlier(p, r) /\ Earlier(q, r)) => Earlier(t, r)
  BY <1>2, <1>3, Zenon DEF Earlier
<1> QED
  BY <1>1, <1>4, <1>5, <1>6 DEF t

LEMMA NoEntries ==
    /\ <<>> \in Seq(LoggedEntry) /\ Len(<<>>) = 0
    /\ Ascending(<<>>) /\ \A q : Earlier(<<>>, q) /\ Earlier(q, <<>>) /\ Until(<<>>, q)
  BY DEF Ascending, Earlier, Until

TrailMetrics == [logged : Nat, dropped : Nat, written : Nat, errors : Nat]

TrailInv ==
    /\ queue \in Seq(LoggedEntry) /\ pending \in Seq(LoggedEntry) /\ audit_log \in Seq(LoggedEntry)
    /\ clock \in Nat /\ metrics \in TrailMetrics
    /\ metrics.logged = metrics.dropped + metrics.written + metrics.errors + Len(queue) + Len(pending)
    /\ metrics.written <= Len(audit_log)
    /\ Ascending(audit_log) /\ Ascending(pending) /\ Ascending(queue)
    /\ Earlier(audit_log, pending) /\ Earlier(audit_log, queue) /\ Earlier(pending, queue)
    /\ Until(audit_log, clock) /\ Until(pending, clock) /\ Until(queue, clock)

LEMMA TrailInvIs == TrailInv => Trail!EntriesAccounted
  BY Zenon DEF TrailInv, Trail!EntriesAccounted, Ascending

LEMMA TrailInit == WorkInit => TrailInv
<1> SUFFICES ASSUME WorkInit PROVE TrailInv
  OBVIOUS
<1>1. /\ queue = <<>> /\ pending = <<>> /\ audit_log = <<>> /\ clock = 0
      /\ metrics = [logged |-> 0, dropped |-> 0, written |-> 0, errors |-> 0]
  BY DEF WorkInit, Trail!Init, Trail!NoMetrics
<1> QED
  BY <1>1, NoEntries DEF TrailInv, TrailMetrics

\* The balance of the entries of this process, as numbers.
LEMMA TrailBalance ==
    TrailInv =>
    /\ metrics.logged \in Nat /\ metrics.dropped \in Nat /\ metrics.written \in Nat
    /\ metrics.errors \in Nat /\ Len(queue) \in Nat /\ Len(pending) \in Nat /\ Len(audit_log) \in Nat
    /\ metrics.logged = metrics.dropped + metrics.written + metrics.errors + Len(queue) + Len(pending)
    /\ metrics.written <= Len(audit_log)
<1>1. metrics \in TrailMetrics =>
      /\ metrics.logged \in Nat /\ metrics.dropped \in Nat /\ metrics.written \in Nat
      /\ metrics.errors \in Nat
  BY DEF TrailMetrics
<1>2. \A q \in Seq(LoggedEntry) : Len(q) \in Nat
  OBVIOUS
<1> QED
  BY <1>1, <1>2, Zenon DEF TrailInv

\* The same with a name for every number.
LEMMA BalanceNumbers ==
    TrailInv =>
    \E l, d, w, e, q, p \in Nat :
        /\ metrics.logged = l /\ metrics.dropped = d /\ metrics.written = w /\ metrics.errors = e
        /\ Len(queue) = q /\ Len(pending) = p
        /\ l = d + w + e + q + p
  BY TrailBalance, Zenon

LEMMA TrailQueue ==
    ASSUME TrailInv, NEW entry \in LoggedEntries, Trail!Queue(entry)
    PROVE  TrailInv'
<1> DEFINE e == [at |-> clock, tenant |-> entry.tenant, action |-> entry.action, status |-> entry.status]
<1>1. /\ clock' = clock + 1 /\ clock \in Nat
      /\ pending' = pending /\ audit_log' = audit_log
  BY DEF Trail!Queue, TrailInv
<1>2. \A q \in Seq(LoggedEntry) : Until(q, clock) => Until(q, clock + 1)
  BY <1>1, AtTyped DEF Until
<1>3. Len(pending) \in Nat /\ Len(queue) \in Nat /\ Len(audit_log) \in Nat
  BY DEF TrailInv
<1>6. metrics \in TrailMetrics
  BY DEF TrailInv
<1>7. PICK l \in Nat, d \in Nat, w \in Nat, x \in Nat, q \in Nat, p \in Nat :
       /\ metrics.logged = l /\ metrics.dropped = d /\ metrics.written = w /\ metrics.errors = x
       /\ Len(queue) = q /\ Len(pending) = p
       /\ l = d + w + x + q + p
  BY BalanceNumbers, Zenon
<1>4. CASE Len(queue) < BufferSize
  <2>1. e \in LoggedEntry /\ e.at = clock
    BY <1>1 DEF LoggedEntry
  <2>2. queue' = Append(queue, e) /\ metrics' = [metrics EXCEPT !.logged = @ + 1]
    BY <1>4 DEF Trail!Queue
  <2> HIDE DEF e
  <2>3. queue' \in Seq(LoggedEntry) /\ Len(queue') = Len(queue) + 1
    BY <2>1, <2>2, SeqsOf DEF TrailInv
  <2>4. Ascending(queue') /\ Until(queue', clock + 1)
    <3>1. queue \in Seq(LoggedEntry) /\ Ascending(queue) /\ Until(queue, clock)
      BY Zenon DEF TrailInv
    <3>2. Until(queue, clock + 1) /\ e.at < clock + 1 /\ clock + 1 \in Nat
      BY <3>1, <2>1, <1>1, <1>2
    <3> QED
      BY <3>1, <3>2, <2>1, <2>2, EntryAppended
  <2>5. Earlier(audit_log, queue') /\ Earlier(pending, queue')
    BY <2>1, <2>2, EntryAppended DEF TrailInv
  <2>6. metrics' \in TrailMetrics /\ metrics'.logged = metrics.logged + 1
        /\ metrics'.dropped = metrics.dropped
        /\ metrics'.written = metrics.written /\ metrics'.errors = metrics.errors
    BY SMTT(60), <2>2, <1>6 DEF TrailMetrics
  <2>7. l + 1 = d + w + x + (q + 1) + p
    BY <1>7
  <2>8. metrics'.logged = metrics'.dropped + metrics'.written + metrics'.errors + Len(queue') + Len(pending)
    BY <2>3, <2>6, <1>7, <2>7
  <2> QED
    BY <2>3, <2>4, <2>5, <2>6, <2>8, <1>1, <1>2 DEF TrailInv
<1>5. CASE ~(Len(queue) < BufferSize)
  <2>1. queue' = queue /\ metrics' = [metrics EXCEPT !.logged = @ + 1, !.dropped = @ + 1]
    BY <1>5 DEF Trail!Queue
  <2>2. metrics' \in TrailMetrics /\ metrics'.logged = l + 1 /\ metrics'.dropped = d + 1
        /\ metrics'.written = w /\ metrics'.errors = x
    <3>1. metrics = [logged |-> l, dropped |-> d, written |-> w, errors |-> x]
      BY <1>6, <1>7 DEF TrailMetrics
    <3>2. metrics' = [logged |-> l + 1, dropped |-> d + 1, written |-> w, errors |-> x]
      BY <2>1, <3>1
    <3> QED
      BY <3>2, <1>7 DEF TrailMetrics
  <2>3. l + 1 = (d + 1) + w + x + q + p
    BY <1>7
  <2>4. metrics'.logged = metrics'.dropped + metrics'.written + metrics'.errors + Len(queue) + Len(pending)
    BY <2>2, <2>3, <1>7
  <2> QED
    BY SMTT(60), <2>1, <2>2, <2>4, <1>1, <1>2 DEF TrailInv
<1> QED
  BY <1>4, <1>5

LEMMA TrailReceive ==
    ASSUME TrailInv, Trail!Receive
    PROVE  TrailInv'
<1>1. /\ queue # <<>> /\ queue' = Tail(queue) /\ pending' = Append(pending, Head(queue))
      /\ audit_log' = audit_log /\ clock' = clock /\ metrics' = metrics
  BY DEF Trail!Receive
<1> DEFINE e == Head(queue)
<1>2. /\ queue' \in Seq(LoggedEntry) /\ e \in LoggedEntry
      /\ Len(queue') = Len(queue) - 1 /\ Len(queue) \in Nat /\ Len(pending) \in Nat
      /\ pending' \in Seq(LoggedEntry) /\ Len(pending') = Len(pending) + 1
  BY <1>1, SeqsOf DEF TrailInv
<1>3. /\ Ascending(queue') /\ \A j \in DOMAIN queue' : e.at < queue'[j].at
      /\ Until(queue', clock) /\ e.at < clock
      /\ Earlier(audit_log, queue') /\ Until(audit_log, e.at)
      /\ Earlier(pending, queue') /\ Until(pending, e.at)
  BY <1>1, EntryTaken DEF TrailInv
<1>4. /\ Ascending(pending') /\ Until(pending', clock)
      /\ Earlier(audit_log, pending') /\ Earlier(pending', queue')
  BY <1>1, <1>2, <1>3, EntryAppended DEF TrailInv
<1>6. PICK l \in Nat, d \in Nat, w \in Nat, x \in Nat, q \in Nat, p \in Nat :
       /\ metrics.logged = l /\ metrics.dropped = d /\ metrics.written = w /\ metrics.errors = x
       /\ Len(queue) = q /\ Len(pending) = p
       /\ l = d + w + x + q + p
  BY BalanceNumbers, Zenon
<1>7. l = d + w + x + (q - 1) + (p + 1)
  BY <1>6
<1>5. metrics.logged = metrics.dropped + metrics.written + metrics.errors + Len(queue') + Len(pending')
  BY <1>2, <1>6, <1>7
<1> QED
  BY <1>1, <1>2, <1>3, <1>4, <1>5 DEF TrailInv

LEMMA TrailInserted ==
    ASSUME TrailInv, Trail!Inserted
    PROVE  TrailInv'
<1>1. /\ audit_log' = audit_log \o pending /\ pending' = <<>>
      /\ metrics' = [metrics EXCEPT !.written = @ + Len(pending)]
      /\ queue' = queue /\ clock' = clock
  BY DEF Trail!Inserted
<1>2. /\ audit_log' \in Seq(LoggedEntry) /\ Len(audit_log') = Len(audit_log) + Len(pending)
      /\ Len(audit_log) \in Nat /\ Len(pending) \in Nat /\ Len(queue) \in Nat
      /\ Ascending(audit_log') /\ Earlier(audit_log', queue) /\ Until(audit_log', clock)
  BY <1>1, EntriesJoined DEF TrailInv
<1>5. metrics \in TrailMetrics
  BY DEF TrailInv
<1>6. PICK l \in Nat, d \in Nat, w \in Nat, x \in Nat, q \in Nat, p \in Nat :
       /\ metrics.logged = l /\ metrics.dropped = d /\ metrics.written = w /\ metrics.errors = x
       /\ Len(queue) = q /\ Len(pending) = p
       /\ l = d + w + x + q + p
  BY BalanceNumbers, Zenon
<1>3. /\ metrics' \in TrailMetrics
      /\ metrics'.logged = metrics.logged /\ metrics'.dropped = metrics.dropped
      /\ metrics'.written = metrics.written + Len(pending) /\ metrics'.errors = metrics.errors
  <2>1. metrics = [logged |-> l, dropped |-> d, written |-> w, errors |-> x]
    BY <1>5, <1>6 DEF TrailMetrics
  <2>2. metrics' = [logged |-> l, dropped |-> d, written |-> w + p, errors |-> x]
    BY <1>1, <1>6, <2>1
  <2> QED
    BY <2>2, <1>6 DEF TrailMetrics
<1>7. l = d + (w + p) + x + q + 0
  BY <1>6
<1>8. metrics'.logged = metrics'.dropped + metrics'.written + metrics'.errors + Len(queue) + 0
  BY <1>3, <1>6, <1>7
<1>4. metrics'.written <= Len(audit_log')
  BY <1>2, <1>3, TrailBalance
<1> QED
  BY <1>1, <1>2, <1>3, <1>4, <1>8, NoEntries DEF TrailInv

LEMMA TrailInsertFailed ==
    ASSUME TrailInv, Trail!InsertFailed
    PROVE  TrailInv'
<1>1. /\ pending' = <<>> /\ metrics' = [metrics EXCEPT !.errors = @ + Len(pending)]
      /\ queue' = queue /\ audit_log' = audit_log /\ clock' = clock
  BY DEF Trail!InsertFailed
<1>2. Len(pending) \in Nat /\ Len(queue) \in Nat
  BY DEF TrailInv
<1>5. metrics \in TrailMetrics
  BY DEF TrailInv
<1>6. PICK l \in Nat, d \in Nat, w \in Nat, x \in Nat, q \in Nat, p \in Nat :
       /\ metrics.logged = l /\ metrics.dropped = d /\ metrics.written = w /\ metrics.errors = x
       /\ Len(queue) = q /\ Len(pending) = p
       /\ l = d + w + x + q + p
  BY BalanceNumbers, Zenon
<1>3. /\ metrics' \in TrailMetrics
      /\ metrics'.logged = metrics.logged /\ metrics'.dropped = metrics.dropped
      /\ metrics'.written = metrics.written /\ metrics'.errors = metrics.errors + Len(pending)
  <2>1. metrics = [logged |-> l, dropped |-> d, written |-> w, errors |-> x]
    BY <1>5, <1>6 DEF TrailMetrics
  <2>2. metrics' = [logged |-> l, dropped |-> d, written |-> w, errors |-> x + p]
    BY <1>1, <1>6, <2>1
  <2> QED
    BY <2>2, <1>6 DEF TrailMetrics
<1>7. l = d + w + (x + p) + q + 0
  BY <1>6
<1>4. metrics'.logged = metrics'.dropped + metrics'.written + metrics'.errors + Len(queue) + 0
  BY <1>3, <1>6, <1>7
<1> QED
  BY <1>1, <1>3, <1>4, NoEntries DEF TrailInv

LEMMA TrailRestart ==
    ASSUME TrailInv, Trail!Restart
    PROVE  TrailInv'
<1>1. /\ queue' = <<>> /\ pending' = <<>> /\ clock' = clock
      /\ metrics' = [logged |-> 0, dropped |-> 0, written |-> 0, errors |-> 0]
      /\ audit_log' = audit_log \/ audit_log' = audit_log \o pending
  BY DEF Trail!Restart, Trail!NoMetrics
<1>2. audit_log' \in Seq(LoggedEntry) /\ Ascending(audit_log') /\ Until(audit_log', clock)
  BY <1>1, EntriesJoined DEF TrailInv
<1>3. /\ metrics' \in TrailMetrics /\ 0 <= Len(audit_log')
      /\ metrics'.logged = 0 /\ metrics'.dropped = 0 /\ metrics'.written = 0 /\ metrics'.errors = 0
  BY <1>1, <1>2 DEF TrailMetrics
<1> QED
  BY <1>1, <1>2, <1>3, NoEntries DEF TrailInv

LEMMA TrailStep == TrailInv /\ [WorkNext]_workVars => TrailInv'
<1> SUFFICES ASSUME TrailInv, [WorkNext]_workVars PROVE TrailInv'
  OBVIOUS
<1>1. ASSUME /\ queue' = queue /\ pending' = pending /\ audit_log' = audit_log /\ clock' = clock
             /\ metrics' = metrics
      PROVE  TrailInv'
  BY <1>1 DEF TrailInv
<1>2. CASE UNCHANGED trailVars
  BY <1>1, <1>2 DEF trailVars
<1>3. CASE Trail!Tick
  BY <1>1, <1>3 DEF Trail!Tick
<1>4. CASE Trail!Next /\ ~Trail!Tick
  BY <1>4, TrailQueue, TrailReceive, TrailInserted, TrailInsertFailed, TrailRestart DEF Trail!Next
<1>5. UNCHANGED trailVars \/ Trail!Next
  BY DEF WorkNext, OthersUnchanged, workVars
<1> QED
  BY <1>2, <1>3, <1>4, <1>5

-----------------------------------------------------------------------------
(* The security agent: steps, findings and what the model is told.         *)

\* What the agent is made of.
AgentCalls == UNION {Agent!ToSet(answer.calls) : answer \in Answers}
CallPackages == {call.package : call \in AgentCalls}
Reply == [name : {call.name : call \in AgentCalls}, result : Outcomes]
Message == [role : {"user"}, told : Seq(Reply)] \cup [role : {"model"}, calls : Seq(AgentCalls)]
TakenStep ==
    [step : Nat, call : AgentCalls, result : Outcomes]
        \cup [step : Nat, call : {None}, text : {Agent!Last(answer.texts) : answer \in Answers}]
Kind == [finding : UNION {Agent!ToSet(outcome.findings) : outcome \in Outcomes}, package : CallPackages]

\* The steps that ran a tool, and those that the vulnerability tool answered.
RanOf(q) == {i \in DOMAIN q : q[i].call # None}
HasAnswer(e) == e.call # None /\ e.call.name = "get_vulnerabilities" /\ e.result.ok
AnsweredOf(q) == {i \in DOMAIN q : HasAnswer(q[i])}
FindingsOf(q) == [i \in DOMAIN q |-> DOMAIN q[i].result.findings]
Before(q, n) == Cells(FindingsOf(q), {j \in AnsweredOf(q) : j < n})

LEMMA AnswerTyped ==
    \A answer \in Answers : answer.calls \in Seq(AgentCalls) /\ None \notin AgentCalls
<1>1. \A answer \in Answers :
         answer.calls \in Seq(Agent!ToSet(answer.calls)) /\ None \notin Agent!ToSet(answer.calls)
  BY WorkAssumption, Zenon DEF WorkAssumption, Agent!AnswersAssumption
<1>2. None \notin AgentCalls
  BY <1>1 DEF AgentCalls
<1>3. \A answer \in Answers : Agent!ToSet(answer.calls) \subseteq AgentCalls
  BY DEF AgentCalls
<1>4. ASSUME NEW answer \in Answers PROVE answer.calls \in Seq(AgentCalls)
  <2>1. PICK S : S = Agent!ToSet(answer.calls) /\ S \subseteq AgentCalls /\ answer.calls \in Seq(S)
    BY <1>1, <1>3
  <2> QED
    BY <2>1
<1> QED
  BY <1>2, <1>4

LEMMA OutcomeTyped ==
    ASSUME NEW outcome \in Outcomes
    PROVE  /\ outcome.findings \in Seq(Agent!ToSet(outcome.findings))
           /\ Len(outcome.findings) \in Nat /\ DOMAIN outcome.findings = 1 .. Len(outcome.findings)
<1>1. outcome.findings \in Seq(Agent!ToSet(outcome.findings))
  BY WorkAssumption DEF WorkAssumption, Agent!AnswersAssumption
<1>2. PICK S : S = Agent!ToSet(outcome.findings)
  OBVIOUS
<1>3. outcome.findings \in Seq(S)
  BY <1>1, <1>2
<1> QED
  BY <1>1, <1>3

\* What an answered step returned.
LEMMA AnsweredTyped ==
    ASSUME NEW e \in TakenStep, HasAnswer(e)
    PROVE  /\ e.call \in AgentCalls /\ e.result \in Outcomes
           /\ Len(e.result.findings) \in Nat /\ DOMAIN e.result.findings = 1 .. Len(e.result.findings)
<1>1. e.call # None
  BY DEF HasAnswer
<1>2. e.call \in AgentCalls /\ e.result \in Outcomes
  BY <1>1 DEF TakenStep
<1> QED
  BY <1>2, OutcomeTyped

LEMMA RanMore ==
    ASSUME NEW q \in Seq(TakenStep), NEW e \in TakenStep
    PROVE  /\ IsFiniteSet(RanOf(q)) /\ Cardinality(RanOf(q)) \in Nat
           /\ RanOf(Append(q, e)) = RanOf(q) \cup (IF e.call # None THEN {Len(q) + 1} ELSE {})
           /\ Cardinality(RanOf(Append(q, e)))
                = Cardinality(RanOf(q)) + (IF e.call # None THEN 1 ELSE 0)
<1> DEFINE r == Append(q, e)
<1>1. /\ Len(q) \in Nat /\ DOMAIN q = 1 .. Len(q) /\ DOMAIN r = DOMAIN q \cup {Len(q) + 1}
      /\ Len(q) + 1 \notin DOMAIN q /\ r[Len(q) + 1] = e /\ \A i \in DOMAIN q : r[i] = q[i]
  OBVIOUS
<1>2. IsFiniteSet(RanOf(q))
  <2>1. IsFiniteSet(1 .. Len(q)) /\ RanOf(q) \in SUBSET (1 .. Len(q))
    BY <1>1, FS_Interval DEF RanOf
  <2> QED
    BY <2>1, FS_Subset
<1>3. Cardinality(RanOf(q)) \in Nat
  BY <1>2, FS_CardinalityType
<1> HIDE DEF r
<1>4. CASE e.call # None
  <2>1. RanOf(r) = RanOf(q) \cup {Len(q) + 1} /\ Len(q) + 1 \notin RanOf(q)
    BY <1>1, <1>4 DEF RanOf
  <2>2. Cardinality(RanOf(q) \cup {Len(q) + 1}) = Cardinality(RanOf(q)) + 1
    BY <1>2, <2>1, FS_AddElement
  <2> QED
    BY <1>2, <1>3, <1>4, <2>1, <2>2 DEF r
<1>5. CASE ~(e.call # None)
  <2>1. RanOf(r) = RanOf(q)
    BY <1>1, <1>5 DEF RanOf
  <2> QED
    BY <1>2, <1>3, <1>5, <2>1 DEF r
<1> QED
  BY <1>4, <1>5

\* What was found before a step is no matter of later ones.
LEMMA BeforeMore ==
    ASSUME NEW q \in Seq(TakenStep), NEW e \in TakenStep
    PROVE  /\ \A n \in 1 .. Len(q) + 1 : Before(Append(q, e), n) = Before(q, n)
           /\ AnsweredOf(Append(q, e)) = AnsweredOf(q) \cup (IF HasAnswer(e) THEN {Len(q) + 1} ELSE {})
           /\ AnsweredOf(q) \subseteq 1 .. Len(q)
<1> DEFINE r == Append(q, e)
<1>1. /\ Len(q) \in Nat /\ DOMAIN q = 1 .. Len(q) /\ DOMAIN r = DOMAIN q \cup {Len(q) + 1}
      /\ Len(q) + 1 \notin DOMAIN q /\ r[Len(q) + 1] = e /\ \A i \in DOMAIN q : r[i] = q[i]
  OBVIOUS
<1> HIDE DEF r
<1>2. \A i : i \in AnsweredOf(r) <=> (i \in AnsweredOf(q) \/ (i = Len(q) + 1 /\ HasAnswer(e)))
  BY <1>1, Zenon DEF AnsweredOf
<1>3. AnsweredOf(q) \subseteq 1 .. Len(q)
  BY <1>1, Zenon DEF AnsweredOf
<1>4. AnsweredOf(r) = AnsweredOf(q) \cup (IF HasAnswer(e) THEN {Len(q) + 1} ELSE {})
  BY <1>2
<1>5. ASSUME NEW n \in 1 .. Len(q) + 1 PROVE Before(r, n) = Before(q, n)
  <2>1. {j \in AnsweredOf(r) : j < n} = {j \in AnsweredOf(q) : j < n}
    <3>1. ~(Len(q) + 1 < n)
      BY <1>1
    <3>2. \A j : j \in {k \in AnsweredOf(r) : k < n} <=> j \in {k \in AnsweredOf(q) : k < n}
      BY <1>2, <3>1, Zenon
    <3> QED
      BY <3>2
  <2>2. PICK places : places = {j \in AnsweredOf(q) : j < n}
    OBVIOUS
  <2>3. \A i \in places : FindingsOf(r)[i] = FindingsOf(q)[i]
    BY <1>1, <1>3, <2>2 DEF FindingsOf
  <2>4. Cells(FindingsOf(r), places) = Cells(FindingsOf(q), places)
    BY <2>3, CellsSame
  <2> QED
    BY <2>1, <2>2, <2>4, Zenon DEF Before
<1> QED
  BY <1>3, <1>4, <1>5 DEF r

\* The findings kept are those of the steps that the tool answered.
Kept(q, f) ==
    /\ IsFiniteSet(Cells(FindingsOf(q), AnsweredOf(q)))
    /\ Len(f) = Cardinality(Cells(FindingsOf(q), AnsweredOf(q)))
    /\ \A i \in AnsweredOf(q) : \A j \in DOMAIN q[i].result.findings :
          f[Cardinality(Before(q, i)) + j].finding = q[i].result.findings[j]

LEMMA AllBefore ==
    ASSUME NEW q \in Seq(TakenStep)
    PROVE  Before(q, Len(q) + 1) = Cells(FindingsOf(q), AnsweredOf(q))
<1>1. AnsweredOf(q) \subseteq 1 .. Len(q) /\ Len(q) \in Nat
  <2>1. DOMAIN q = 1 .. Len(q) /\ Len(q) \in Nat
    OBVIOUS
  <2> QED
    BY <2>1, Zenon DEF AnsweredOf
<1>2. {j \in AnsweredOf(q) : j < Len(q) + 1} = AnsweredOf(q)
  BY <1>1
<1> QED
  BY <1>2, Zenon DEF Before

\* Those of a step lie within.
LEMMA FindingsWithin ==
    ASSUME NEW q \in Seq(TakenStep), NEW i \in AnsweredOf(q),
           IsFiniteSet(Cells(FindingsOf(q), AnsweredOf(q)))
    PROVE  /\ Cardinality(Before(q, i)) \in Nat
           /\ Cardinality(Cells(FindingsOf(q), AnsweredOf(q))) \in Nat
           /\ Cardinality(Before(q, i)) + Len(q[i].result.findings)
                <= Cardinality(Cells(FindingsOf(q), AnsweredOf(q)))
<1> DEFINE before == {j \in AnsweredOf(q) : j < i}
<1>1. i \in DOMAIN q /\ q[i] \in TakenStep /\ HasAnswer(q[i]) /\ i \in Int
  BY DEF AnsweredOf
<1>2. Len(q[i].result.findings) \in Nat /\ FindingsOf(q)[i] = 1 .. Len(q[i].result.findings)
  BY <1>1, AnsweredTyped DEF FindingsOf
<1>3. i \notin before /\ before \in SUBSET AnsweredOf(q) /\ before \cup {i} \in SUBSET AnsweredOf(q)
  BY <1>1
<1> HIDE DEF before
<1>4. IsFiniteSet(Cells(FindingsOf(q), before)) /\ Cardinality(Cells(FindingsOf(q), before)) \in Nat
  BY <1>3, CellsOfFewer
<1>5. Cardinality(Cells(FindingsOf(q), before \cup {i}))
        = Cardinality(Cells(FindingsOf(q), before)) + Len(q[i].result.findings)
  BY <1>2, <1>3, <1>4, CellsAdded
<1>6. /\ Cardinality(Cells(FindingsOf(q), before \cup {i}))
           <= Cardinality(Cells(FindingsOf(q), AnsweredOf(q)))
      /\ Cardinality(Cells(FindingsOf(q), AnsweredOf(q))) \in Nat
  BY <1>3, CellsOfFewer
<1>7. Before(q, i) = Cells(FindingsOf(q), before)
  BY Zenon DEF Before, before
<1> QED
  BY <1>4, <1>5, <1>6, <1>7, Zenon

LEMMA KeptOn ==
    ASSUME NEW q \in Seq(TakenStep), NEW f, NEW e \in TakenStep, Kept(q, f), ~HasAnswer(e)
    PROVE  Kept(Append(q, e), f)
<1> DEFINE r == Append(q, e)
<1>1. AnsweredOf(r) = AnsweredOf(q) /\ AnsweredOf(q) \subseteq 1 .. Len(q)
  BY BeforeMore
<1>2. \A n \in 1 .. Len(q) + 1 : Before(r, n) = Before(q, n)
  BY BeforeMore
<1>3. Len(q) \in Nat /\ \A i \in 1 .. Len(q) : r[i] = q[i] /\ i \in DOMAIN r /\ i \in DOMAIN q
  OBVIOUS
<1> HIDE DEF r
<1>4. \A i \in AnsweredOf(q) : FindingsOf(r)[i] = FindingsOf(q)[i]
  BY <1>1, <1>3 DEF FindingsOf
<1>5. Cells(FindingsOf(r), AnsweredOf(q)) = Cells(FindingsOf(q), AnsweredOf(q))
  BY <1>4, CellsSame
<1>6. \A i \in AnsweredOf(q) : Before(r, i) = Before(q, i) /\ r[i] = q[i]
  BY <1>1, <1>2, <1>3
<1> QED
  BY <1>1, <1>5, <1>6, Zenon DEF Kept, r

LEMMA KeptMore ==
    ASSUME NEW q \in Seq(TakenStep), NEW f \in Seq(Kind), NEW e \in TakenStep, Kept(q, f), HasAnswer(e),
           NEW g \in Seq(Kind), Len(g) = Len(e.result.findings),
           \A j \in 1 .. Len(g) : g[j].finding = e.result.findings[j]
    PROVE  Kept(Append(q, e), f \o g)
<1> DEFINE r == Append(q, e)
           n == Len(q) + 1
           old == Cells(FindingsOf(q), AnsweredOf(q))
<1>1. AnsweredOf(r) = AnsweredOf(q) \cup {n} /\ AnsweredOf(q) \subseteq 1 .. Len(q)
  BY BeforeMore
<1>2. \A m \in 1 .. n : Before(r, m) = Before(q, m)
  BY BeforeMore
<1>3. /\ Len(q) \in Nat /\ \A i \in 1 .. Len(q) : r[i] = q[i] /\ i \in DOMAIN r /\ i \in DOMAIN q
      /\ n \in DOMAIN r /\ r[n] = e /\ n \notin 1 .. Len(q) /\ n \in 1 .. n
      /\ \A i \in 1 .. Len(q) : i \in 1 .. n
  OBVIOUS
<1>4. Len(e.result.findings) \in Nat /\ DOMAIN e.result.findings = 1 .. Len(e.result.findings)
  BY AnsweredTyped
<1> HIDE DEF r, n
<1>5. \A i \in AnsweredOf(q) : FindingsOf(r)[i] = FindingsOf(q)[i]
  BY <1>1, <1>3 DEF FindingsOf
<1>6. Cells(FindingsOf(r), AnsweredOf(q)) = old
  BY <1>5, CellsSame DEF old
<1>7. FindingsOf(r)[n] = 1 .. Len(e.result.findings) /\ n \notin AnsweredOf(q)
  BY <1>1, <1>3, <1>4 DEF FindingsOf
<1>8. IsFiniteSet(old) /\ Len(f) = Cardinality(old)
  BY DEF Kept
<1>9. /\ IsFiniteSet(Cells(FindingsOf(r), AnsweredOf(r)))
      /\ Cardinality(Cells(FindingsOf(r), AnsweredOf(r))) = Cardinality(old) + Len(e.result.findings)
  BY <1>1, <1>4, <1>6, <1>7, <1>8, CellsAdded
<1>10. Len(f \o g) = Cardinality(Cells(FindingsOf(r), AnsweredOf(r)))
  <2>1. Len(f \o g) = Len(f) + Len(g)
    BY ConcatProperties
  <2> QED
    BY <1>8, <1>9, <2>1, Zenon
<1>11. ASSUME NEW i \in AnsweredOf(q), NEW j \in DOMAIN q[i].result.findings
       PROVE  (f \o g)[Cardinality(Before(r, i)) + j].finding = r[i].result.findings[j]
  <2>1. Before(r, i) = Before(q, i) /\ r[i] = q[i] /\ i \in DOMAIN q
    BY <1>1, <1>2, <1>3
  <2>2. PICK b \in Nat, l \in Nat : b = Cardinality(Before(q, i)) /\ l = Len(q[i].result.findings) /\ b + l <= Len(f)
    <3>1. q[i] \in TakenStep /\ HasAnswer(q[i])
      BY <2>1 DEF AnsweredOf
    <3> QED
      BY <1>8, <3>1, FindingsWithin, AnsweredTyped DEF old
  <2>3. DOMAIN q[i].result.findings = 1 .. l
    <3>1. q[i] \in TakenStep /\ HasAnswer(q[i])
      BY <2>1 DEF AnsweredOf
    <3> QED
      BY <2>2, <3>1, AnsweredTyped
  <2>4. b + j \in 1 .. Len(f)
    BY SMTT(60), <2>2, <2>3
  <2>5. (f \o g)[b + j] = f[b + j]
    BY <2>4
  <2>6. f[b + j].finding = q[i].result.findings[j]
    BY <2>2, Zenon DEF Kept
  <2> QED
    BY <2>1, <2>2, <2>5, <2>6, Zenon
<1>12. ASSUME NEW j \in DOMAIN e.result.findings
       PROVE  (f \o g)[Cardinality(Before(r, n)) + j].finding = e.result.findings[j]
  <2>1. Cardinality(Before(r, n)) = Len(f)
    BY <1>2, <1>3, <1>8, AllBefore DEF n, old
  <2>2. j \in 1 .. Len(g) /\ (f \o g)[Len(f) + j] = g[j]
    BY <1>4
  <2> QED
    BY <2>1, <2>2, Zenon
<1>13. \A i \in AnsweredOf(r) : \A j \in DOMAIN r[i].result.findings :
          (f \o g)[Cardinality(Before(r, i)) + j].finding = r[i].result.findings[j]
  <2>1. \A i \in AnsweredOf(q) : r[i] = q[i]
    BY <1>1, <1>3
  <2>2. \A i \in AnsweredOf(r) : i \in AnsweredOf(q) \/ i = n
    BY <1>1
  <2> QED
    BY <1>3, <1>11, <1>12, <2>1, <2>2, ZenonT(60)
<1> QED
  BY <1>9, <1>10, <1>13, Zenon DEF Kept, r

\* The packages that the steps named.
Noted(q, names) ==
    /\ {names[i] : i \in DOMAIN names} = {q[i].call.package : i \in RanOf(q)} \ {None}
    /\ \A i, j \in DOMAIN names : i # j => names[i] # names[j]

\* A call of the model and what it is told.
Replied(called, told) ==
    Len(told) = Len(called) /\ \A k \in DOMAIN told : told[k].name = called[k].name
Turned(c) ==
    \A i \in DOMAIN c : (c[i].role = "model" /\ c[i].calls # <<>> /\ i < Len(c)) =>
        c[i + 1].role = "user" /\ Replied(c[i].calls, c[i + 1].told)

\* What was answered so far, and what is left, of what was called last.
Pending(called, left, told) ==
    /\ left # <<>>
    /\ Len(told) + Len(left) = Len(called)
    /\ \A k \in 1 .. Len(told) : told[k].name = called[k].name
    /\ \A k \in 1 .. Len(left) : left[k] = called[Len(told) + k]

AgentTypes ==
    /\ phase \in {"asking", "calling", "reporting", "ended"} /\ step \in Nat
    /\ calls_left \in Seq(AgentCalls) /\ responses \in Seq(Reply)
    /\ conversation \in Seq(Message) /\ conversation # <<>>
    /\ taken \in Seq(TakenStep) /\ analyzed \in Seq(CallPackages) /\ found \in Seq(Kind)

InTouch(c, p, left, told) ==
    /\ p = "asking" => (c[Len(c)].role = "user" \/ c[Len(c)].calls = <<>>)
    /\ p = "calling" => c[Len(c)].role = "model" /\ Pending(c[Len(c)].calls, left, told)
    /\ p # "calling" => told = <<>>

Totalled(p, r, q) ==
    (p = "ended" /\ r # None /\ r.final \in {"text", "incomplete"}) => r.calls = Cardinality(RanOf(q))

AgentInv ==
    /\ AgentTypes
    /\ Turned(conversation) /\ InTouch(conversation, phase, calls_left, responses)
    /\ Totalled(phase, result, taken)
    /\ Noted(taken, analyzed)
    /\ Kept(taken, found)

LEMMA AgentInvIs == AgentInv => Agent!CallsAnswered
<1> SUFFICES ASSUME AgentInv PROVE Agent!CallsAnswered
  OBVIOUS
<1>1. \A S : Agent!Cardinality(S) = Cardinality(S)
  BY DEF Agent!Cardinality, Cardinality
<1>2. /\ conversation \in Seq(Message) /\ taken \in Seq(TakenStep)
      /\ DOMAIN taken = 1 .. Len(taken) /\ Len(taken) \in Nat
  BY DEF AgentInv, AgentTypes
<1>3. Agent!Ran = RanOf(taken) /\ Agent!FunctionCalls = Cardinality(RanOf(taken))
  BY <1>1 DEF Agent!Ran, Agent!FunctionCalls, RanOf
<1>4. Agent!Answered = AnsweredOf(taken)
  <2>1. \A i : i \in Agent!Answered <=> i \in AnsweredOf(taken)
    BY <1>3, Zenon DEF Agent!Answered, AnsweredOf, HasAnswer, RanOf
  <2> QED
    BY <2>1
<1>5. ASSUME NEW n PROVE Agent!FoundBefore(n) = Cardinality(Before(taken, n))
  <2>1. PICK places : places = {j \in AnsweredOf(taken) : j < n} /\ places \subseteq DOMAIN taken
    BY DEF AnsweredOf
  <2>2. {{i} \X DOMAIN taken[i].result.findings : i \in places}
          = {{i} \X FindingsOf(taken)[i] : i \in places}
    BY <2>1 DEF FindingsOf
  <2>3. Agent!FoundBefore(n)
          = Agent!Cardinality(UNION {{i} \X DOMAIN taken[i].result.findings : i \in places})
    BY <1>4, <2>1, Zenon DEF Agent!FoundBefore
  <2>4. Before(taken, n) = UNION {{i} \X FindingsOf(taken)[i] : i \in places}
    BY <2>1, Zenon DEF Before, Cells
  <2> QED
    BY <1>1, <2>2, <2>3, <2>4, Zenon
<1>6. ASSUME NEW i \in DOMAIN conversation,
             conversation[i].role = "model", conversation[i].calls # <<>>, i < Len(conversation)
      PROVE  /\ conversation[i + 1].role = "user"
             /\ Len(conversation[i + 1].told) = Len(conversation[i].calls)
             /\ \A k \in DOMAIN conversation[i + 1].told :
                   conversation[i + 1].told[k].name = conversation[i].calls[k].name
  BY <1>6, Zenon DEF AgentInv, Turned, Replied
<1>7. Agent!Last(conversation) = conversation[Len(conversation)]
  BY DEF Agent!Last
<1>8. phase = "asking" =>
         Agent!Last(conversation).role = "user" \/ Agent!Last(conversation).calls = <<>>
  BY <1>7, Zenon DEF AgentInv, InTouch
<1>9. (phase = "ended" /\ result # None /\ result.final \in {"text", "incomplete"}) =>
         result.calls = Agent!FunctionCalls
  BY <1>3, Zenon DEF AgentInv, Totalled
<1>10. /\ Agent!ToSet(analyzed) = {taken[i].call.package : i \in Agent!Ran} \ {None}
       /\ \A i, j \in DOMAIN analyzed : i # j => analyzed[i] # analyzed[j]
  BY <1>3, Zenon DEF AgentInv, Noted, Agent!ToSet
<1>11. Len(found) = Agent!FoundBefore(Len(taken) + 1)
  BY <1>2, <1>5, AllBefore, Zenon DEF AgentInv, Kept
<1>12. \A i \in Agent!Answered : \A j \in DOMAIN taken[i].result.findings :
          found[Agent!FoundBefore(i) + j].finding = taken[i].result.findings[j]
  BY <1>4, <1>5, Zenon DEF AgentInv, Kept
<1> QED
  BY <1>6, <1>8, <1>9, <1>10, <1>11, <1>12, Zenon DEF Agent!CallsAnswered

LEMMA AgentInit == WorkInit => AgentInv
<1> SUFFICES ASSUME WorkInit PROVE AgentInv
  OBVIOUS
<1>1. /\ phase = "asking" /\ step = 1 /\ calls_left = <<>> /\ responses = <<>>
      /\ conversation = <<[role |-> "user", told |-> <<>>]>>
      /\ taken = <<>> /\ analyzed = <<>> /\ found = <<>> /\ result = None
  BY DEF WorkInit, Agent!Init
<1>2. [role |-> "user", told |-> <<>>] \in Message
  BY DEF Message
<1>3. /\ conversation \in Seq(Message) /\ Len(conversation) = 1 /\ conversation[1].role = "user"
      /\ conversation # <<>> /\ DOMAIN conversation = {1}
  BY <1>1, <1>2
<1>4. AgentTypes
  BY <1>1, <1>3 DEF AgentTypes
<1>5. Turned(conversation)
  BY <1>1, <1>3 DEF Turned
<1>6. InTouch(conversation, phase, calls_left, responses)
  BY <1>1, <1>3 DEF InTouch
<1>7. RanOf(taken) = {} /\ AnsweredOf(taken) = {}
  BY <1>1 DEF RanOf, AnsweredOf
<1>8. Totalled(phase, result, taken)
  BY <1>1 DEF Totalled
<1>9. Noted(taken, analyzed)
  BY <1>1, <1>7 DEF Noted
<1>10. Kept(taken, found)
  <2>1. IsFiniteSet(Cells(FindingsOf(taken), {})) /\ Cardinality(Cells(FindingsOf(taken), {})) = 0
    BY NoCells
  <2>2. Len(found) = 0
    BY <1>1
  <2> QED
    BY <1>7, <2>1, <2>2, Zenon DEF Kept
<1> QED
  BY <1>4, <1>5, <1>6, <1>8, <1>9, <1>10 DEF AgentInv

LEMMA NotedOn ==
    ASSUME NEW q \in Seq(TakenStep), NEW e \in TakenStep, NEW names, Noted(q, names), e.call = None
    PROVE  Noted(Append(q, e), names)
<1> DEFINE r == Append(q, e)
<1>1. RanOf(r) = RanOf(q)
  BY RanMore
<1>2. \A i \in RanOf(q) : r[i] = q[i]
  BY DEF RanOf
<1> HIDE DEF r
<1>3. {r[i].call.package : i \in RanOf(r)} = {q[i].call.package : i \in RanOf(q)}
  BY <1>1, <1>2
<1> QED
  BY <1>3, Zenon DEF Noted, r

LEMMA NotedMore ==
    ASSUME NEW q \in Seq(TakenStep), NEW e \in TakenStep, NEW names \in Seq(CallPackages), NEW more,
           Noted(q, names), e.call # None,
           more = IF e.call.package \in {None} \cup Agent!ToSet(names) THEN names
                  ELSE Append(names, e.call.package)
    PROVE  Noted(Append(q, e), more) /\ more \in Seq(CallPackages)
<1> DEFINE r == Append(q, e)
           p == e.call.package
<1>1. RanOf(r) = RanOf(q) \cup {Len(q) + 1}
  BY RanMore
<1>2. (\A i \in RanOf(q) : r[i] = q[i]) /\ r[Len(q) + 1] = e
  BY DEF RanOf
<1>3. p \in CallPackages
  <2>1. e.call \in AgentCalls
    BY DEF TakenStep
  <2> QED
    BY <2>1 DEF CallPackages
<1> HIDE DEF r
<1>4. {r[i].call.package : i \in RanOf(r)} = {q[i].call.package : i \in RanOf(q)} \cup {p}
  BY <1>1, <1>2
<1> HIDE DEF p
<1>5. Agent!ToSet(names) = {names[i] : i \in DOMAIN names}
  BY DEF Agent!ToSet
<1>6. /\ {names[i] : i \in DOMAIN names} = {q[i].call.package : i \in RanOf(q)} \ {None}
      /\ \A i, j \in DOMAIN names : i # j => names[i] # names[j]
  BY Zenon DEF Noted
<1>7. CASE p \in {None} \cup Agent!ToSet(names)
  <2>1. more = names
    BY <1>7 DEF p
  <2>2. {names[i] : i \in DOMAIN names} = {r[i].call.package : i \in RanOf(r)} \ {None}
    BY <1>4, <1>5, <1>6, <1>7
  <2> QED
    BY <2>1, <2>2, <1>6, Zenon DEF Noted, r
<1>8. CASE p \notin {None} \cup Agent!ToSet(names)
  <2>1. more = Append(names, p)
    BY <1>8 DEF p
  <2>2. /\ more \in Seq(CallPackages) /\ Len(names) + 1 \notin DOMAIN names
        /\ DOMAIN more = DOMAIN names \cup {Len(names) + 1} /\ more[Len(names) + 1] = p
        /\ \A i \in DOMAIN names : more[i] = names[i]
    BY <1>3, <2>1
  <2>3. {more[i] : i \in DOMAIN more} = {names[i] : i \in DOMAIN names} \cup {p}
    BY <2>2
  <2>4. {more[i] : i \in DOMAIN more} = {r[i].call.package : i \in RanOf(r)} \ {None}
    BY <1>4, <1>6, <1>8, <2>3
  <2>5. \A i, j \in DOMAIN more : i # j => more[i] # more[j]
    <3>1. \A i \in DOMAIN names : names[i] # p
      BY <1>5, <1>8
    <3> QED
      BY <2>2, <1>6, <3>1
  <2> QED
    BY <2>2, <2>4, <2>5, Zenon DEF Noted, r
<1> QED
  BY <1>7, <1>8

LEMMA TurnedOn ==
    ASSUME NEW c \in Seq(Message), c # <<>>, NEW m \in Message, Turned(c),
           \/ c[Len(c)].role = "user"
           \/ c[Len(c)].calls = <<>>
           \/ m.role = "user" /\ Replied(c[Len(c)].calls, m.told)
    PROVE  /\ Turned(Append(c, m)) /\ Append(c, m) \in Seq(Message) /\ Append(c, m) # <<>>
           /\ Append(c, m)[Len(Append(c, m))] = m
<1> DEFINE d == Append(c, m)
<1>1. /\ Len(c) \in Nat /\ DOMAIN c = 1 .. Len(c) /\ DOMAIN d = 1 .. Len(c) + 1 /\ Len(d) = Len(c) + 1
      /\ d \in Seq(Message) /\ d # <<>>
      /\ d[Len(c) + 1] = m /\ \A i \in 1 .. Len(c) : d[i] = c[i]
  OBVIOUS
<1> HIDE DEF d
<1>2. ASSUME NEW i \in DOMAIN d, d[i].role = "model", d[i].calls # <<>>, i < Len(d)
      PROVE  d[i + 1].role = "user" /\ Replied(d[i].calls, d[i + 1].told)
  <2>1. i \in 1 .. Len(c) /\ d[i] = c[i]
    BY <1>1, <1>2
  <2>2. CASE i < Len(c)
    <3>1. i + 1 \in 1 .. Len(c)
      BY <1>1, <2>1, <2>2
    <3>2. d[i + 1] = c[i + 1]
      BY <1>1, <3>1
    <3>3. c[i + 1].role = "user" /\ Replied(c[i].calls, c[i + 1].told)
      BY <1>1, <1>2, <2>1, <2>2, Zenon DEF Turned
    <3> QED
      BY <2>1, <3>2, <3>3, Zenon
  <2>3. CASE i = Len(c)
    <3>1. d[i + 1] = m /\ c[Len(c)].role = "model" /\ c[Len(c)].calls # <<>>
      BY <1>1, <1>2, <2>1, <2>3
    <3>2. c[Len(c)].role # "user"
      BY <3>1
    <3> QED
      BY <2>1, <2>3, <3>1, <3>2, Zenon
  <2> QED
    BY <1>1, <2>1, <2>2, <2>3
<1>3. Turned(d)
  BY <1>2, Zenon DEF Turned
<1> QED
  BY <1>1, <1>3 DEF d

LEMMA PendingOn ==
    ASSUME NEW called \in Seq(AgentCalls), NEW left \in Seq(AgentCalls), NEW told \in Seq(Reply),
           Pending(called, left, told), NEW d \in Reply, d.name = Head(left).name
    PROVE  /\ Tail(left) \in Seq(AgentCalls) /\ Head(left) \in AgentCalls
           /\ Append(told, d) \in Seq(Reply)
           /\ Tail(left) # <<>> => Pending(called, Tail(left), Append(told, d))
           /\ Tail(left) = <<>> => Replied(called, Append(told, d))
<1> DEFINE t == Append(told, d)
           l == Tail(left)
<1>1. /\ left # <<>> /\ Len(told) + Len(left) = Len(called)
      /\ \A k \in 1 .. Len(told) : told[k].name = called[k].name
      /\ \A k \in 1 .. Len(left) : left[k] = called[Len(told) + k]
  BY DEF Pending
<1>2. /\ Len(told) \in Nat /\ Len(left) \in Nat \ {0} /\ t \in Seq(Reply) /\ Len(t) = Len(told) + 1
      /\ t[Len(told) + 1] = d /\ \A k \in 1 .. Len(told) : t[k] = told[k]
      /\ DOMAIN t = 1 .. Len(t)
  BY <1>1
<1>3. /\ l \in Seq(AgentCalls) /\ Len(l) = Len(left) - 1 /\ Head(left) \in AgentCalls
      /\ Head(left) = left[1] /\ \A k \in 1 .. Len(l) : l[k] = left[k + 1]
  BY <1>1
<1> HIDE DEF t, l
<1>4. d.name = called[Len(told) + 1].name
  <2>1. left[1] = called[Len(told) + 1]
    BY <1>1, <1>2
  <2> QED
    BY <1>3, <2>1, Zenon
<1>5. \A k \in 1 .. Len(t) : t[k].name = called[k].name
  <2>1. \A k \in 1 .. Len(t) : k \in 1 .. Len(told) \/ k = Len(told) + 1
    BY <1>2
  <2> QED
    BY <1>1, <1>2, <1>4, <2>1, Zenon
<1>6. Len(t) + Len(l) = Len(called)
  <2>1. PICK a \in Nat, b \in Nat : a = Len(told) /\ b = Len(left)
    BY <1>2
  <2>2. Len(t) = a + 1 /\ Len(l) = b - 1 /\ a + b = Len(called)
    BY <1>1, <1>2, <1>3, <2>1, Zenon
  <2>3. (a + 1) + (b - 1) = a + b
    OBVIOUS
  <2> QED
    BY <2>2, <2>3, Zenon
<1>7. ASSUME NEW k \in 1 .. Len(l) PROVE l[k] = called[Len(t) + k]
  <2>1. k + 1 \in 1 .. Len(left) /\ Len(told) + (k + 1) = Len(t) + k
    BY <1>2, <1>3
  <2>2. left[k + 1] = called[Len(told) + (k + 1)]
    BY <1>1, <2>1, Zenon
  <2> QED
    BY <1>3, <2>1, <2>2, Zenon
<1>8. l # <<>> => Pending(called, l, t)
  BY <1>5, <1>6, <1>7, Zenon DEF Pending
<1>9. l = <<>> => Replied(called, t)
  <2>1. l = <<>> => Len(t) = Len(called)
    BY <1>2, <1>6
  <2> QED
    BY <1>2, <1>5, <2>1, Zenon DEF Replied
<1> QED
  BY <1>2, <1>3, <1>8, <1>9 DEF t, l

LEMMA AgentStep == AgentInv /\ [WorkNext]_workVars => AgentInv'
<1> SUFFICES ASSUME AgentInv, [WorkNext]_workVars PROVE AgentInv'
  OBVIOUS
<1> DEFINE c == conversation
           q == taken
<1>1. /\ phase \in {"asking", "calling", "reporting", "ended"} /\ step \in Nat
      /\ calls_left \in Seq(AgentCalls) /\ responses \in Seq(Reply)
      /\ c \in Seq(Message) /\ c # <<>>
      /\ q \in Seq(TakenStep) /\ analyzed \in Seq(CallPackages) /\ found \in Seq(Kind)
  BY DEF AgentInv, AgentTypes
<1>2. /\ Turned(c) /\ InTouch(c, phase, calls_left, responses) /\ Totalled(phase, result, q)
      /\ Noted(q, analyzed) /\ Kept(q, found)
  BY DEF AgentInv
<1>3. Agent!FunctionCalls = Cardinality(RanOf(q)) /\ Cardinality(RanOf(q)) \in Nat
  <2>1. \A S : Agent!Cardinality(S) = Cardinality(S)
    BY DEF Agent!Cardinality, Cardinality
  <2>2. IsFiniteSet(RanOf(q))
    <3>1. DOMAIN q = 1 .. Len(q) /\ Len(q) \in Nat
      BY <1>1
    <3>2. IsFiniteSet(1 .. Len(q)) /\ RanOf(q) \in SUBSET (1 .. Len(q))
      BY <3>1, FS_Interval DEF RanOf
    <3> QED
      BY <3>2, FS_Subset
  <2> QED
    BY <2>1, <2>2, FS_CardinalityType DEF Agent!FunctionCalls, Agent!Ran, RanOf
<1>4. MaxSteps \in Nat
  BY WorkAssumption DEF WorkAssumption, Agent!AnswersAssumption
<1>5. CASE UNCHANGED agentVars
  <2>1. /\ phase' = phase /\ step' = step /\ calls_left' = calls_left /\ responses' = responses
        /\ conversation' = conversation /\ taken' = taken /\ analyzed' = analyzed /\ found' = found
        /\ result' = result
    BY <1>5 DEF agentVars
  <2> QED
    BY <2>1 DEF AgentInv, AgentTypes
<1>6. ASSUME NEW answer \in Answers, NEW stop \in BOOLEAN, Agent!CallGemini(answer, stop) PROVE AgentInv'
  <2> DEFINE m == [role |-> "model", calls |-> answer.calls]
             d == Append(c, m)
  <2>1. /\ phase = "asking" /\ conversation' = d
        /\ responses' = responses /\ analyzed' = analyzed /\ found' = found
    BY <1>6 DEF Agent!CallGemini
  <2>2. answer.calls \in Seq(AgentCalls) /\ None \notin AgentCalls /\ m \in Message
    BY AnswerTyped DEF Message
  <2>3. responses = <<>> /\ (c[Len(c)].role = "user" \/ c[Len(c)].calls = <<>>)
    BY <1>2, <2>1 DEF InTouch
  <2>4. Turned(d) /\ d \in Seq(Message) /\ d # <<>> /\ d[Len(d)] = m
    BY <1>1, <1>2, <2>2, <2>3, TurnedOn
  <2>5. m.role = "model" /\ m.calls = answer.calls
    OBVIOUS
  <2> HIDE DEF d, m
  <2>6. CASE answer.calls # <<>>
    <3>1. /\ phase' = "calling" /\ calls_left' = answer.calls
          /\ step' = step /\ taken' = taken /\ result' = result
      BY <1>6, <2>6 DEF Agent!CallGemini
    <3>2. AgentTypes'
      BY <1>1, <2>1, <2>2, <2>4, <3>1 DEF AgentTypes
    <3>3. Pending(answer.calls, answer.calls, <<>>)
      <4>1. PICK a \in Seq(AgentCalls) : a = answer.calls /\ a # <<>>
        BY <2>2, <2>6
      <4>2. Pending(a, a, <<>>)
        BY <4>1 DEF Pending
      <4> QED
        BY <4>1, <4>2, Zenon
    <3>4. InTouch(d, "calling", answer.calls, <<>>)
      BY <2>4, <2>5, <3>3 DEF InTouch
    <3>5. InTouch(conversation, phase, calls_left, responses)'
      BY <2>1, <2>3, <3>1, <3>4
    <3>6. Totalled(phase, result, taken)'
      BY <3>1 DEF Totalled
    <3> QED
      BY <1>2, <2>1, <2>4, <3>1, <3>2, <3>5, <3>6 DEF AgentInv
  <2>7. CASE answer.calls = <<>> /\ answer.texts # <<>>
    <3> DEFINE e == [step |-> step, call |-> None, text |-> Agent!Last(answer.texts)]
    <3>1. /\ phase' \in {"ended", "reporting"} /\ taken' = Append(q, e)
          /\ step' = step /\ calls_left' = calls_left
          /\ phase' = "ended" => result' = [final |-> "panic"]
      BY <1>6, <2>7 DEF Agent!CallGemini
    <3>2. e \in TakenStep /\ e.call = None
      BY <1>1 DEF TakenStep
    <3> HIDE DEF e
    <3>3. AgentTypes'
      BY <1>1, <2>1, <2>4, <3>1, <3>2 DEF AgentTypes
    <3>4. Noted(Append(q, e), analyzed) /\ Kept(Append(q, e), found)
      BY <1>1, <1>2, <3>2, NotedOn, KeptOn DEF HasAnswer
    <3>5. InTouch(conversation, phase, calls_left, responses)'
      BY <2>1, <2>3, <3>1 DEF InTouch
    <3>6. Totalled(phase, result, taken)'
      BY <3>1 DEF Totalled
    <3> QED
      BY <2>1, <2>4, <3>1, <3>3, <3>4, <3>5, <3>6 DEF AgentInv
  <2>8. CASE answer.calls = <<>> /\ answer.texts = <<>>
    <3>1. calls_left' = calls_left /\ taken' = taken /\ step' \in {step, step + 1}
      BY <1>6, <2>8 DEF Agent!CallGemini, Agent!Continue
    <3>2. phase' = "asking" \/ (phase' = "ended" /\ result' = Agent!Incomplete)
      BY <1>6, <2>8 DEF Agent!CallGemini, Agent!Continue
    <3>3. Agent!Incomplete.calls = Cardinality(RanOf(q))
      BY <1>3 DEF Agent!Incomplete
    <3>4. AgentTypes'
      BY <1>1, <2>1, <2>4, <3>1, <3>2 DEF AgentTypes
    <3>5. InTouch(conversation, phase, calls_left, responses)'
      BY <2>1, <2>3, <2>4, <2>5, <2>8, <3>2 DEF InTouch
    <3>6. Totalled(phase, result, taken)'
      BY <3>1, <3>2, <3>3 DEF Totalled
    <3> QED
      BY <1>2, <2>1, <2>4, <3>1, <3>4, <3>5, <3>6 DEF AgentInv
  <2> QED
    BY <2>6, <2>7, <2>8
<1>7. CASE Agent!GeminiFails
  <2>1. /\ phase' = "ended" /\ result' = [final |-> "error"] /\ phase = "asking"
        /\ step' = step /\ calls_left' = calls_left /\ responses' = responses
        /\ conversation' = conversation /\ taken' = taken /\ analyzed' = analyzed /\ found' = found
    BY <1>7 DEF Agent!GeminiFails
  <2>2. AgentTypes'
    BY <1>1, <2>1 DEF AgentTypes
  <2>3. InTouch(conversation, phase, calls_left, responses)'
    BY <1>2, <2>1 DEF InTouch
  <2>4. Totalled(phase, result, taken)'
    BY <2>1 DEF Totalled
  <2>5. Turned(conversation)' /\ Noted(taken, analyzed)' /\ Kept(taken, found)'
    BY <1>2, <2>1
  <2> QED
    BY <2>2, <2>3, <2>4, <2>5 DEF AgentInv
<1>8. ASSUME NEW outcome \in Outcomes, Agent!RunTool(outcome) PROVE AgentInv'
  <2> DEFINE call == Head(calls_left)
             reply == [name |-> call.name, result |-> outcome]
             told == Append(responses, reply)
             e == [step |-> step, call |-> call, result |-> outcome]
             g == [i \in DOMAIN outcome.findings |->
                      [finding |-> outcome.findings[i], package |-> call.package]]
  <2>1. /\ phase = "calling" /\ calls_left' = Tail(calls_left) /\ taken' = Append(q, e)
        /\ analyzed' = IF call.package \in {None} \cup Agent!ToSet(analyzed) THEN analyzed
                       ELSE Append(analyzed, call.package)
        /\ found' = IF call.name = "get_vulnerabilities" /\ outcome.ok THEN found \o g ELSE found
    BY <1>8 DEF Agent!RunTool
  <2>2. c[Len(c)].role = "model" /\ Pending(c[Len(c)].calls, calls_left, responses)
    BY <1>2, <2>1 DEF InTouch
  <2>3. c[Len(c)].calls \in Seq(AgentCalls)
    <3>1. c[Len(c)] \in Message
      BY <1>1
    <3> QED
      BY <2>2, <3>1 DEF Message
  <2>4. call \in AgentCalls /\ call # None
    <3>1. calls_left # <<>>
      BY <2>2 DEF Pending
    <3>2. call \in AgentCalls
      BY <1>1, <3>1
    <3>3. \A answer \in Answers : None \notin AgentCalls
      BY AnswerTyped
    <3> QED
      BY <3>2, <3>3 DEF AgentCalls
  <2>5. reply \in Reply /\ reply.name = Head(calls_left).name
    BY <2>4 DEF Reply
  <2>6. e \in TakenStep /\ e.call = call /\ e.result = outcome
    BY <1>1, <2>4 DEF TakenStep
  <2>7. /\ g \in Seq(Kind) /\ Len(g) = Len(outcome.findings)
        /\ \A j \in 1 .. Len(g) : g[j].finding = outcome.findings[j]
    <3>1. outcome.findings \in Seq(Agent!ToSet(outcome.findings)) /\ DOMAIN outcome.findings = 1 .. Len(outcome.findings)
          /\ Len(outcome.findings) \in Nat
      BY OutcomeTyped
    <3>2. call.package \in CallPackages
      BY <2>4 DEF CallPackages
    <3>3. \A j \in DOMAIN outcome.findings : outcome.findings[j] \in UNION {Agent!ToSet(o.findings) : o \in Outcomes}
      BY DEF Agent!ToSet
    <3>4. \A j \in DOMAIN outcome.findings :
             [finding |-> outcome.findings[j], package |-> call.package] \in Kind
      BY <3>2, <3>3 DEF Kind
    <3> HIDE DEF call
    <3> QED
      BY <3>1, <3>4
  <2> HIDE DEF reply, told, e, g, call
  <2>8. /\ Tail(calls_left) \in Seq(AgentCalls) /\ told \in Seq(Reply)
        /\ Tail(calls_left) # <<>> => Pending(c[Len(c)].calls, Tail(calls_left), told)
        /\ Tail(calls_left) = <<>> => Replied(c[Len(c)].calls, told)
    BY <1>1, <2>2, <2>3, <2>5, PendingOn DEF told
  <2>9. Noted(Append(q, e), analyzed') /\ analyzed' \in Seq(CallPackages)
    <3>1. PICK more : more = analyzed'
      OBVIOUS
    <3>2. more = IF e.call.package \in {None} \cup Agent!ToSet(analyzed) THEN analyzed
                 ELSE Append(analyzed, e.call.package)
      BY <2>1, <2>6, <3>1, Zenon
    <3>3. e.call # None
      BY <2>4, <2>6
    <3> QED
      BY <1>1, <1>2, <2>6, <3>1, <3>2, <3>3, NotedMore
  <2>10. Kept(Append(q, e), found') /\ found' \in Seq(Kind)
    <3>1. CASE HasAnswer(e)
      <4>1. found' = found \o g
        BY <2>1, <2>6, <3>1, Zenon DEF HasAnswer
      <4>2. Kept(Append(q, e), found \o g)
        BY <1>1, <1>2, <2>6, <2>7, <3>1, KeptMore
      <4>3. found \o g \in Seq(Kind)
        BY <1>1, <2>7, ConcatProperties
      <4> QED
        BY <4>1, <4>2, <4>3
    <3>2. CASE ~HasAnswer(e)
      <4>1. found' = found
        BY <2>1, <2>4, <2>6, <3>2, Zenon DEF HasAnswer
      <4> QED
        BY <1>1, <1>2, <2>6, <3>2, <4>1, KeptOn
    <3> QED
      BY <3>1, <3>2
  <2>11. Append(q, e) \in Seq(TakenStep) /\ Cardinality(RanOf(Append(q, e))) = Cardinality(RanOf(q)) + 1
    BY <1>1, <2>4, <2>6, RanMore
  <2>12. CASE Tail(calls_left) # <<>>
    <3>1. /\ responses' = told /\ phase' = phase /\ step' = step /\ conversation' = conversation
          /\ result' = result
      BY <1>8, <2>12 DEF Agent!RunTool, Agent!Told, told, reply, call
    <3>2. AgentTypes'
      BY <1>1, <2>1, <2>8, <2>9, <2>10, <2>11, <3>1 DEF AgentTypes
    <3>3. InTouch(c, phase, Tail(calls_left), told)
      BY <2>1, <2>2, <2>8, <2>12 DEF InTouch
    <3>4. InTouch(conversation, phase, calls_left, responses)'
      BY <2>1, <3>1, <3>3
    <3>5. Totalled(phase, result, taken)'
      BY <2>1, <3>1 DEF Totalled
    <3> QED
      BY <1>2, <2>1, <2>9, <2>10, <3>1, <3>2, <3>4, <3>5 DEF AgentInv
  <2>13. CASE Tail(calls_left) = <<>>
    <3> DEFINE m == [role |-> "user", told |-> told]
               d == Append(c, m)
    <3>1. /\ responses' = <<>> /\ conversation' = d /\ step' = step + 1
          /\ phase' \in {"asking", "ended"}
          /\ phase' = "ended" => result' = [Agent!Incomplete EXCEPT !.calls = @ + 1]
      BY <1>8, <2>13 DEF Agent!RunTool, Agent!Told, told, reply, call
    <3>2. m \in Message /\ m.role = "user" /\ m.told = told
      BY <2>8 DEF Message
    <3>3. Turned(d) /\ d \in Seq(Message) /\ d # <<>> /\ d[Len(d)] = m
      <4> HIDE DEF m
      <4> QED
        BY <1>1, <1>2, <2>8, <2>13, <3>2, TurnedOn
    <3> HIDE DEF m, d
    <3>4. AgentTypes'
      BY SMTT(60), <1>1, <2>1, <2>8, <2>9, <2>10, <2>11, <3>1, <3>3 DEF AgentTypes
    <3>5. InTouch(conversation, phase, calls_left, responses)'
      BY <3>1, <3>2, <3>3 DEF InTouch
    <3>6. [Agent!Incomplete EXCEPT !.calls = @ + 1].calls = Cardinality(RanOf(q)) + 1
      BY <1>3 DEF Agent!Incomplete
    <3>7. Totalled(phase, result, taken)'
      BY <2>1, <2>11, <3>1, <3>6 DEF Totalled
    <3> QED
      BY <2>1, <2>9, <2>10, <3>1, <3>3, <3>4, <3>5, <3>7 DEF AgentInv
  <2> QED
    BY <2>12, <2>13
<1>9. ASSUME NEW made \in BOOLEAN, Agent!GenerateStructuredReport(made) PROVE AgentInv'
  <2>1. /\ phase' = "ended" /\ result'.calls = Cardinality(RanOf(q)) /\ phase = "reporting"
        /\ step' = step /\ calls_left' = calls_left /\ responses' = responses
        /\ conversation' = conversation /\ taken' = taken /\ analyzed' = analyzed /\ found' = found
    BY <1>3, <1>9 DEF Agent!GenerateStructuredReport
  <2>2. AgentTypes'
    BY <1>1, <2>1 DEF AgentTypes
  <2>3. InTouch(conversation, phase, calls_left, responses)'
    BY <1>2, <2>1 DEF InTouch
  <2>4. Totalled(phase, result, taken)'
    BY <2>1 DEF Totalled
  <2>5. Turned(conversation)' /\ Noted(taken, analyzed)' /\ Kept(taken, found)'
    BY <1>2, <2>1
  <2> QED
    BY <2>2, <2>3, <2>4, <2>5 DEF AgentInv
<1>10. UNCHANGED agentVars \/ Agent!Next
  BY DEF WorkNext, OthersUnchanged, workVars
<1> QED
  BY <1>5, <1>6, <1>7, <1>8, <1>9, <1>10 DEF Agent!Next

-----------------------------------------------------------------------------
(* Searches: the vector of their own text.                                 *)

QueryFields == {"stage", "text", "provider", "attempt", "vector", "sent", "hit", "reason", "calls"}
OfText(vector, t) == vector.text = t /\ vector.dimension = Dimension

\* A request asks the providers one after the other: one that it has given up
\* was asked, one that it has not come to was not, and the one it asks was
\* asked once for each attempt before this one.
SearchOk(call) ==
    /\ DOMAIN call = QueryFields
    /\ call.stage \in {"idle", "asking", "storing", "done", "failed"}
    /\ call.provider \in DOMAIN Providers /\ call.attempt \in 0 .. SearchRetries
    /\ call.sent \in [DOMAIN Providers -> 0 .. SearchRetries + 1]
    /\ call.stage \in {"storing", "done"} => OfText(call.vector, call.text)
    /\ \A p \in DOMAIN Providers :
          /\ p < call.provider => call.sent[p] > 0
          /\ p > call.provider => call.sent[p] = 0
    /\ call.stage = "asking" => call.sent[call.provider] = call.attempt
    /\ call.hit => call.stage = "done" /\ \A p \in DOMAIN Providers : call.sent[p] = 0
    /\ call.stage # "failed" => call.reason = None
    /\ call.reason = "provider" => \A p \in DOMAIN Providers : call.sent[p] > 0

QueryInv ==
    /\ IsFiniteSet(DOMAIN embeddings) /\ Cardinality(DOMAIN embeddings) <= SearchCacheSize
    /\ \A t \in DOMAIN embeddings : OfText(embeddings[t].vector, t)
    /\ DOMAIN asking = Searches /\ \A r \in Searches : SearchOk(asking[r])

LEMMA QuerySizes ==
    /\ SearchCacheSize \in Nat /\ SearchCacheSize > 1 /\ SearchRetries \in Nat
    /\ Len(Providers) \in Nat \ {0} /\ DOMAIN Providers = 1 .. Len(Providers)
    /\ None # "provider"
<1>1. /\ SearchCacheSize \in Nat /\ SearchCacheSize > 1 /\ SearchRetries \in Nat
      /\ Providers # <<>> /\ Providers \in Seq({Providers[p] : p \in DOMAIN Providers})
      /\ None # "provider"
  BY WorkAssumption DEF WorkAssumption, Query!SizesAssumption
<1>2. \A S : \A q \in Seq(S) : DOMAIN q = 1 .. Len(q) /\ Len(q) \in Nat /\ (q # <<>> => Len(q) # 0)
  BY EmptySeq
<1>3. DOMAIN Providers = 1 .. Len(Providers) /\ Len(Providers) \in Nat /\ Len(Providers) # 0
  BY <1>1, <1>2
<1> QED
  BY <1>1, <1>3

LEMMA QueryInvIs == QueryInv => Query!QueriesAnswered
<1> SUFFICES ASSUME QueryInv PROVE Query!QueriesAnswered
  OBVIOUS
<1>1. \A S : Query!Cardinality(S) = Cardinality(S)
  BY DEF Query!Cardinality, Cardinality
<1>2. Query!Cardinality(DOMAIN embeddings) <= SearchCacheSize
  BY <1>1 DEF QueryInv
<1>3. \A t \in DOMAIN embeddings : embeddings[t].vector.text = t /\ embeddings[t].vector.dimension = Dimension
  BY Zenon DEF QueryInv, OfText
<1>4. ASSUME NEW r \in Searches
      PROVE  /\ asking[r].stage \in {"storing", "done"} =>
                    asking[r].vector.text = asking[r].text /\ asking[r].vector.dimension = Dimension
             /\ \A p \in DOMAIN Providers :
                    /\ asking[r].sent[p] <= SearchRetries + 1
                    /\ p < asking[r].provider => asking[r].sent[p] > 0
                    /\ (p > asking[r].provider \/ asking[r].hit) => asking[r].sent[p] = 0
             /\ asking[r].reason = "provider" => \A p \in DOMAIN Providers : asking[r].sent[p] > 0
  <2> DEFINE call == asking[r]
  <2>1. SearchOk(call)
    BY DEF QueryInv
  <2> HIDE DEF call
  <2>2. \A p \in DOMAIN Providers : call.sent[p] <= SearchRetries + 1
    BY <2>1, QuerySizes DEF SearchOk
  <2>3. /\ call.stage \in {"storing", "done"} => OfText(call.vector, call.text)
        /\ \A p \in DOMAIN Providers :
                    /\ p < call.provider => call.sent[p] > 0
                    /\ (p > call.provider \/ call.hit) => call.sent[p] = 0
        /\ call.reason = "provider" => \A p \in DOMAIN Providers : call.sent[p] > 0
    BY <2>1, Zenon DEF SearchOk
  <2> QED
    BY <2>2, <2>3, Zenon DEF OfText, call
<1> QED
  BY <1>2, <1>3, <1>4, Zenon DEF Query!QueriesAnswered

LEMMA IdleOk == ASSUME NEW n PROVE SearchOk(Query!Idle(n))
<1> DEFINE call == Query!Idle(n)
<1>1. /\ DOMAIN call = QueryFields /\ call.stage = "idle" /\ call.provider = 1 /\ call.attempt = 0
      /\ call.sent = [p \in DOMAIN Providers |-> 0] /\ call.hit = FALSE /\ call.reason = None
  BY DEF Query!Idle, QueryFields
<1> HIDE DEF call
<1>2. 1 \in DOMAIN Providers /\ (\A p \in DOMAIN Providers : ~(p < 1)) /\ 0 \in 0 .. SearchRetries
      /\ 0 \in 0 .. SearchRetries + 1
  BY QuerySizes
<1>3. SearchOk(call)
  BY <1>1, <1>2, QuerySizes DEF SearchOk
<1> QED
  BY <1>3 DEF call

LEMMA QueryInit == WorkInit => QueryInv
<1> SUFFICES ASSUME WorkInit PROVE QueryInv
  OBVIOUS
<1>1. embeddings = [t \in {} |-> None] /\ asking = [r \in Searches |-> Query!Idle(0)]
  BY DEF WorkInit, Query!Init
<1>2. DOMAIN embeddings = {} /\ IsFiniteSet({}) /\ Cardinality({}) = 0
  BY <1>1, FS_EmptySet
<1>3. IsFiniteSet(DOMAIN embeddings) /\ Cardinality(DOMAIN embeddings) <= SearchCacheSize
  BY <1>2, QuerySizes
<1>4. DOMAIN asking = Searches /\ \A r \in Searches : SearchOk(asking[r])
  BY <1>1, IdleOk
<1> QED
  BY <1>2, <1>3, <1>4, Zenon DEF QueryInv

\* One request becomes what it may be.
LEMMA SearchBecomes ==
    ASSUME QueryInv, NEW r \in Searches, NEW call, SearchOk(call), asking' = [asking EXCEPT ![r] = call]
    PROVE  DOMAIN asking' = Searches /\ \A s \in Searches : SearchOk(asking'[s])
<1>1. DOMAIN asking = Searches /\ \A s \in Searches : SearchOk(asking[s])
  BY Zenon DEF QueryInv
<1>2. DOMAIN asking' = Searches /\ \A s \in Searches : asking'[s] = IF s = r THEN call ELSE asking[s]
  BY <1>1
<1> QED
  BY <1>1, <1>2

LEMMA QueryKept ==
    ASSUME QueryInv, embeddings' = embeddings,
           DOMAIN asking' = Searches /\ \A s \in Searches : SearchOk(asking'[s])
    PROVE  QueryInv'
  BY DEF QueryInv, SearchOk, OfText

LEMMA QueryGenerate ==
    ASSUME QueryInv, NEW r \in Searches, NEW t \in SearchTexts, Query!Generate(r, t)
    PROVE  QueryInv'
<1> DEFINE idle == Query!Idle(asking[r].calls + 1)
           hit == [idle EXCEPT !.stage = "done", !.text = t, !.vector = embeddings[t].vector, !.hit = TRUE]
           miss == [idle EXCEPT !.stage = "asking", !.text = t]
<1>1. embeddings' = embeddings /\ asking' = [asking EXCEPT ![r] = IF Query!Fresh(t) THEN hit ELSE miss]
  BY DEF Query!Generate
<1>2. SearchOk(idle)
  BY IdleOk
<1>3. /\ idle.provider = 1 /\ idle.attempt = 0 /\ idle.sent = [p \in DOMAIN Providers |-> 0]
      /\ idle.hit = FALSE /\ idle.reason = None /\ DOMAIN idle = QueryFields
  BY DEF Query!Idle, QueryFields
<1> HIDE DEF idle
<1>4. 1 \in DOMAIN Providers
  BY QuerySizes
<1>5. Query!Fresh(t) => SearchOk(hit)
  <2> SUFFICES ASSUME Query!Fresh(t) PROVE SearchOk(hit)
    OBVIOUS
  <2>1. OfText(embeddings[t].vector, t)
    BY DEF Query!Fresh, QueryInv
  <2>2. /\ DOMAIN hit = QueryFields /\ hit.stage = "done" /\ hit.provider = 1 /\ hit.attempt = 0
        /\ hit.sent = [p \in DOMAIN Providers |-> 0] /\ hit.reason = None
        /\ hit.vector = embeddings[t].vector /\ hit.text = t
    BY <1>3 DEF QueryFields
  <2> HIDE DEF hit
  <2> QED
    BY <2>1, <2>2, <1>2, <1>3, <1>4, QuerySizes DEF SearchOk
<1>6. SearchOk(miss)
  <2>1. /\ DOMAIN miss = QueryFields /\ miss.stage = "asking" /\ miss.provider = 1 /\ miss.attempt = 0
        /\ miss.sent = [p \in DOMAIN Providers |-> 0] /\ miss.reason = None /\ miss.hit = FALSE
    BY <1>3 DEF QueryFields
  <2> HIDE DEF miss
  <2> QED
    BY <2>1, <1>2, <1>3, <1>4, QuerySizes DEF SearchOk
<1> HIDE DEF hit, miss
<1>7. SearchOk(IF Query!Fresh(t) THEN hit ELSE miss)
  BY <1>5, <1>6
<1> QED
  BY <1>1, <1>7, SearchBecomes, QueryKept

\* A call to the provider that is being asked.
LEMMA SentOk ==
    ASSUME NEW call, SearchOk(call), call.stage = "asking"
    PROVE  LET sent == Query!Sent(call)
           IN  /\ DOMAIN sent = QueryFields
               /\ sent.stage = "asking" /\ sent.provider = call.provider /\ sent.attempt = call.attempt
               /\ sent.text = call.text /\ sent.reason = None /\ ~sent.hit
               /\ sent.sent \in [DOMAIN Providers -> 0 .. SearchRetries + 1]
               /\ sent.sent[call.provider] = call.attempt + 1
               /\ \A p \in DOMAIN Providers :
                     /\ p < call.provider => sent.sent[p] > 0
                     /\ p > call.provider => sent.sent[p] = 0
<1> DEFINE sent == Query!Sent(call)
           f == [call.sent EXCEPT ![call.provider] = @ + 1]
<1>1. /\ DOMAIN call = QueryFields /\ call.provider \in DOMAIN Providers
      /\ call.attempt \in 0 .. SearchRetries
      /\ call.sent \in [DOMAIN Providers -> 0 .. SearchRetries + 1]
      /\ call.sent[call.provider] = call.attempt /\ call.reason = None /\ ~call.hit
      /\ \A p \in DOMAIN Providers :
            /\ p < call.provider => call.sent[p] > 0
            /\ p > call.provider => call.sent[p] = 0
  BY DEF SearchOk
<1>2. /\ DOMAIN sent = QueryFields /\ sent.stage = "asking" /\ sent.provider = call.provider
      /\ sent.attempt = call.attempt /\ sent.text = call.text /\ sent.reason = None /\ ~sent.hit
      /\ sent.sent = f
  BY <1>1 DEF Query!Sent, QueryFields
<1> HIDE DEF sent
<1>3. \A p \in DOMAIN Providers : f[p] = IF p = call.provider THEN call.attempt + 1 ELSE call.sent[p]
  BY <1>1
<1>4. call.attempt + 1 \in 0 .. SearchRetries + 1
  BY <1>1, QuerySizes
<1>5. f \in [DOMAIN Providers -> 0 .. SearchRetries + 1]
  BY <1>1, <1>4
<1>6. call.provider \in Nat /\ \A p \in DOMAIN Providers : p \in Nat
  BY <1>1, QuerySizes
<1> HIDE DEF f
<1>7. \A p \in DOMAIN Providers :
                     /\ p < call.provider => f[p] > 0
                     /\ p > call.provider => f[p] = 0
  BY <1>1, <1>3, <1>6
<1> QED
  BY <1>1, <1>2, <1>3, <1>5, <1>7 DEF sent

LEMMA QueryFails ==
    ASSUME QueryInv, NEW r \in Searches, NEW retriable \in BOOLEAN, Query!ProviderFails(r, retriable)
    PROVE  QueryInv'
<1> DEFINE call == asking[r]
           sent == Query!Sent(call)
           again == [sent EXCEPT !.attempt = @ + 1]
           next == [sent EXCEPT !.provider = @ + 1, !.attempt = 0]
           failed == [sent EXCEPT !.stage = "failed", !.reason = "provider"]
           becomes == IF retriable /\ sent.attempt < SearchRetries THEN again
                      ELSE IF sent.provider < Len(Providers) THEN next ELSE failed
<1>1. embeddings' = embeddings /\ asking' = [asking EXCEPT ![r] = becomes] /\ call.stage = "asking"
  BY DEF Query!ProviderFails
<1>2. SearchOk(call)
  BY Zenon DEF QueryInv
<1>3. /\ DOMAIN sent = QueryFields
      /\ sent.stage = "asking" /\ sent.provider = call.provider /\ sent.attempt = call.attempt
      /\ sent.reason = None /\ ~sent.hit
      /\ sent.sent \in [DOMAIN Providers -> 0 .. SearchRetries + 1]
      /\ sent.sent[call.provider] = call.attempt + 1
      /\ \A p \in DOMAIN Providers :
            /\ p < call.provider => sent.sent[p] > 0
            /\ p > call.provider => sent.sent[p] = 0
  BY <1>1, <1>2, SentOk
<1>4. call.provider \in 1 .. Len(Providers) /\ call.attempt \in 0 .. SearchRetries
  BY <1>2, QuerySizes DEF SearchOk
<1> HIDE DEF call, sent
<1>5. sent.attempt < SearchRetries => SearchOk(again)
  <2> SUFFICES ASSUME sent.attempt < SearchRetries PROVE SearchOk(again)
    OBVIOUS
  <2>1. /\ DOMAIN again = QueryFields /\ again.stage = "asking" /\ again.provider = call.provider
        /\ again.attempt = call.attempt + 1 /\ again.reason = None /\ ~again.hit /\ again.sent = sent.sent
    BY <1>3 DEF QueryFields
  <2>2. call.attempt + 1 \in 0 .. SearchRetries
    BY <1>3, <1>4, QuerySizes
  <2> HIDE DEF again
  <2> QED
    BY <2>1, <2>2, <1>3, <1>4, QuerySizes DEF SearchOk
<1>6. sent.provider < Len(Providers) => SearchOk(next)
  <2> SUFFICES ASSUME sent.provider < Len(Providers) PROVE SearchOk(next)
    OBVIOUS
  <2>1. /\ DOMAIN next = QueryFields /\ next.stage = "asking" /\ next.provider = call.provider + 1
        /\ next.attempt = 0 /\ next.reason = None /\ ~next.hit /\ next.sent = sent.sent
    BY <1>3 DEF QueryFields
  <2>2. call.provider + 1 \in DOMAIN Providers /\ call.provider + 1 > call.provider
        /\ 0 \in 0 .. SearchRetries /\ call.attempt + 1 > 0
    BY <1>3, <1>4, QuerySizes
  <2>3. \A p \in DOMAIN Providers :
            /\ p < call.provider + 1 => (p < call.provider \/ p = call.provider)
            /\ p > call.provider + 1 => p > call.provider
    BY <1>4, QuerySizes
  <2>4. \A p \in DOMAIN Providers :
            /\ p < call.provider + 1 => sent.sent[p] > 0
            /\ p > call.provider + 1 => sent.sent[p] = 0
    BY <2>2, <2>3, <1>3
  <2>5. sent.sent[call.provider + 1] = 0
    BY <2>2, <1>3
  <2> HIDE DEF next
  <2> QED
    BY <2>1, <2>2, <2>4, <2>5, <1>3, QuerySizes DEF SearchOk
<1>7. ~(sent.provider < Len(Providers)) => SearchOk(failed)
  <2> SUFFICES ASSUME ~(sent.provider < Len(Providers)) PROVE SearchOk(failed)
    OBVIOUS
  <2>1. /\ DOMAIN failed = QueryFields /\ failed.stage = "failed" /\ failed.provider = call.provider
        /\ failed.attempt = call.attempt /\ ~failed.hit /\ failed.sent = sent.sent
    BY <1>3 DEF QueryFields
  <2>2. call.provider = Len(Providers) /\ call.attempt + 1 > 0
    BY <1>3, <1>4, QuerySizes
  <2>3. \A p \in DOMAIN Providers : p < call.provider \/ p = call.provider
    BY <2>2, QuerySizes
  <2>4. \A p \in DOMAIN Providers : sent.sent[p] > 0
    BY <2>2, <2>3, <1>3
  <2> HIDE DEF failed
  <2> QED
    BY <2>1, <2>4, <1>3, <1>4, QuerySizes DEF SearchOk
<1> HIDE DEF again, next, failed
<1>8. SearchOk(becomes)
  BY <1>5, <1>6, <1>7
<1> HIDE DEF becomes
<1> QED
  BY <1>1, <1>8, SearchBecomes, QueryKept

LEMMA QueryAnswers ==
    ASSUME QueryInv, NEW r \in Searches, NEW n \in Dimensions, Query!ProviderAnswers(r, n)
    PROVE  QueryInv'
<1> DEFINE call == asking[r]
           sent == Query!Sent(call)
           vector == [text |-> sent.text, by |-> sent.provider, dimension |-> n]
           storing == [sent EXCEPT !.stage = "storing", !.vector = vector]
           failed == [sent EXCEPT !.stage = "failed", !.reason = "dimension"]
           becomes == IF n = Dimension THEN storing ELSE failed
<1>1. embeddings' = embeddings /\ asking' = [asking EXCEPT ![r] = becomes] /\ call.stage = "asking"
  BY DEF Query!ProviderAnswers
<1>2. SearchOk(call)
  BY Zenon DEF QueryInv
<1>3. /\ DOMAIN sent = QueryFields
      /\ sent.stage = "asking" /\ sent.provider = call.provider /\ sent.attempt = call.attempt
      /\ sent.reason = None /\ ~sent.hit
      /\ sent.sent \in [DOMAIN Providers -> 0 .. SearchRetries + 1]
      /\ sent.sent[call.provider] = call.attempt + 1
      /\ \A p \in DOMAIN Providers :
            /\ p < call.provider => sent.sent[p] > 0
            /\ p > call.provider => sent.sent[p] = 0
  BY <1>1, <1>2, SentOk
<1>4. call.provider \in DOMAIN Providers /\ call.attempt \in 0 .. SearchRetries
  BY <1>2 DEF SearchOk
<1> HIDE DEF call, sent
<1>5. n = Dimension => SearchOk(storing)
  <2> SUFFICES ASSUME n = Dimension PROVE SearchOk(storing)
    OBVIOUS
  <2>1. /\ DOMAIN storing = QueryFields /\ storing.stage = "storing" /\ storing.provider = call.provider
        /\ storing.attempt = call.attempt /\ ~storing.hit /\ storing.sent = sent.sent
        /\ storing.reason = None /\ storing.text = sent.text /\ storing.vector = vector
    BY <1>3 DEF QueryFields
  <2>2. OfText(storing.vector, storing.text)
    BY <2>1 DEF OfText
  <2> HIDE DEF storing
  <2> QED
    BY <2>1, <2>2, <1>3, <1>4, QuerySizes DEF SearchOk
<1>6. SearchOk(failed)
  <2>1. /\ DOMAIN failed = QueryFields /\ failed.stage = "failed" /\ failed.provider = call.provider
        /\ failed.attempt = call.attempt /\ ~failed.hit /\ failed.sent = sent.sent
        /\ failed.reason = "dimension"
    BY <1>3 DEF QueryFields
  <2> HIDE DEF failed
  <2> QED
    BY <2>1, <1>3, <1>4, QuerySizes DEF SearchOk
<1> HIDE DEF storing, failed
<1>8. SearchOk(becomes)
  BY <1>5, <1>6
<1> HIDE DEF becomes
<1> QED
  BY <1>1, <1>8, SearchBecomes, QueryKept

LEMMA QueryCancel == ASSUME QueryInv, NEW r \in Searches, Query!Cancel(r) PROVE QueryInv'
<1> DEFINE idle == Query!Idle(asking[r].calls)
<1>1. embeddings' = embeddings /\ asking' = [asking EXCEPT ![r] = idle]
  BY DEF Query!Cancel
<1>2. SearchOk(idle)
  BY IdleOk
<1> HIDE DEF idle
<1> QED
  BY <1>1, <1>2, SearchBecomes, QueryKept

\* What is kept of the cache leaves room for one more.
LEMMA RoomMade ==
    ASSUME QueryInv, NEW kept \in Query!Kept
    PROVE  /\ IsFiniteSet(DOMAIN kept) /\ Cardinality(DOMAIN kept) \in Nat
           /\ Cardinality(DOMAIN kept) < SearchCacheSize
           /\ \A t \in DOMAIN kept : OfText(kept[t].vector, t)
<1> DEFINE D == DOMAIN embeddings
<1>1. /\ IsFiniteSet(D) /\ Cardinality(D) \in Nat /\ Cardinality(D) <= SearchCacheSize
      /\ \A t \in D : OfText(embeddings[t].vector, t)
  BY FS_CardinalityType DEF QueryInv
<1>2. \A S : Query!Cardinality(S) = Cardinality(S)
  BY DEF Query!Cardinality, Cardinality
<1>3. CASE Cardinality(D) < SearchCacheSize
  <2>1. kept = embeddings
    BY <1>2, <1>3 DEF Query!Kept
  <2> QED
    BY <2>1, <1>1, <1>3
<1>4. CASE ~(Cardinality(D) < SearchCacheSize)
  <2>1. PICK gone \in SUBSET D :
            /\ Cardinality(gone) = SearchCacheSize \div 2
            /\ kept = Query!Restrict(embeddings, D \ gone)
    BY <1>2, <1>4 DEF Query!Kept
  <2>2. DOMAIN kept = D \ gone /\ \A t \in D \ gone : kept[t] = embeddings[t]
    BY <2>1 DEF Query!Restrict
  <2>3. D \cap gone = gone
    OBVIOUS
  <2>4. IsFiniteSet(D \ gone) /\ Cardinality(D \ gone) = Cardinality(D) - Cardinality(gone)
    BY <2>3, <1>1, FS_Difference
  <2>5. Cardinality(D) = SearchCacheSize
    BY <1>1, <1>4, QuerySizes
  <2>6. SearchCacheSize \div 2 \in Nat /\ SearchCacheSize \div 2 >= 1
        /\ SearchCacheSize \div 2 <= SearchCacheSize
    BY QuerySizes
  <2>7. Cardinality(D \ gone) \in Nat /\ Cardinality(D \ gone) < SearchCacheSize
    BY <2>1, <2>4, <2>5, <2>6, QuerySizes
  <2> QED
    BY <2>2, <2>4, <2>7, <1>1
<1> QED
  BY <1>3, <1>4

LEMMA QueryStore == ASSUME QueryInv, NEW r \in Searches, Query!Store(r) PROVE QueryInv'
<1> DEFINE call == asking[r]
           stored == [call EXCEPT !.stage = "done"]
<1>1. PICK kept \in Query!Kept :
          embeddings' = [t \in DOMAIN kept \cup {call.text} |->
                          IF t = call.text THEN [vector |-> call.vector, inserted |-> time] ELSE kept[t]]
  BY DEF Query!Store
<1>2. call.stage = "storing" /\ asking' = [asking EXCEPT ![r] = stored]
  BY DEF Query!Store
<1>3. SearchOk(call) /\ OfText(call.vector, call.text)
  BY <1>2, Zenon DEF QueryInv, SearchOk
<1>4. /\ DOMAIN embeddings' = DOMAIN kept \cup {call.text}
      /\ \A t \in DOMAIN embeddings' :
            embeddings'[t].vector = IF t = call.text THEN call.vector ELSE kept[t].vector
  BY <1>1
<1> HIDE DEF call
<1>5. /\ IsFiniteSet(DOMAIN kept) /\ Cardinality(DOMAIN kept) \in Nat
      /\ Cardinality(DOMAIN kept) < SearchCacheSize
      /\ \A t \in DOMAIN kept : OfText(kept[t].vector, t)
  BY RoomMade
<1>6. \A t \in DOMAIN embeddings' : OfText(embeddings'[t].vector, t)
  BY <1>3, <1>4, <1>5
<1>7. IsFiniteSet(DOMAIN embeddings') /\ Cardinality(DOMAIN embeddings') <= SearchCacheSize
  <2> DEFINE K == DOMAIN kept
  <2>1. IsFiniteSet(K) /\ Cardinality(K) \in Nat /\ Cardinality(K) < SearchCacheSize
    BY <1>5
  <2> HIDE DEF K
  <2>2. /\ IsFiniteSet(K \cup {call.text})
        /\ Cardinality(K \cup {call.text}) = IF call.text \in K THEN Cardinality(K) ELSE Cardinality(K) + 1
    BY <2>1, FS_AddElement
  <2>3. Cardinality(K \cup {call.text}) <= SearchCacheSize
    BY <2>1, <2>2, QuerySizes
  <2> QED
    BY <2>2, <2>3, <1>4 DEF K
<1>8. SearchOk(stored)
  <2>1. /\ DOMAIN stored = QueryFields /\ stored.stage = "done" /\ stored.provider = call.provider
        /\ stored.attempt = call.attempt /\ stored.hit = call.hit /\ stored.sent = call.sent
        /\ stored.reason = call.reason /\ stored.text = call.text /\ stored.vector = call.vector
    BY <1>3 DEF QueryFields, SearchOk
  <2>2. call.stage = "storing"
    BY <1>2 DEF call
  <2> HIDE DEF stored
  <2> QED
    BY <2>1, <2>2, <1>3 DEF SearchOk
<1> HIDE DEF stored
<1>9. DOMAIN asking' = Searches /\ \A s \in Searches : SearchOk(asking'[s])
  BY <1>2, <1>8, SearchBecomes
<1> QED
  BY <1>6, <1>7, <1>9 DEF QueryInv, SearchOk, OfText

LEMMA QueryStep == QueryInv /\ [WorkNext]_workVars => QueryInv'
<1> SUFFICES ASSUME QueryInv, [WorkNext]_workVars PROVE QueryInv'
  OBVIOUS
<1>1. CASE UNCHANGED queryVars
  BY <1>1 DEF queryVars, QueryInv, SearchOk, OfText
<1>2. CASE Query!Next
  <2>1. CASE Query!Pass
    BY <2>1 DEF Query!Pass, QueryInv, SearchOk, OfText
  <2> QED
    BY <1>2, <2>1, QueryGenerate, QueryFails, QueryAnswers, QueryStore, QueryCancel DEF Query!Next
<1>3. UNCHANGED queryVars \/ Query!Next
  BY DEF WorkNext, OthersUnchanged, workVars
<1> QED
  BY <1>1, <1>2, <1>3

-----------------------------------------------------------------------------
(* Streams: the rows that were sent.                                       *)

StreamBatch ==
    [items : Seq(Nat), number : Nat, hasMore : BOOLEAN, ok : {TRUE}] \cup [ok : {FALSE}]

\* How many rows k full batches have.
RowsOf(k) == k * BatchItems

LEMMA RowsOfMore == \A k \in Nat : RowsOf(k) \in Nat /\ RowsOf(k + 1) = RowsOf(k) + BatchItems /\ RowsOf(0) = 0
<1>1. BatchItems \in Nat
  BY WorkAssumption DEF WorkAssumption, Streams!SizesAssumption
<1>2. ASSUME NEW k \in Nat PROVE k * BatchItems \in Nat /\ (k + 1) * BatchItems = k * BatchItems + BatchItems
  BY <1>1
<1>3. 0 * BatchItems = 0
  BY <1>1
<1> QED
  BY <1>2, <1>3 DEF RowsOf

\* What the batch behind k full ones holds, when it is none that failed.
BatchOk(one, k) ==
    one.ok =>
        /\ one.number = k
        /\ \A j \in DOMAIN one.items : one.items[j] = RowsOf(k) + j
        /\ RowsOf(k) + Len(one.items) <= rows /\ RowsOf(k) + Len(one.items) <= maximum
        /\ one.hasMore <=> Len(one.items) = BatchItems
Full(one) == one.ok /\ one.hasMore

\* Every batch that was sent is full, but the last one.
InSeries(sent) ==
    \A i \in 1 .. Len(sent) : BatchOk(sent[i], i - 1) /\ (i < Len(sent) => Full(sent[i]))

\* How many rows the first n have.
RowsTo(sent, n) ==
    IF n = 0 THEN 0
    ELSE RowsOf(n - 1) + IF sent[n].ok THEN Len(sent[n].items) ELSE 0

ItemsOf(sent) == [i \in DOMAIN sent |-> DOMAIN sent[i].items]
Fine(sent, n) == {j \in 1 .. n : sent[j].ok}

LEMMA BatchTyped ==
    ASSUME NEW sent \in Seq(StreamBatch), NEW i \in 1 .. Len(sent), sent[i].ok
    PROVE  /\ sent[i].items \in Seq(Nat) /\ Len(sent[i].items) \in Nat
           /\ DOMAIN sent[i].items = 1 .. Len(sent[i].items)
<1>1. sent[i] \in StreamBatch
  OBVIOUS
<1>2. \A e \in StreamBatch : e.ok => e.items \in Seq(Nat)
  BY DEF StreamBatch
<1> QED
  BY <1>1, <1>2

LEMMA RowsToTyped ==
    ASSUME NEW sent \in Seq(StreamBatch), InSeries(sent)
    PROVE  /\ \A n \in 0 .. Len(sent) : RowsTo(sent, n) \in Nat
           /\ \A n \in 0 .. Len(sent) : n < Len(sent) => RowsTo(sent, n) = RowsOf(n)
<1>1. Len(sent) \in Nat
  OBVIOUS
<1>2. ASSUME NEW n \in 1 .. Len(sent)
      PROVE  /\ RowsTo(sent, n) \in Nat
             /\ n < Len(sent) => RowsTo(sent, n) = RowsOf(n)
  <2>1. RowsTo(sent, n) = RowsOf(n - 1) + IF sent[n].ok THEN Len(sent[n].items) ELSE 0
    BY DEF RowsTo
  <2>2. RowsOf(n - 1) \in Nat /\ RowsOf(n) = RowsOf(n - 1) + BatchItems
    <3>1. n - 1 \in Nat /\ (n - 1) + 1 = n
      OBVIOUS
    <3> QED
      BY <3>1, RowsOfMore
  <2>3. sent[n].ok => Len(sent[n].items) \in Nat
    BY BatchTyped
  <2>4. n < Len(sent) => (sent[n].ok /\ Len(sent[n].items) = BatchItems)
    BY Zenon DEF InSeries, Full, BatchOk
  <2> QED
    BY <2>1, <2>2, <2>3, <2>4
<1>3. RowsTo(sent, 0) = 0 /\ RowsOf(0) = 0
  BY RowsOfMore DEF RowsTo
<1> QED
  BY <1>1, <1>2, <1>3

LEMMA RowsCounted ==
    ASSUME NEW sent \in Seq(StreamBatch), InSeries(sent)
    PROVE  \A n \in 0 .. Len(sent) :
              /\ IsFiniteSet(Cells(ItemsOf(sent), Fine(sent, n)))
              /\ Cardinality(Cells(ItemsOf(sent), Fine(sent, n))) = RowsTo(sent, n)
<1> DEFINE Counted(n) == /\ IsFiniteSet(Cells(ItemsOf(sent), Fine(sent, n)))
                         /\ Cardinality(Cells(ItemsOf(sent), Fine(sent, n))) = RowsTo(sent, n)
           Wrong == {n \in 0 .. Len(sent) : ~Counted(n)}
<1>1. Len(sent) \in Nat
  OBVIOUS
<1>2. Counted(0)
  <2>1. Fine(sent, 0) = {}
    BY DEF Fine
  <2> QED
    BY <2>1, NoCells, Zenon DEF RowsTo
<1>3. ASSUME NEW n \in 1 .. Len(sent), Counted(n - 1) PROVE Counted(n)
  <2>1. n - 1 \in 0 .. Len(sent) /\ n - 1 < Len(sent) /\ n # 0
    BY <1>1
  <2>2. RowsTo(sent, n - 1) = RowsOf(n - 1) /\ RowsOf(n - 1) \in Nat
    BY <2>1, RowsToTyped, RowsOfMore
  <2>3. \A j : j \in 1 .. n <=> (j \in 1 .. n - 1 \/ j = n)
    OBVIOUS
  <2>4. CASE sent[n].ok
    <3>1. Fine(sent, n) = Fine(sent, n - 1) \cup {n} /\ n \notin Fine(sent, n - 1)
      <4>1. \A j : j \in Fine(sent, n) <=> (j \in Fine(sent, n - 1) \/ j = n)
        BY <2>3, <2>4, Zenon DEF Fine
      <4>2. Fine(sent, n) = Fine(sent, n - 1) \cup {n}
        BY <4>1
      <4> QED
        BY <4>2 DEF Fine
    <3>2. Len(sent[n].items) \in Nat /\ ItemsOf(sent)[n] = 1 .. Len(sent[n].items)
      BY <2>4, BatchTyped DEF ItemsOf
    <3>3. IsFiniteSet(Cells(ItemsOf(sent), Fine(sent, n - 1)))
      BY <1>3, Zenon
    <3>4. /\ IsFiniteSet(Cells(ItemsOf(sent), Fine(sent, n - 1) \cup {n}))
          /\ Cardinality(Cells(ItemsOf(sent), Fine(sent, n - 1) \cup {n}))
                = Cardinality(Cells(ItemsOf(sent), Fine(sent, n - 1))) + Len(sent[n].items)
      BY <3>1, <3>2, <3>3, CellsAdded
    <3>5. RowsTo(sent, n) = RowsOf(n - 1) + Len(sent[n].items)
      BY <2>1, <2>4 DEF RowsTo
    <3>6. Cardinality(Cells(ItemsOf(sent), Fine(sent, n - 1))) = RowsOf(n - 1)
      BY <2>2, <1>3, Zenon
    <3> QED
      BY <3>1, <3>4, <3>5, <3>6, Zenon
  <2>5. CASE ~sent[n].ok
    <3>1. Fine(sent, n) = Fine(sent, n - 1)
      <4>1. \A j : j \in Fine(sent, n) <=> j \in Fine(sent, n - 1)
        BY <2>3, <2>5, Zenon DEF Fine
      <4> QED
        BY <4>1
    <3>2. RowsTo(sent, n) = RowsOf(n - 1)
      BY <2>1, <2>2, <2>5 DEF RowsTo
    <3> QED
      BY <3>1, <3>2, <2>2, <1>3, Zenon
  <2> QED
    BY <2>4, <2>5
<1> HIDE DEF Counted
<1>4. SUFFICES ASSUME Wrong # {} PROVE FALSE
  BY Zenon DEF Counted
<1>5. Wrong \in SUBSET Nat
  OBVIOUS
<1>6. PICK n \in Wrong : \A m \in Wrong : n <= m
  BY <1>4, <1>5, LeastNat
<1>7. n \in 1 .. Len(sent) /\ ~Counted(n)
  BY <1>2, <1>6
<1>8. n - 1 \in 0 .. Len(sent) /\ ~(n <= n - 1)
  BY <1>1, <1>7
<1>9. Counted(n - 1)
  BY <1>6, <1>8
<1> QED
  BY <1>3, <1>7, <1>9

\* The whole stream was sent.
AllSent(sent) ==
    /\ RowsTo(sent, Len(sent)) = Streams!Least(rows, maximum)
    /\ (sent # <<>> /\ sent[Len(sent)].hasMore) => RowsTo(sent, Len(sent)) = maximum

StreamTypes ==
    /\ rows \in Nat /\ maximum \in Nat /\ listening \in BOOLEAN
    /\ channel \in Seq(StreamBatch) /\ received \in Seq(StreamBatch)
    /\ DOMAIN fetching = {"number", "total", "state", "batch"}
    /\ fetching.number \in Nat /\ fetching.state \in {"fetch", "send", "ended"}

\* Where the task is, with what it sent.
Tasked(f, sent, listens) ==
    /\ f.state \in {"fetch", "send"} => RowsOf(f.number) <= rows /\ RowsOf(f.number) <= maximum
    /\ f.state = "fetch" => f.total = RowsOf(f.number)
    /\ f.state = "send" =>
          /\ f.batch \in StreamBatch /\ BatchOk(f.batch, f.number)
          /\ (f.batch.ok /\ f.batch.hasMore) => f.total = RowsOf(f.number) + BatchItems
          /\ (f.batch.ok /\ ~f.batch.hasMore) =>
                RowsOf(f.number) + Len(f.batch.items) = Streams!Least(rows, maximum)
    /\ (listens /\ f.state \in {"fetch", "send"}) =>
          Len(sent) = f.number /\ \A i \in 1 .. Len(sent) : Full(sent[i])
    /\ (listens /\ f.state = "ended") => (\E i \in 1 .. Len(sent) : ~sent[i].ok) \/ AllSent(sent)

StreamInv ==
    /\ StreamTypes
    /\ InSeries(received \o channel)
    /\ Tasked(fetching, received \o channel, listening)
    /\ ~listening => channel = <<>>

LEMMA PartInSeries ==
    ASSUME NEW r \in Seq(StreamBatch), NEW q \in Seq(StreamBatch), InSeries(r \o q)
    PROVE  InSeries(r)
<1>1. /\ Len(r) \in Nat /\ Len(q) \in Nat /\ Len(r \o q) = Len(r) + Len(q)
      /\ \A i \in 1 .. Len(r) : (r \o q)[i] = r[i]
  OBVIOUS
<1>2. \A i \in 1 .. Len(r) : i \in 1 .. Len(r \o q) /\ (i < Len(r) => i < Len(r \o q))
  BY <1>1
<1> QED
  BY <1>1, <1>2, Zenon DEF InSeries

LEMMA RowsToMost ==
    ASSUME NEW sent \in Seq(StreamBatch), InSeries(sent), rows \in Nat, maximum \in Nat
    PROVE  RowsTo(sent, Len(sent)) <= Streams!Least(rows, maximum)
<1> DEFINE n == Len(sent)
<1>1. n \in Nat /\ \A m \in 0 .. n : RowsTo(sent, m) \in Nat
  BY RowsToTyped
<1>2. CASE n = 0
  <2>1. RowsTo(sent, n) = 0
    BY <1>2 DEF RowsTo
  <2> QED
    BY <2>1 DEF Streams!Least
<1>3. CASE n # 0
  <2>1. n \in 1 .. n /\ n - 1 \in 0 .. n /\ n - 1 < n
    BY <1>1, <1>3
  <2>2. BatchOk(sent[n], n - 1)
    BY <2>1 DEF InSeries
  <2>3. CASE sent[n].ok
    <3>1. RowsTo(sent, n) = RowsOf(n - 1) + Len(sent[n].items)
      BY <1>3, <2>3 DEF RowsTo
    <3>2. RowsTo(sent, n) <= rows /\ RowsTo(sent, n) <= maximum
      BY <2>2, <2>3, <3>1 DEF BatchOk
    <3> QED
      BY <3>2 DEF Streams!Least
  <2>4. CASE ~sent[n].ok
    <3>1. RowsOf(n - 1) \in Nat /\ RowsTo(sent, n) = RowsOf(n - 1)
      BY <1>3, <2>1, <2>4, RowsOfMore DEF RowsTo
    <3>2. CASE n = 1
      <4>1. n - 1 = 0
        BY <3>2
      <4>2. RowsTo(sent, n) = 0
        BY <3>1, <4>1, RowsOfMore, Zenon
      <4> QED
        BY <4>2 DEF Streams!Least
    <3>3. CASE n # 1
      <4>1. n - 1 \in 1 .. n /\ n - 2 \in Nat /\ (n - 2) + 1 = n - 1 /\ (n - 1) - 1 = n - 2
        <5> HIDE DEF n
        <5> QED
          BY <1>1, <1>3, <3>3
      <4>2. BatchOk(sent[n - 1], n - 2) /\ Full(sent[n - 1])
        <5>1. \A i \in 1 .. Len(sent) : BatchOk(sent[i], i - 1) /\ (i < Len(sent) => Full(sent[i]))
          BY Zenon DEF InSeries
        <5>2. BatchOk(sent[n - 1], (n - 1) - 1) /\ Full(sent[n - 1])
          BY <5>1, <4>1, <2>1, Zenon
        <5> QED
          BY <5>2, <4>1, Zenon
      <4>3. /\ RowsOf(n - 2) + Len(sent[n - 1].items) <= rows
            /\ RowsOf(n - 2) + Len(sent[n - 1].items) <= maximum
            /\ Len(sent[n - 1].items) = BatchItems
        <5>1. sent[n - 1].ok /\ sent[n - 1].hasMore
          BY <4>2, Zenon DEF Full
        <5> QED
          BY <4>2, <5>1, Zenon DEF BatchOk
      <4>4. RowsOf(n - 1) = RowsOf(n - 2) + BatchItems
        BY <4>1, RowsOfMore
      <4> QED
        BY <3>1, <4>3, <4>4 DEF Streams!Least
    <3> QED
      BY <3>2, <3>3
  <2> QED
    BY <2>3, <2>4
<1> QED
  BY <1>2, <1>3

LEMMA RowsReadIs ==
    ASSUME received \in Seq(StreamBatch), InSeries(received), NEW n \in 0 .. Len(received)
    PROVE  Streams!RowsRead(n) = RowsTo(received, n)
<1>1. \A S : Streams!Cardinality(S) = Cardinality(S)
  BY DEF Streams!Cardinality, Cardinality
<1>2. Fine(received, n) = {j \in 1 .. n : received[j].ok} /\ Fine(received, n) \subseteq DOMAIN received
  BY DEF Fine
<1>3. {{i} \X DOMAIN received[i].items : i \in Fine(received, n)}
        = {{i} \X ItemsOf(received)[i] : i \in Fine(received, n)}
  BY <1>2 DEF ItemsOf
<1>4. Streams!RowsRead(n) = Cardinality(UNION {{i} \X DOMAIN received[i].items : i \in Fine(received, n)})
  BY <1>1, <1>2 DEF Streams!RowsRead
<1>5. Streams!RowsRead(n) = Cardinality(Cells(ItemsOf(received), Fine(received, n)))
  BY <1>3, <1>4, Zenon DEF Cells
<1> QED
  BY <1>5, RowsCounted

LEMMA StreamInvIs == StreamInv => Streams!StreamComplete
<1> SUFFICES ASSUME StreamInv PROVE Streams!StreamComplete
  OBVIOUS
<1> DEFINE r == received
<1>1. /\ rows \in Nat /\ maximum \in Nat /\ listening \in BOOLEAN
      /\ r \in Seq(StreamBatch) /\ channel \in Seq(StreamBatch) /\ Len(r) \in Nat
  BY DEF StreamInv, StreamTypes
<1>2. InSeries(r)
  <2>1. InSeries(r \o channel)
    BY DEF StreamInv
  <2> QED
    BY <1>1, <2>1, PartInSeries
<1>3. \A n \in 0 .. Len(r) : Streams!RowsRead(n) = RowsTo(r, n)
  BY <1>1, <1>2, RowsReadIs
<1>4. Streams!RowsRead(Len(r)) = RowsTo(r, Len(r)) /\ Streams!RowsRead(Len(r)) <= Streams!Least(rows, maximum)
  <2>1. RowsTo(r, Len(r)) <= Streams!Least(rows, maximum)
    BY <1>1, <1>2, RowsToMost
  <2>2. Len(r) \in 0 .. Len(r)
    BY <1>1
  <2> QED
    BY <2>1, <2>2, <1>3
<1>5. ASSUME NEW i \in DOMAIN r, r[i].ok
      PROVE  /\ r[i].number = i - 1
             /\ \A j \in DOMAIN r[i].items : r[i].items[j] = Streams!RowsRead(i - 1) + j
  <2>1. i \in 1 .. Len(r) /\ i - 1 \in 0 .. Len(r) /\ i - 1 < Len(r)
    BY <1>1
  <2>2. BatchOk(r[i], i - 1)
    BY <1>2, <2>1, Zenon DEF InSeries
  <2>3. r[i].number = i - 1 /\ \A j \in DOMAIN r[i].items : r[i].items[j] = RowsOf(i - 1) + j
    BY <1>5, <2>2, Zenon DEF BatchOk
  <2>4. Streams!RowsRead(i - 1) = RowsOf(i - 1)
    BY <1>1, <1>2, <1>3, <2>1, RowsToTyped
  <2> QED
    BY <2>3, <2>4
<1>6. ASSUME fetching.state = "ended", channel = <<>>, listening, \A i \in DOMAIN r : r[i].ok
      PROVE  /\ Streams!RowsRead(Len(r)) = Streams!Least(rows, maximum)
             /\ (r # <<>> /\ Streams!Last(r).hasMore) => Streams!RowsRead(Len(r)) = maximum
  <2>1. r \o channel = r
    BY <1>1, <1>6
  <2>2. (\E i \in 1 .. Len(r \o channel) : ~(r \o channel)[i].ok) \/ AllSent(r \o channel)
    BY <1>6, Zenon DEF StreamInv, Tasked
  <2>3. DOMAIN r = 1 .. Len(r)
    BY <1>1
  <2>4. AllSent(r)
    BY <1>6, <2>1, <2>2, <2>3, Zenon
  <2>5. Streams!Last(r) = r[Len(r)]
    BY DEF Streams!Last
  <2> QED
    BY <1>4, <2>4, <2>5, Zenon DEF AllSent
<1> QED
  BY <1>4, <1>5, <1>6, Zenon DEF Streams!StreamComplete

\* One more batch behind full ones.
LEMMA BatchSent ==
    ASSUME NEW s \in Seq(StreamBatch), NEW b \in StreamBatch, InSeries(s), BatchOk(b, Len(s)),
           \A i \in 1 .. Len(s) : Full(s[i])
    PROVE  /\ Append(s, b) \in Seq(StreamBatch) /\ Len(Append(s, b)) = Len(s) + 1 /\ InSeries(Append(s, b))
           /\ Append(s, b)[Len(s) + 1] = b
           /\ Full(b) => \A i \in 1 .. Len(Append(s, b)) : Full(Append(s, b)[i])
<1> DEFINE q == Append(s, b)
<1>1. /\ Len(s) \in Nat /\ q \in Seq(StreamBatch) /\ Len(q) = Len(s) + 1 /\ q[Len(s) + 1] = b
      /\ \A i \in 1 .. Len(s) : q[i] = s[i]
  OBVIOUS
<1>2. \A i \in 1 .. Len(q) : i \in 1 .. Len(s) \/ i = Len(s) + 1
  BY <1>1
<1> HIDE DEF q
<1>3. ASSUME NEW i \in 1 .. Len(q) PROVE BatchOk(q[i], i - 1) /\ (i < Len(q) => Full(q[i]))
  <2>1. CASE i \in 1 .. Len(s)
    <3>1. BatchOk(s[i], i - 1)
      BY <2>1 DEF InSeries
    <3> QED
      BY <1>1, <2>1, <3>1, Zenon
  <2>2. CASE i = Len(s) + 1
    <3>1. i - 1 = Len(s) /\ ~(i < Len(q))
      BY <1>1, <2>2
    <3> QED
      BY <1>1, <2>2, <3>1, Zenon
  <2> QED
    BY <1>2, <2>1, <2>2
<1>4. Full(b) => \A i \in 1 .. Len(q) : Full(q[i])
  BY <1>1, <1>2, Zenon
<1>5. InSeries(q)
  BY <1>3, Zenon DEF InSeries
<1> QED
  BY <1>1, <1>4, <1>5 DEF q

LEMMA RowsToFull ==
    ASSUME NEW s \in Seq(StreamBatch), InSeries(s), \A i \in 1 .. Len(s) : Full(s[i])
    PROVE  RowsTo(s, Len(s)) = RowsOf(Len(s))
<1>1. Len(s) \in Nat
  OBVIOUS
<1>2. CASE Len(s) = 0
  BY <1>2, RowsOfMore, Zenon DEF RowsTo
<1>3. CASE Len(s) # 0
  <2> DEFINE n == Len(s)
  <2>1. n \in 1 .. Len(s) /\ n - 1 \in Nat /\ (n - 1) + 1 = n
    BY <1>1, <1>3
  <2>2. BatchOk(s[n], n - 1) /\ Full(s[n])
    BY <2>1 DEF InSeries
  <2>3. s[n].ok /\ Len(s[n].items) = BatchItems
    BY <2>2, Zenon DEF Full, BatchOk
  <2>4. RowsTo(s, n) = RowsOf(n - 1) + BatchItems
    BY <1>3, <2>3 DEF RowsTo
  <2> QED
    BY <2>1, <2>4, RowsOfMore
<1> QED
  BY <1>2, <1>3

LEMMA FetchedIs ==
    ASSUME rows \in Nat, NEW n \in Nat, NEW limit \in Nat, RowsOf(n) <= rows
    PROVE  /\ Streams!Fetched(n, limit) \in Seq(Nat)
           /\ RowsOf(n) + Len(Streams!Fetched(n, limit)) = Streams!Least(RowsOf(n) + limit, rows)
           /\ \A j \in DOMAIN Streams!Fetched(n, limit) : Streams!Fetched(n, limit)[j] = RowsOf(n) + j
<1> DEFINE f == [i \in 1 .. rows |-> i]
<1>1. PICK p \in Nat : p = RowsOf(n)
  BY RowsOfMore
<1>2. f \in Seq(Nat) /\ Len(f) = rows /\ \A i \in 1 .. rows : f[i] = i
  OBVIOUS
<1>3. PICK z \in Nat : z = Streams!Least(p + limit, rows)
  BY <1>1 DEF Streams!Least
<1>4. p <= z /\ z <= rows
  BY <1>1, <1>3 DEF Streams!Least
<1>5. Streams!Fetched(n, limit) = SubSeq(f, p + 1, z)
  BY <1>1, <1>2, <1>3 DEF Streams!Fetched, Streams!Sequential, RowsOf
<1> HIDE DEF f
<1>6. /\ SubSeq(f, p + 1, z) \in Seq(Nat)
      /\ p + Len(SubSeq(f, p + 1, z)) = z
      /\ \A j \in DOMAIN SubSeq(f, p + 1, z) : SubSeq(f, p + 1, z)[j] = p + j
  <2> DEFINE g == SubSeq(f, p + 1, z)
  <2>1. PICK m \in Int : m = p + 1
    OBVIOUS
  <2>2. \A j \in m .. z : f[j] \in Nat
    BY <1>2, <1>4, <2>1
  <2>3. /\ g \in Seq(Nat) /\ Len(g) = (IF m <= z THEN z - m + 1 ELSE 0)
        /\ \A j \in 1 .. z - m + 1 : g[j] = f[m + j - 1]
    BY <2>1, <2>2, SubSeqProperties
  <2>4. p + Len(g) = z
    BY <1>4, <2>1, <2>3
  <2>5. DOMAIN g = 1 .. Len(g)
    BY <2>3
  <2>6. ASSUME NEW j \in DOMAIN g PROVE g[j] = p + j
    <3>1. /\ j \in 1 .. z - m + 1 /\ m + j - 1 \in 1 .. rows /\ m + j - 1 = p + j
      BY <1>4, <2>1, <2>3, <2>4, <2>5
    <3>2. f[m + j - 1] = m + j - 1
      BY <3>1, <1>2, Zenon
    <3> QED
      BY <3>1, <3>2, <2>3, Zenon
  <2> QED
    BY <2>3, <2>4, <2>6
<1> QED
  BY <1>1, <1>3, <1>5, <1>6, Zenon

LEMMA HeadMoved ==
    ASSUME NEW S, NEW r \in Seq(S), NEW q \in Seq(S), q # <<>>
    PROVE  /\ Append(r, Head(q)) \in Seq(S) /\ Tail(q) \in Seq(S)
           /\ Append(r, Head(q)) \o Tail(q) = r \o q
  OBVIOUS

LEMMA StreamInit == WorkInit => StreamInv
<1> SUFFICES ASSUME WorkInit PROVE StreamInv
  OBVIOUS
<1>1. /\ rows \in StreamRows /\ maximum \in Maxima
      /\ fetching = [number |-> 0, total |-> 0, state |-> "fetch", batch |-> None]
      /\ channel = <<>> /\ received = <<>> /\ listening = TRUE
  BY DEF WorkInit, Streams!Init
<1>2. rows \in Nat /\ maximum \in Nat /\ RowsOf(0) = 0
  BY <1>1, WorkAssumption, RowsOfMore DEF WorkAssumption, Streams!SizesAssumption
<1>3. received \o channel = <<>> /\ Len(<<>>) = 0 /\ 1 .. 0 = {}
  BY <1>1
<1>4. StreamTypes
  BY <1>1, <1>2 DEF StreamTypes
<1>5. InSeries(received \o channel)
  BY <1>3 DEF InSeries
<1>6. /\ RowsOf(fetching.number) <= rows /\ RowsOf(fetching.number) <= maximum
      /\ fetching.total = RowsOf(fetching.number)
      /\ Len(received \o channel) = fetching.number
      /\ \A i \in 1 .. Len(received \o channel) : Full((received \o channel)[i])
  BY <1>1, <1>2, <1>3
<1> QED
  BY <1>1, <1>4, <1>5, <1>6 DEF StreamInv, Tasked

\* A step that leaves what is streamed.
LEMMA StreamNext ==
    ASSUME rows' = rows, maximum' = maximum, NEW f, NEW r \in Seq(StreamBatch),
           NEW q \in Seq(StreamBatch), NEW l \in BOOLEAN, rows \in Nat, maximum \in Nat,
           fetching' = f, received' = r, channel' = q, listening' = l,
           DOMAIN f = {"number", "total", "state", "batch"},
           f.number \in Nat, f.state \in {"fetch", "send", "ended"},
           InSeries(r \o q), Tasked(f, r \o q, l), ~l => q = <<>>
    PROVE  StreamInv'
<1>1. StreamTypes'
  BY DEF StreamTypes
<1>2. PICK s : s = r \o q
  OBVIOUS
<1>3. InSeries(s) /\ Tasked(f, s, l)
  BY <1>2
<1>4. (received \o channel)' = s
  BY <1>2
<1>5. InSeries(received \o channel)'
  BY <1>3, <1>4 DEF InSeries, BatchOk, Full, RowsOf
<1>6. Tasked(fetching, received \o channel, listening)'
  BY <1>3, <1>4, Zenon DEF Tasked, BatchOk, Full, RowsOf, AllSent, RowsTo, Streams!Least
<1>7. (~listening => channel = <<>>)'
  OBVIOUS
<1> QED
  BY <1>1, <1>5, <1>6, <1>7 DEF StreamInv

LEMMA StreamStep == StreamInv /\ [WorkNext]_workVars => StreamInv'
<1> SUFFICES ASSUME StreamInv, [WorkNext]_workVars PROVE StreamInv'
  OBVIOUS
<1> DEFINE s == received \o channel
<1>1. /\ rows \in Nat /\ maximum \in Nat /\ listening \in BOOLEAN
      /\ channel \in Seq(StreamBatch) /\ received \in Seq(StreamBatch)
      /\ s \in Seq(StreamBatch)
      /\ DOMAIN fetching = {"number", "total", "state", "batch"}
      /\ fetching.number \in Nat /\ fetching.state \in {"fetch", "send", "ended"}
  BY DEF StreamInv, StreamTypes
<1>2. InSeries(s) /\ Tasked(fetching, s, listening) /\ (~listening => channel = <<>>)
  BY DEF StreamInv
<1>3. BatchItems \in Nat \ {0}
  BY WorkAssumption DEF WorkAssumption, Streams!SizesAssumption
<1>4. PICK p \in Nat : p = RowsOf(fetching.number)
  BY <1>1, RowsOfMore
<1>5. CASE UNCHANGED streamVars
  <2>1. /\ rows' = rows /\ maximum' = maximum /\ fetching' = fetching /\ channel' = channel
        /\ received' = received /\ listening' = listening
    BY <1>5 DEF streamVars
  <2> QED
    BY <2>1, <1>1, <1>2, StreamNext
<1>6. CASE Streams!Fetch
  <2>1. /\ fetching.state = "fetch" /\ rows' = rows /\ maximum' = maximum /\ channel' = channel
        /\ received' = received /\ listening' = listening
    BY <1>6 DEF Streams!Fetch
  <2>2. p <= rows /\ p <= maximum /\ fetching.total = p
    BY <1>4, <1>2, <2>1 DEF Tasked
  <2>3. listening => Len(s) = fetching.number /\ \A i \in 1 .. Len(s) : Full(s[i])
    BY <1>2, <2>1, Zenon DEF Tasked
  <2>4. CASE fetching.total >= maximum
    <3> DEFINE f == [fetching EXCEPT !.state = "ended"]
    <3>1. fetching' = f
      BY <1>6, <2>4 DEF Streams!Fetch
    <3>2. DOMAIN f = DOMAIN fetching /\ f.number = fetching.number /\ f.state = "ended"
      BY <1>1
    <3>3. listening => AllSent(s)
      <4>1. HAVE listening
      <4>2. RowsTo(s, Len(s)) = p
        BY <1>1, <1>2, <1>4, <2>3, <4>1, RowsToFull, Zenon
      <4>3. p = maximum /\ Streams!Least(rows, maximum) = maximum
        BY <1>1, <2>2, <2>4 DEF Streams!Least
      <4> QED
        BY <4>2, <4>3, Zenon DEF AllSent
    <3> HIDE DEF f
    <3>4. Tasked(f, s, listening)
      BY <3>2, <3>3 DEF Tasked
    <3> QED
      BY <1>1, <1>2, <2>1, <3>1, <3>2, <3>4, StreamNext
  <2>5. CASE ~(fetching.total >= maximum)
    <3> DEFINE limit == Streams!Least(BatchItems, maximum - fetching.total)
               items == Streams!Fetched(fetching.number, limit)
               b == [items |-> items, number |-> fetching.number,
                     hasMore |-> Len(items) = BatchItems, ok |-> TRUE]
               f == [fetching EXCEPT !.state = "send", !.total = @ + Len(items), !.batch = b]
    <3>1. fetching' = f
      BY <1>6, <2>5 DEF Streams!Fetch
    <3>2. PICK lim \in Nat : /\ lim = limit
                             /\ lim = BatchItems \/ p + lim = maximum
                             /\ p + lim <= maximum /\ lim <= BatchItems
      <4>1. PICK left \in Nat : left = maximum - fetching.total /\ p + left = maximum
        <5>1. maximum - p \in Nat /\ p + (maximum - p) = maximum
          BY <1>1, <2>2
        <5> QED
          BY <2>2, <5>1, Zenon
      <4>2. limit = IF BatchItems < left THEN BatchItems ELSE left
        BY <4>1, Zenon DEF Streams!Least
      <4> HIDE DEF limit
      <4> QED
        BY <1>1, <1>3, <4>1, <4>2
    <3>3. items = Streams!Fetched(fetching.number, lim)
      BY <3>2, Zenon
    <3> HIDE DEF limit, items
    <3>4. /\ items \in Seq(Nat) /\ p + Len(items) = Streams!Least(p + lim, rows)
          /\ \A j \in DOMAIN items : items[j] = p + j
      <4>1. PICK k \in Nat : k = fetching.number
        BY <1>1
      <4>2. RowsOf(k) <= rows
        BY <1>4, <2>2, <4>1, Zenon
      <4>3. /\ Streams!Fetched(k, lim) \in Seq(Nat)
            /\ RowsOf(k) + Len(Streams!Fetched(k, lim)) = Streams!Least(RowsOf(k) + lim, rows)
            /\ \A j \in DOMAIN Streams!Fetched(k, lim) : Streams!Fetched(k, lim)[j] = RowsOf(k) + j
        BY <1>1, <4>2, FetchedIs
      <4>4. RowsOf(k) = p /\ items = Streams!Fetched(k, lim)
        BY <1>4, <3>3, <4>1, Zenon
      <4> QED
        BY <4>3, <4>4, Zenon
    <3>5. PICK n \in Nat : n = Len(items)
      BY <3>4
    <3>6. /\ p + n <= rows /\ p + n <= maximum /\ n <= BatchItems
          /\ n # BatchItems => p + n = Streams!Least(rows, maximum)
      <4>1. p + n = IF p + lim < rows THEN p + lim ELSE rows
        BY <3>4, <3>5, Zenon DEF Streams!Least
      <4> QED
        BY <1>1, <1>3, <2>2, <3>2, <4>1 DEF Streams!Least
    <3>7. b \in StreamBatch /\ b.ok /\ b.number = fetching.number /\ b.items = items
      BY <1>1, <3>4 DEF StreamBatch
    <3>8. b.hasMore <=> n = BatchItems
      BY <3>5, Zenon
    <3>9. BatchOk(b, fetching.number)
      <4> HIDE DEF b
      <4> QED
        BY <1>4, <3>4, <3>5, <3>6, <3>7, <3>8, Zenon DEF BatchOk
    <3>10. /\ DOMAIN f = DOMAIN fetching /\ f.number = fetching.number /\ f.state = "send"
           /\ f.total = p + n /\ f.batch = b
      BY <1>1, <2>2, <3>5
    <3> HIDE DEF f, b
    <3>11. Tasked(f, s, listening)
      <4>1. RowsOf(f.number) <= rows /\ RowsOf(f.number) <= maximum
        BY <1>4, <2>2, <3>10, Zenon
      <4>2. (f.batch.ok /\ f.batch.hasMore) => f.total = RowsOf(f.number) + BatchItems
        BY <1>4, <3>8, <3>10, Zenon
      <4>3. (f.batch.ok /\ ~f.batch.hasMore) =>
               RowsOf(f.number) + Len(f.batch.items) = Streams!Least(rows, maximum)
        BY <1>4, <3>5, <3>6, <3>7, <3>8, <3>10, Zenon
      <4>4. f.batch \in StreamBatch /\ BatchOk(f.batch, f.number) /\ f.state = "send"
        BY <3>7, <3>9, <3>10, Zenon
      <4>5. listening => Len(s) = f.number /\ \A i \in 1 .. Len(s) : Full(s[i])
        BY <2>3, <3>10, Zenon
      <4>6. f.state # "fetch" /\ f.state # "ended"
        BY <4>4
      <4> QED
        BY <4>1, <4>2, <4>3, <4>4, <4>5, <4>6, Zenon DEF Tasked
    <3> QED
      BY <1>1, <1>2, <2>1, <3>1, <3>10, <3>11, StreamNext
  <2> QED
    BY <2>4, <2>5
<1>7. CASE Streams!FetchFails
  <2> DEFINE f == [fetching EXCEPT !.state = "send", !.batch = [ok |-> FALSE]]
  <2>1. /\ fetching.state = "fetch" /\ rows' = rows /\ maximum' = maximum /\ channel' = channel
        /\ received' = received /\ listening' = listening /\ fetching' = f
    BY <1>7 DEF Streams!FetchFails
  <2>2. DOMAIN f = DOMAIN fetching /\ f.number = fetching.number /\ f.state = "send" /\ f.batch = [ok |-> FALSE]
    BY <1>1
  <2>3. f.batch \in StreamBatch /\ ~f.batch.ok
    BY <2>2 DEF StreamBatch
  <2> HIDE DEF f
  <2>4. Tasked(f, s, listening)
    <3>1. BatchOk(f.batch, f.number)
      BY <2>3, Zenon DEF BatchOk
    <3>2. p <= rows /\ p <= maximum
      BY <1>4, <1>2, <2>1 DEF Tasked
    <3>3. listening => Len(s) = fetching.number /\ \A i \in 1 .. Len(s) : Full(s[i])
      BY <1>2, <2>1, Zenon DEF Tasked
    <3> QED
      BY SMTT(60), <1>4, <2>2, <2>3, <3>1, <3>2, <3>3 DEF Tasked
  <2> QED
    BY <1>1, <1>2, <2>1, <2>2, <2>4, StreamNext
<1>8. CASE Streams!Send
  <2> DEFINE b == fetching.batch
  <2>1. /\ fetching.state = "send" /\ rows' = rows /\ maximum' = maximum
        /\ received' = received /\ listening' = listening
    BY <1>8 DEF Streams!Send
  <2>2. /\ b \in StreamBatch /\ BatchOk(b, fetching.number)
        /\ (b.ok /\ b.hasMore) => fetching.total = p + BatchItems
        /\ (b.ok /\ ~b.hasMore) => p + Len(b.items) = Streams!Least(rows, maximum)
    BY <1>2, <1>4, <2>1, Zenon DEF Tasked
  <2>3. CASE ~listening
    <3> DEFINE f == [fetching EXCEPT !.state = "ended"]
    <3>1. fetching' = f /\ channel' = channel
      BY <1>8, <2>3 DEF Streams!Send
    <3>2. DOMAIN f = DOMAIN fetching /\ f.number = fetching.number /\ f.state = "ended"
      BY <1>1
    <3> HIDE DEF f
    <3>3. Tasked(f, s, listening)
      BY <2>3, <3>2 DEF Tasked
    <3> QED
      BY <1>1, <1>2, <2>1, <3>1, <3>2, <3>3, StreamNext
  <2>4. CASE listening
    <3> DEFINE t == Append(s, b)
    <3>1. Len(s) = fetching.number /\ \A i \in 1 .. Len(s) : Full(s[i])
      BY <1>2, <2>1, <2>4, Zenon DEF Tasked
    <3>2. channel' = Append(channel, b)
      BY <1>8, <2>4 DEF Streams!Send
    <3>3. /\ t \in Seq(StreamBatch) /\ Len(t) = Len(s) + 1 /\ InSeries(t) /\ t[Len(s) + 1] = b
          /\ Full(b) => \A i \in 1 .. Len(t) : Full(t[i])
      <4>1. PICK u \in Seq(StreamBatch) : u = s
        BY <1>1
      <4>2. PICK e \in StreamBatch : e = b
        BY <2>2
      <4>3. InSeries(u) /\ BatchOk(e, Len(u)) /\ \A i \in 1 .. Len(u) : Full(u[i])
        BY <1>2, <2>2, <3>1, <4>1, <4>2, Zenon
      <4>4. /\ Append(u, e) \in Seq(StreamBatch) /\ Len(Append(u, e)) = Len(u) + 1
            /\ InSeries(Append(u, e)) /\ Append(u, e)[Len(u) + 1] = e
            /\ Full(e) => \A i \in 1 .. Len(Append(u, e)) : Full(Append(u, e)[i])
        BY <4>3, BatchSent
      <4> QED
        BY <4>1, <4>2, <4>4, Zenon
    <3>4. PICK q \in Seq(StreamBatch) : q = Append(channel, b) /\ received \o q = t
      <4>1. Append(channel, b) \in Seq(StreamBatch) /\ received \o Append(channel, b) = t
        BY <1>1, <2>2
      <4> QED
        BY <4>1, Zenon
    <3> HIDE DEF t
    <3>5. CASE b.ok /\ b.hasMore
      <4> DEFINE f == [fetching EXCEPT !.number = @ + 1, !.state = "fetch"]
      <4>1. fetching' = f
        BY <1>8, <2>4, <3>5 DEF Streams!Send
      <4>2. /\ DOMAIN f = DOMAIN fetching /\ f.number = fetching.number + 1 /\ f.state = "fetch"
            /\ f.total = fetching.total /\ f.number \in Nat
        BY <1>1
      <4>3. RowsOf(f.number) = p + BatchItems
        BY <1>1, <1>4, <4>2, RowsOfMore
      <4>4. p + BatchItems <= rows /\ p + BatchItems <= maximum
        BY <1>4, <2>2, <3>5, Zenon DEF BatchOk
      <4>5. Len(t) = f.number /\ \A i \in 1 .. Len(t) : Full(t[i])
        BY <3>1, <3>3, <3>5, <4>2, Zenon DEF Full
      <4> HIDE DEF f
      <4>6. Tasked(f, t, listening)
        <5>1. f.state # "send" /\ f.state # "ended"
          BY <4>2
        <5> QED
          BY <2>2, <3>5, <4>2, <4>3, <4>4, <4>5, <5>1, Zenon DEF Tasked
      <4> QED
        BY <1>1, <2>1, <2>4, <3>2, <3>3, <3>4, <4>1, <4>2, <4>6, StreamNext
    <3>6. CASE ~(b.ok /\ b.hasMore)
      <4> DEFINE f == [fetching EXCEPT !.state = "ended"]
      <4>1. fetching' = f
        BY <1>8, <2>4, <3>6 DEF Streams!Send
      <4>2. DOMAIN f = DOMAIN fetching /\ f.number = fetching.number /\ f.state = "ended"
        BY <1>1
      <4> HIDE DEF f
      <4>3. Len(t) \in 1 .. Len(t) /\ t[Len(t)] = b /\ Len(t) # 0 /\ Len(t) - 1 = fetching.number
        BY <1>1, <3>1, <3>3
      <4>4. ASSUME ~b.ok PROVE Tasked(f, t, listening)
        <5>1. \E i \in 1 .. Len(t) : ~t[i].ok
          BY <4>3, <4>4, Zenon
        <5> QED
          BY <4>2, <5>1 DEF Tasked
      <4>5. ASSUME b.ok PROVE Tasked(f, t, listening)
        <5>1. RowsTo(t, Len(t)) = p + Len(b.items)
          BY <1>4, <4>3, <4>5, Zenon DEF RowsTo
        <5>2. AllSent(t)
          BY <2>2, <3>6, <4>3, <4>5, <5>1, Zenon DEF AllSent
        <5> QED
          BY <4>2, <5>2 DEF Tasked
      <4>6. Tasked(f, t, listening)
        BY <4>4, <4>5
      <4> QED
        BY <1>1, <2>1, <2>4, <3>2, <3>3, <3>4, <4>1, <4>2, <4>6, StreamNext
    <3> QED
      BY <3>5, <3>6
  <2> QED
    BY <2>3, <2>4
<1>9. CASE Streams!Read
  <2>1. /\ channel # <<>> /\ rows' = rows /\ maximum' = maximum /\ listening
        /\ fetching' = fetching /\ listening' = listening
        /\ received' = Append(received, Head(channel)) /\ channel' = Tail(channel)
    BY <1>9 DEF Streams!Read
  <2>2. /\ Append(received, Head(channel)) \in Seq(StreamBatch) /\ Tail(channel) \in Seq(StreamBatch)
        /\ Append(received, Head(channel)) \o Tail(channel) = s
    BY <1>1, <2>1, HeadMoved
  <2>3. PICK r \in Seq(StreamBatch), q \in Seq(StreamBatch) :
           r = Append(received, Head(channel)) /\ q = Tail(channel) /\ r \o q = s
    BY <2>2
  <2>4. InSeries(r \o q) /\ Tasked(fetching, r \o q, listening)
    BY <1>2, <2>3
  <2> QED
    BY <1>1, <2>1, <2>3, <2>4, StreamNext
<1>10. CASE Streams!Leave
  <2>1. /\ rows' = rows /\ maximum' = maximum /\ fetching' = fetching /\ listening' = FALSE
        /\ received' = received /\ channel' = <<>>
    BY <1>10 DEF Streams!Leave
  <2>2. PICK q \in Seq(StreamBatch) : q = <<>>
    <3>1. <<>> \in Seq(StreamBatch)
      OBVIOUS
    <3> QED
      BY <3>1, Zenon
  <2>3. received \o q = received /\ InSeries(received)
    BY <1>1, <1>2, <2>2, PartInSeries
  <2>4. Tasked(fetching, received, FALSE)
    BY <1>2 DEF Tasked
  <2> QED
    BY <1>1, <2>1, <2>2, <2>3, <2>4, StreamNext
<1>11. UNCHANGED streamVars \/ Streams!Next
  BY DEF WorkNext, OthersUnchanged, workVars
<1> QED
  BY <1>5, <1>6, <1>7, <1>8, <1>9, <1>10, <1>11 DEF Streams!Next

-----------------------------------------------------------------------------
(* The audit log: the last events, numbered once.                          *)

AuditEvent ==
    [sequence : Nat, type : EventTypes, category : {Audit!Category(t) : t \in EventTypes}, level : Levels]

\* The log p is the last m of the events r, and no two of a log have one number.
LastOf(p, r, m) ==
    /\ Len(p) = IF Len(r) < m THEN Len(r) ELSE m
    /\ \A i \in 1 .. Len(p) : p[i] = r[Len(r) - Len(p) + i]
NumberedOnce(r) == \A i, j \in DOMAIN r : r[i].sequence = r[j].sequence => i = j

\* The numbers that are taken are below the counter, each by one event that is
\* recorded or by one that a task is building.
AuditInv ==
    /\ counter \in Nat /\ building \in [AuditTasks -> AuditEvent \cup {None}]
    /\ events \in Seq(AuditEvent) /\ recorded \in Seq(AuditEvent)
    /\ LastOf(events, recorded, MaxSize) /\ NumberedOnce(recorded)
    /\ \A i \in DOMAIN recorded : recorded[i].sequence < counter
    /\ \A t \in AuditTasks : building[t] # None =>
          /\ building[t].sequence < counter
          /\ \A i \in DOMAIN recorded : recorded[i].sequence # building[t].sequence
          /\ \A u \in AuditTasks : building[u] # None /\ building[u].sequence = building[t].sequence => u = t

LEMMA MostIs ==
    ASSUME NEW a \in Int, NEW b \in Int
    PROVE  Audit!Most(a, b) \in Int /\ Audit!Most(a, b) >= a /\ Audit!Most(a, b) >= b
           /\ (Audit!Most(a, b) = a \/ Audit!Most(a, b) = b)
  BY DEF Audit!Most

LEMMA LastOfIs ==
    ASSUME NEW S, NEW p \in Seq(S), NEW r \in Seq(S), NEW m \in Nat \ {0}, LastOf(p, r, m)
    PROVE  p = SubSeq(r, Audit!Most(1, Len(r) - m + 1), Len(r))
<1> DEFINE k == Audit!Most(1, Len(r) - m + 1)
           s == SubSeq(r, k, Len(r))
<1>1. Len(r) \in Nat /\ Len(p) \in Nat
  OBVIOUS
<1>2. k \in Int /\ k >= 1 /\ (Len(r) < m => k = 1) /\ (Len(r) >= m => k = Len(r) - m + 1)
  BY <1>1, MostIs DEF Audit!Most
<1> HIDE DEF k
<1>3. \A i \in k .. Len(r) : r[i] \in S
  BY <1>1, <1>2
<1>4. /\ s \in Seq(S) /\ Len(s) = (IF k <= Len(r) THEN Len(r) - k + 1 ELSE 0)
      /\ \A i \in 1 .. Len(r) - k + 1 : s[i] = r[k + i - 1]
  BY <1>1, <1>2, <1>3, SubSeqProperties
<1> HIDE DEF s
<1>5. Len(s) = Len(p)
  BY <1>1, <1>2, <1>4 DEF LastOf
<1>6. \A i \in 1 .. Len(p) : p[i] = s[i]
  <2> SUFFICES ASSUME NEW i \in 1 .. Len(p) PROVE p[i] = s[i]
    OBVIOUS
  <2> DEFINE l == Len(r)  h == Len(p)
  <2>4. l \in Nat /\ h \in Nat /\ h = (IF k <= l THEN l - k + 1 ELSE 0) /\ i \in 1 .. h
    BY <1>1, <1>4, <1>5
  <2> HIDE DEF l, h
  <2>5. i \in 1 .. l - k + 1 /\ k + i - 1 = l - h + i
    BY <2>4, <1>2
  <2>1. i \in 1 .. Len(r) - k + 1 /\ k + i - 1 = Len(r) - Len(p) + i
    BY <2>5 DEF l, h
  <2>2. p[i] = r[Len(r) - Len(p) + i]
    BY Zenon DEF LastOf
  <2>3. s[i] = r[k + i - 1]
    BY <2>1, <1>4
  <2> QED
    BY <2>1, <2>2, <2>3
<1>7. p = s
  BY <1>4, <1>5, <1>6, SeqEqual
<1> QED
  BY <1>7 DEF s, k

LEMMA LastOfRecorded ==
    ASSUME NEW S, NEW p \in Seq(S), NEW r \in Seq(S), NEW m \in Nat \ {0}, LastOf(p, r, m), NEW e \in S
    PROVE  /\ Append(SubSeq(p, Audit!Most(1, Len(p) - m + 2), Len(p)), e) \in Seq(S)
           /\ LastOf(Append(SubSeq(p, Audit!Most(1, Len(p) - m + 2), Len(p)), e), Append(r, e), m)
<1> DEFINE k == Audit!Most(1, Len(p) - m + 2)
           s == SubSeq(p, k, Len(p))
           n == Append(s, e)
           g == Append(r, e)
<1>1. /\ Len(r) \in Nat /\ Len(p) \in Nat /\ Len(p) <= Len(r) /\ Len(p) <= m
      /\ Len(p) = (IF Len(r) < m THEN Len(r) ELSE m)
  BY DEF LastOf
<1>2. k \in Int /\ k >= 1 /\ (Len(p) < m => k = 1) /\ (Len(p) = m => k = 2)
  BY <1>1, MostIs DEF Audit!Most
<1> HIDE DEF k
<1>3. \A i \in k .. Len(p) : p[i] \in S
  BY <1>1, <1>2
<1>4. /\ s \in Seq(S) /\ Len(s) = (IF k <= Len(p) THEN Len(p) - k + 1 ELSE 0)
      /\ \A i \in 1 .. Len(p) - k + 1 : s[i] = p[k + i - 1]
  BY <1>1, <1>2, <1>3, SubSeqProperties
<1>9. Len(s) = Len(p) - k + 1
  BY <1>1, <1>2, <1>4
<1> HIDE DEF s
<1>5. /\ n \in Seq(S) /\ Len(n) = Len(s) + 1 /\ n[Len(s) + 1] = e
      /\ \A i \in 1 .. Len(s) : n[i] = s[i]
  BY <1>4
<1>6. /\ Len(g) = Len(r) + 1 /\ g[Len(r) + 1] = e
      /\ \A i \in 1 .. Len(r) : g[i] = r[i]
  OBVIOUS
<1> HIDE DEF n, g
<1>7. Len(n) = (IF Len(g) < m THEN Len(g) ELSE m)
  BY <1>1, <1>2, <1>5, <1>6, <1>9
<1>8. \A i \in 1 .. Len(n) : n[i] = g[Len(g) - Len(n) + i]
  <2> SUFFICES ASSUME NEW i \in 1 .. Len(n) PROVE n[i] = g[Len(g) - Len(n) + i]
    OBVIOUS
  <2>1. CASE i = Len(n)
    <3>1. i = Len(s) + 1 /\ Len(g) - Len(n) + i = Len(r) + 1
      BY <2>1, <1>1, <1>5, <1>6
    <3> QED
      BY <3>1, <1>5, <1>6
  <2>2. CASE i # Len(n)
    <3> DEFINE j == Len(r) - Len(p) + (k + i - 1)
    <3>6. i \in 1 .. Len(s)
      BY <2>2, <1>1, <1>2, <1>5, <1>9
    <3>7. i \in 1 .. Len(p) - k + 1
      BY <3>6, <1>9
    <3>8. k + i - 1 \in 1 .. Len(p)
      BY <3>7, <1>1, <1>2
    <3>9. j \in 1 .. Len(r)
      BY <3>8, <1>1
    <3>1. /\ i \in 1 .. Len(s) /\ i \in 1 .. Len(p) - k + 1 /\ k + i - 1 \in 1 .. Len(p)
          /\ j \in 1 .. Len(r)
      BY <3>6, <3>7, <3>8, <3>9
    <3>2. Len(g) - Len(n) + i = j
      BY <1>1, <1>2, <1>5, <1>6, <1>9
    <3>3. n[i] = p[k + i - 1]
      BY <3>1, <1>4, <1>5
    <3>4. p[k + i - 1] = r[j]
      BY <3>1, Zenon DEF LastOf
    <3>5. g[j] = r[j]
      BY <3>1, <1>6
    <3> QED
      BY <3>2, <3>3, <3>4, <3>5
  <2> QED
    BY <2>1, <2>2
<1> QED
  BY <1>5, <1>7, <1>8 DEF LastOf, n, g, s, k

LEMMA LastNumberedOnce ==
    ASSUME NEW S, NEW p \in Seq(S), NEW r \in Seq(S), NEW m \in Nat \ {0}, LastOf(p, r, m), NumberedOnce(r)
    PROVE  NumberedOnce(p)
<1>1. Len(p) \in Nat /\ Len(r) \in Nat /\ Len(p) <= Len(r) /\ DOMAIN p = 1 .. Len(p) /\ DOMAIN r = 1 .. Len(r)
  BY DEF LastOf
<1> SUFFICES ASSUME NEW i \in DOMAIN p, NEW j \in DOMAIN p, p[i].sequence = p[j].sequence PROVE i = j
  BY DEF NumberedOnce
<1> DEFINE d == Len(r) - Len(p)
<1>2. d + i \in DOMAIN r /\ d + j \in DOMAIN r
  BY <1>1
<1>3. p[i] = r[d + i] /\ p[j] = r[d + j]
  BY <1>1 DEF LastOf
<1>4. d + i = d + j
  BY <1>2, <1>3, Zenon DEF NumberedOnce
<1> QED
  BY <1>1, <1>4

LEMMA EventTyped ==
    /\ \A r \in Seq(AuditEvent) : \A i \in DOMAIN r : r[i].sequence \in Nat
    /\ \A e \in AuditEvent : e.sequence \in Nat
<1>1. \A e \in AuditEvent : e.sequence \in Nat
  BY DEF AuditEvent
<1>2. \A r \in Seq(AuditEvent) : \A i \in DOMAIN r : r[i] \in AuditEvent
  OBVIOUS
<1> QED
  BY <1>1, <1>2, Zenon

LEMMA AuditInvIs == AuditInv => Audit!LastRecorded
<1> SUFFICES ASSUME AuditInv PROVE Audit!LastRecorded
  OBVIOUS
<1>1. MaxSize \in Nat \ {0}
  BY WorkAssumption DEF WorkAssumption, Audit!SizeAssumption
<1>2. events = SubSeq(recorded, Audit!Most(1, Len(recorded) - MaxSize + 1), Len(recorded))
  BY <1>1, LastOfIs DEF AuditInv
<1>3. NumberedOnce(events)
  BY <1>1, LastNumberedOnce DEF AuditInv
<1> QED
  BY <1>2, <1>3, Zenon DEF Audit!LastRecorded, NumberedOnce

LEMMA AuditInit == WorkInit => AuditInv
<1> SUFFICES ASSUME WorkInit PROVE AuditInv
  OBVIOUS
<1>1. counter = 0 /\ building = [t \in AuditTasks |-> None] /\ events = <<>> /\ recorded = <<>>
  BY DEF WorkInit, Audit!Init
<1>2. MaxSize \in Nat \ {0}
  BY WorkAssumption DEF WorkAssumption, Audit!SizeAssumption
<1>3. LastOf(<<>>, <<>>, MaxSize) /\ NumberedOnce(<<>>)
  BY <1>2 DEF LastOf, NumberedOnce
<1> QED
  BY <1>1, <1>3 DEF AuditInv

LEMMA AuditBuild ==
    ASSUME AuditInv, NEW t \in AuditTasks, NEW type \in EventTypes, NEW l \in Levels, Audit!Build(t, type, l)
    PROVE  AuditInv'
<1> DEFINE e == [sequence |-> counter, type |-> type, category |-> Audit!Category(type), level |-> l]
<1>1. /\ building' = [building EXCEPT ![t] = e] /\ counter' = counter + 1
      /\ events' = events /\ recorded' = recorded
  BY DEF Audit!Build
<1>2. counter \in Nat /\ building \in [AuditTasks -> AuditEvent \cup {None}] /\ recorded \in Seq(AuditEvent)
  BY DEF AuditInv
<1>3. e \in AuditEvent /\ e.sequence = counter
  BY <1>2 DEF AuditEvent
<1> HIDE DEF e
<1>4. building' \in [AuditTasks -> AuditEvent \cup {None}] /\ building'[t] = e
      /\ \A u \in AuditTasks : u # t => building'[u] = building[u]
  BY <1>1, <1>2, <1>3
<1>5. \A i \in DOMAIN recorded : recorded[i].sequence < counter /\ recorded[i].sequence \in Nat
  BY <1>2, EventTyped, Zenon DEF AuditInv
<1>6. \A u \in AuditTasks : building[u] # None => building[u].sequence < counter /\ building[u].sequence \in Nat
  <2>1. \A u \in AuditTasks : building[u] \in AuditEvent \cup {None}
    BY <1>2
  <2> QED
    BY <2>1, EventTyped, Zenon DEF AuditInv
<1>7. \A n \in Nat : n < counter => n < counter + 1 /\ n # counter
  BY <1>2
<1>8. ASSUME NEW u \in AuditTasks, building'[u] # None
      PROVE  /\ building'[u].sequence < counter'
             /\ \A i \in DOMAIN recorded' : recorded'[i].sequence # building'[u].sequence
             /\ \A v \in AuditTasks : building'[v] # None /\ building'[v].sequence = building'[u].sequence => v = u
  <2>1. CASE u = t
    <3>1. building'[u].sequence = counter /\ counter < counter + 1
      BY <2>1, <1>2, <1>3, <1>4
    <3> QED
      BY <3>1, <2>1, <1>1, <1>4, <1>5, <1>6, <1>7, Zenon
  <2>2. CASE u # t
    <3>1. building'[u] = building[u] /\ building[u] # None
      BY <2>2, <1>4, <1>8
    <3>2. /\ building[u].sequence < counter /\ building[u].sequence \in Nat
          /\ \A i \in DOMAIN recorded : recorded[i].sequence # building[u].sequence
          /\ \A v \in AuditTasks : building[v] # None /\ building[v].sequence = building[u].sequence => v = u
      BY <3>1, <1>6, Zenon DEF AuditInv
    <3> QED
      BY <3>1, <3>2, <2>2, <1>1, <1>3, <1>4, <1>7, Zenon
  <2> QED
    BY <2>1, <2>2
<1>9. \A i \in DOMAIN recorded' : recorded'[i].sequence < counter'
  BY <1>1, <1>5, <1>7, Zenon
<1> QED
  BY <1>1, <1>2, <1>4, <1>8, <1>9 DEF AuditInv

LEMMA AuditRecord ==
    ASSUME AuditInv, NEW t \in AuditTasks, Audit!Record(t)
    PROVE  AuditInv'
<1> DEFINE e == building[t]
<1>1. /\ events' = Append(SubSeq(events, Audit!Most(1, Len(events) - MaxSize + 2), Len(events)), e)
      /\ recorded' = Append(recorded, e) /\ building' = [building EXCEPT ![t] = None]
      /\ counter' = counter /\ building[t] # None
  BY DEF Audit!Record
<1>2. /\ counter \in Nat /\ building \in [AuditTasks -> AuditEvent \cup {None}]
      /\ recorded \in Seq(AuditEvent) /\ events \in Seq(AuditEvent)
  BY DEF AuditInv
<1>3. /\ e \in AuditEvent /\ e.sequence < counter
      /\ \A i \in DOMAIN recorded : recorded[i].sequence # e.sequence
  <2>1. e \in AuditEvent
    BY <1>1, <1>2
  <2> QED
    BY <2>1, <1>1, Zenon DEF AuditInv
<1>4. MaxSize \in Nat \ {0}
  BY WorkAssumption DEF WorkAssumption, Audit!SizeAssumption
<1> HIDE DEF e
<1>5. events' \in Seq(AuditEvent) /\ LastOf(events', recorded', MaxSize)
  BY <1>1, <1>2, <1>3, <1>4, LastOfRecorded DEF AuditInv
<1>6. /\ recorded' \in Seq(AuditEvent)
      /\ \A i \in DOMAIN recorded' : (i \in DOMAIN recorded /\ recorded'[i] = recorded[i])
                                     \/ (i = Len(recorded) + 1 /\ recorded'[i] = e)
  BY <1>1, <1>2, <1>3
<1>7. NumberedOnce(recorded') /\ \A i \in DOMAIN recorded' : recorded'[i].sequence < counter
  <2>1. NumberedOnce(recorded) /\ \A i \in DOMAIN recorded : recorded[i].sequence < counter
    BY DEF AuditInv
  <2> QED
    BY <1>3, <1>6, <2>1, Zenon DEF NumberedOnce
<1>8. building' \in [AuditTasks -> AuditEvent \cup {None}] /\ building'[t] = None
      /\ \A u \in AuditTasks : u # t => building'[u] = building[u]
  BY <1>1, <1>2
<1>9. ASSUME NEW u \in AuditTasks, building'[u] # None
      PROVE  /\ building'[u].sequence < counter
             /\ \A i \in DOMAIN recorded' : recorded'[i].sequence # building'[u].sequence
             /\ \A v \in AuditTasks : building'[v] # None /\ building'[v].sequence = building'[u].sequence => v = u
  <2>1. u # t /\ building'[u] = building[u]
    BY <1>8, <1>9
  <2>2. /\ building[u].sequence < counter
        /\ \A i \in DOMAIN recorded : recorded[i].sequence # building[u].sequence
        /\ \A v \in AuditTasks : building[v] # None /\ building[v].sequence = building[u].sequence => v = u
    BY <2>1, <1>9, Zenon DEF AuditInv
  <2>3. e.sequence # building[u].sequence
    BY <2>1, <2>2, <1>1, <1>9, Zenon DEF e
  <2> QED
    BY <2>1, <2>2, <2>3, <1>6, <1>8, Zenon
<1> QED
  BY <1>1, <1>2, <1>5, <1>6, <1>7, <1>8, <1>9 DEF AuditInv

LEMMA AuditClear == ASSUME AuditInv, Audit!Clear PROVE AuditInv'
<1>1. events' = <<>> /\ recorded' = <<>> /\ counter' = counter /\ building' = building
  BY DEF Audit!Clear
<1>2. MaxSize \in Nat \ {0}
  BY WorkAssumption DEF WorkAssumption, Audit!SizeAssumption
<1>3. LastOf(<<>>, <<>>, MaxSize) /\ NumberedOnce(<<>>)
  BY <1>2 DEF LastOf, NumberedOnce
<1> QED
  BY <1>1, <1>3 DEF AuditInv

LEMMA AuditStep == AuditInv /\ [WorkNext]_workVars => AuditInv'
<1> SUFFICES ASSUME AuditInv, [WorkNext]_workVars PROVE AuditInv'
  OBVIOUS
<1>1. CASE UNCHANGED auditVars
  BY <1>1 DEF auditVars, AuditInv
<1>2. CASE Audit!Next
  BY <1>2, AuditBuild, AuditRecord, AuditClear DEF Audit!Next
<1>3. UNCHANGED auditVars \/ Audit!Next
  BY DEF WorkNext, OthersUnchanged, workVars
<1> QED
  BY <1>1, <1>2, <1>3

-----------------------------------------------------------------------------
(* All of them.                                                            *)

\* What each area needs and keeps.  A step of one leaves the others alone.
WorkInv ==
    /\ ArchiveInv /\ PredictionInv /\ EmbedInv /\ ModelInv /\ TrailInv /\ AgentInv
    /\ QueryInv /\ StreamInv /\ AuditInv

\* EVERYTHING IS ACCOUNTED FOR, in every order of requests, answers, failures and
\* ticks, and for any sizes: an archive is read within its limits, a vector goes
\* with its text, the model is told what each of its calls returned, an entry of
\* the trail is written, waiting or counted as lost, a search has the vector of
\* its own text, a stream read to its end had every row once and in order, the
\* audit log has the last events (archive.rs, prediction.rs, main.rs of analysis;
\* gemini_agent.rs, middleware/audit.rs, embeddings.rs, streaming/mod.rs; audit.rs).
THEOREM WorkIsAccounted == WorkSpec => []WorkAccounted
<1>1. WorkInit => WorkInv
  BY ArchiveInit, PredictionInit, EmbedInit, ModelInit, TrailInit, AgentInit, QueryInit, StreamInit,
     AuditInit, Zenon
     DEF WorkInv
<1>2. WorkInv /\ [WorkNext]_workVars => WorkInv'
  <2> SUFFICES ASSUME WorkInv, [WorkNext]_workVars PROVE WorkInv'
    OBVIOUS
  <2>1. /\ ArchiveInv /\ PredictionInv /\ EmbedInv /\ ModelInv /\ TrailInv /\ AgentInv
        /\ QueryInv /\ StreamInv /\ AuditInv
    BY Zenon DEF WorkInv
  <2>2. ArchiveInv' /\ PredictionInv' /\ EmbedInv' /\ ModelInv' /\ TrailInv'
    BY <2>1, ArchiveStep, PredictionStep, EmbedStep, ModelStep, TrailStep, Zenon
  <2>3. AgentInv' /\ QueryInv' /\ StreamInv' /\ AuditInv'
    BY <2>1, AgentStep, QueryStep, StreamStep, AuditStep, Zenon
  <2> QED
    BY <2>2, <2>3, Zenon DEF WorkInv
<1>3. WorkInv => WorkAccounted
  <2> SUFFICES ASSUME WorkInv PROVE WorkAccounted
    OBVIOUS
  <2>1. /\ ArchiveInv /\ PredictionInv /\ EmbedInv /\ ModelInv /\ TrailInv /\ AgentInv
        /\ QueryInv /\ StreamInv /\ AuditInv
    BY Zenon DEF WorkInv
  <2>2. Embedders!DefaultRegistered
    BY <2>1, Zenon DEF ModelInv
  <2> QED
    BY ZenonT(60), <2>1, <2>2, ArchiveInvIs, PredictionInvIs, EmbedInvIs, ModelInvIs, TrailInvIs, AgentInvIs,
       QueryInvIs, StreamInvIs, AuditInvIs, Zenon
       DEF WorkAccounted
<1> QED
  BY <1>1, <1>2, <1>3, PTL DEF WorkSpec
=============================================================================
