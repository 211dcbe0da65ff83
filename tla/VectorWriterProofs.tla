------------------------- MODULE VectorWriterProofs -------------------------
(***************************************************************************)
(* What TLAPS proves of VectorWriter, for any topic, any sizes of batches  *)
(* and any number of failures: every vector received has a known fate, a   *)
(* crash loses one batch at most, and no symbol goes back to an older      *)
(* vector but through messages that are read again.                        *)
(***************************************************************************)
EXTENDS VectorWriter, FiniteSetTheorems, SequenceTheorems, WellFoundedInduction, TLAPS

-----------------------------------------------------------------------------
(* Greatest elements.                                                      *)

\* A number that satisfies a condition, if there is one, has a least one: the
\* induction the following lemmas rest on.
LEMMA LeastNat ==
    ASSUME NEW T \in SUBSET Nat, T # {}
    PROVE  \E m \in T : \A k \in T : m <= k
<1>1. PICK m \in T : \A k \in T : ~(<<k, m>> \in OpToRel(<, Nat))
  BY WFMin, NatLessThanWellFounded, Zenon
<1>2. \A k \in T : ~(k < m)
  BY <1>1, Zenon DEF OpToRel
<1> QED
  BY <1>2

\* The numbers of a finite sequence have a bound.
LEMMA BoundOfMany ==
    ASSUME NEW n \in Nat, NEW f, \A i \in 1 .. n : f[i] \in Nat
    PROVE  \E b \in Nat : \A i \in 1 .. n : f[i] <= b
<1> DEFINE Bounds(j) == {b \in Nat : \A i \in 1 .. j : f[i] <= b}
           Unbounded == {j \in 0 .. n : Bounds(j) = {}}
<1>1. ASSUME Unbounded # {} PROVE FALSE
  <2>1. Unbounded \in SUBSET Nat
    OBVIOUS
  <2> HIDE DEF Unbounded
  <2>2. PICK j \in Unbounded : \A k \in Unbounded : j <= k
    BY <1>1, <2>1, LeastNat
  <2> USE DEF Unbounded
  <2>3. j \in 0 .. n /\ Bounds(j) = {}
    BY <2>2
  <2>4. 0 \in Bounds(0)
    OBVIOUS
  <2>5. j # 0
    BY <2>3, <2>4
  <2>6. j - 1 \in 0 .. n /\ ~(j <= j - 1)
    BY <2>3, <2>5
  <2>7. Bounds(j - 1) # {}
    <3> HIDE DEF Bounds
    <3> QED
      BY <2>2, <2>6
  <2>8. PICK b \in Nat : \A i \in 1 .. j - 1 : f[i] <= b
    BY <2>7
  <2>9. f[j] \in Nat
    BY <2>3, <2>5
  <2>10. b + f[j] \in Bounds(j)
    BY <2>3, <2>8, <2>9
  <2> QED
    BY <2>3, <2>10
<1>2. Bounds(n) # {}
  BY <1>1
<1> QED
  BY <1>2

\* A bounded set of numbers that is not empty has a greatest one, which Max is.
LEMMA MaxOf ==
    ASSUME NEW S \in SUBSET Nat, S # {}, NEW b \in Nat, \A k \in S : k <= b
    PROVE  Max(S) \in S /\ \A k \in S : k <= Max(S)
<1> DEFINE T == {m \in Nat : \A k \in S : k <= m}
<1>1. PICK m \in T : \A k \in T : m <= k
  <2>1. b \in T
    OBVIOUS
  <2> QED
    BY <2>1, LeastNat
<1>2. m \in S
  <2>1. ASSUME m \notin S PROVE FALSE
    <3>1. \A k \in S : k <= m - 1
      BY <1>1, <2>1
    <3>2. PICK k \in S : TRUE
      OBVIOUS
    <3>3. m - 1 \in Nat
      BY <1>1, <3>1, <3>2
    <3> QED
      BY <1>1, <3>1, <3>3
  <2> QED
    BY <2>1
<1>3. \E x \in S : \A y \in S : x >= y
  BY <1>1, <1>2
<1>4. Max(S) \in S /\ \A y \in S : Max(S) >= y
  BY <1>3 DEF Max
<1> QED
  BY <1>4

-----------------------------------------------------------------------------
(* The elements of sequences.                                              *)

\* The elements of two sequences in a row, ...
LEMMA ElementsOfBoth ==
    ASSUME NEW P, NEW s \in Seq(P), NEW t \in Seq(P)
    PROVE  ToSet(s \o t) = ToSet(s) \cup ToSet(t)
<1>1. ASSUME NEW x \in ToSet(s \o t) PROVE x \in ToSet(s) \cup ToSet(t)
  <2>1. PICK i \in 1 .. Len(s) + Len(t) : x = (s \o t)[i]
    BY <1>1 DEF ToSet
  <2>2. CASE i <= Len(s)
    BY <2>1, <2>2 DEF ToSet
  <2>3. CASE i > Len(s)
    <3>1. x = t[i - Len(s)] /\ i - Len(s) \in DOMAIN t
      BY <2>1, <2>3
    <3> QED
      BY <3>1 DEF ToSet
  <2> QED
    BY <2>2, <2>3
<1>2. ASSUME NEW x \in ToSet(s) PROVE x \in ToSet(s \o t)
  <2>1. PICK i \in 1 .. Len(s) : x = s[i]
    BY <1>2 DEF ToSet
  <2>2. x = (s \o t)[i] /\ i \in DOMAIN (s \o t)
    BY <2>1
  <2> QED
    BY <2>2 DEF ToSet
<1>3. ASSUME NEW x \in ToSet(t) PROVE x \in ToSet(s \o t)
  <2>1. PICK i \in 1 .. Len(t) : x = t[i]
    BY <1>3 DEF ToSet
  <2>2. x = (s \o t)[i + Len(s)] /\ i + Len(s) \in DOMAIN (s \o t)
    BY <2>1
  <2> QED
    BY <2>2 DEF ToSet
<1> QED
  BY <1>1, <1>2, <1>3

\* ... of a sequence without its head, ...
LEMMA ElementsOfTail ==
    ASSUME NEW P, NEW s \in Seq(P), s # <<>>
    PROVE  ToSet(s) = {Head(s)} \cup ToSet(Tail(s))
<1>1. ASSUME NEW x \in ToSet(s) PROVE x \in {Head(s)} \cup ToSet(Tail(s))
  <2>1. PICK i \in 1 .. Len(s) : x = s[i]
    BY <1>1 DEF ToSet
  <2>2. CASE i = 1
    BY <2>1, <2>2
  <2>3. CASE i # 1
    <3>1. x = Tail(s)[i - 1] /\ i - 1 \in DOMAIN Tail(s)
      BY <2>1, <2>3
    <3> QED
      BY <3>1 DEF ToSet
  <2> QED
    BY <2>2, <2>3
<1>2. Head(s) \in ToSet(s)
  <2>1. Head(s) = s[1] /\ 1 \in DOMAIN s
    OBVIOUS
  <2> QED
    BY <2>1 DEF ToSet
<1>3. ASSUME NEW x \in ToSet(Tail(s)) PROVE x \in ToSet(s)
  <2>1. PICK i \in 1 .. Len(s) - 1 : x = Tail(s)[i]
    BY <1>3 DEF ToSet
  <2>2. x = s[i + 1] /\ i + 1 \in DOMAIN s
    BY <2>1
  <2> QED
    BY <2>2 DEF ToSet
<1> QED
  BY <1>1, <1>2, <1>3

\* ... and how many there can be.
LEMMA ElementsCounted ==
    ASSUME NEW P, NEW s \in Seq(P)
    PROVE  IsFiniteSet(ToSet(s)) /\ Cardinality(ToSet(s)) <= Len(s)
<1>1. s \in Surjection(1 .. Len(s), ToSet(s))
  BY DEF Surjection, ToSet
<1>2. ExistsSurjection(1 .. Len(s), ToSet(s)) /\ Len(s) \in Nat
  BY <1>1 DEF ExistsSurjection
<1> QED
  BY <1>2, FS_NatSurjection, FS_SurjCardinalityBound

-----------------------------------------------------------------------------
(* The inductive invariant.                                                *)

Room == BatchSize - 1 + WidestEvent

\* TypeOK made inductive: the points of a flush are those of one batch, and no
\* batch is filled while it is under way.
Shape ==
    /\ mode \in {"up", "stopping", "down"}
    /\ since \in 0 .. asked /\ asked \in 0 .. pos /\ pos \in 0 .. Len(Topic)
    /\ batch \in Seq(Points) /\ flight \in Seq(Points)
    /\ Len(batch) <= Room /\ Len(flight) <= Room
    /\ batch = <<>> \/ flight = <<>>
    /\ attempt \in 0 .. MaxRetries
    /\ stored \in [Symbols -> 0 .. Len(Topic)]
    /\ kept \cup dead \cup lost \subseteq Points
    /\ crashes \in Nat /\ refused \in Nat /\ faults \in 0 .. MaxFaults
    /\ crashes + refused <= faults

InMemory == ToSet(batch) \cup ToSet(flight)

\* Accounted, without the concatenation.
Known ==
    \A i \in 1 .. pos :
        ToSet(PointsOf(i)) \subseteq InMemory \cup kept \cup dead \cup lost

FewLost == IsFiniteSet(lost) /\ Cardinality(lost) <= crashes * Room + refused

\* What a message adds to the batch.
LEMMA PointsOfMessage ==
    ASSUME NEW i \in DOMAIN Topic
    PROVE  /\ PointsOf(i) \in Seq(Points)
           /\ \A k \in DOMAIN PointsOf(i) : PointsOf(i)[k].msg = i
<1> USE VectorWriterAssumption DEF VectorWriterAssumption
<1>1. CASE Topic[i] = None
  BY <1>1 DEF PointsOf
<1>2. CASE Topic[i] # None
  <2>1. Topic[i] \in Seq(Symbols)
    BY <1>2
  <2>2. PointsOf(i) = [k \in 1 .. Len(Topic[i]) |-> [symbol |-> Topic[i][k], msg |-> i]]
    BY <1>2, <2>1 DEF PointsOf
  <2>3. \A k \in 1 .. Len(Topic[i]) : [symbol |-> Topic[i][k], msg |-> i] \in Points
    BY <2>1 DEF Points
  <2> QED
    BY <2>1, <2>2, <2>3
<1> QED
  BY <1>1, <1>2

\* No message is wider than the widest.
LEMMA WidthOfMessage ==
    /\ WidestEvent \in Nat /\ Room \in Nat
    /\ \A i \in DOMAIN Topic : Len(PointsOf(i)) <= WidestEvent
<1> DEFINE width == [i \in DOMAIN Topic |-> Len(PointsOf(i))]
           W == {0} \cup {Len(PointsOf(i)) : i \in DOMAIN Topic}
<1>1. /\ Len(Topic) \in Nat /\ DOMAIN Topic = 1 .. Len(Topic)
      /\ BatchSize \in Nat \ {0}
  BY VectorWriterAssumption DEF VectorWriterAssumption
<1>2. \A i \in DOMAIN Topic : Len(PointsOf(i)) \in Nat
  BY PointsOfMessage
<1>3. \A i \in 1 .. Len(Topic) : width[i] \in Nat
  BY <1>1, <1>2
<1>4. PICK b \in Nat : \A i \in 1 .. Len(Topic) : width[i] <= b
  <2> HIDE DEF width
  <2> QED
    BY <1>1, <1>3, BoundOfMany
<1>5. W \in SUBSET Nat /\ W # {} /\ \A k \in W : k <= b
  BY <1>1, <1>2, <1>4
<1>6. Max(W) \in W /\ \A k \in W : k <= Max(W)
  <2> HIDE DEF W
  <2> QED
    BY <1>5, MaxOf
<1>7. Max(W) = WidestEvent
  BY DEF WidestEvent
<1> QED
  BY <1>1, <1>5, <1>6, <1>7 DEF Room

-----------------------------------------------------------------------------
(* The types, and the size of a batch.                                     *)

\* A batch takes a message only while it has room for any.
LEMMA ReceiveKeepsShape ==
    ASSUME Shape, Receive
    PROVE  Shape'
<1> USE VectorWriterAssumption DEF VectorWriterAssumption
<1>1. pos + 1 \in DOMAIN Topic /\ pos + 1 \in 0 .. Len(Topic)
  BY DEF Receive, Shape
<1>2. /\ PointsOf(pos + 1) \in Seq(Points) /\ Len(PointsOf(pos + 1)) <= WidestEvent
      /\ WidestEvent \in Nat
  BY <1>1, PointsOfMessage, WidthOfMessage
<1>3. batch' \in Seq(Points) /\ Len(batch') <= Room
  BY <1>2 DEF Receive, Shape, Room
<1>4. flight = <<>>
  BY DEF Receive, Flushing
<1>5. /\ asked' \in {asked, pos + 1} /\ pos' = pos + 1 /\ since' = since
      /\ faults' \in faults .. faults + 1 /\ faults' \in 0 .. MaxFaults
  BY DEF Receive, Shape, Fault
<1>6. since' \in 0 .. asked' /\ asked' \in 0 .. pos'
  BY <1>5 DEF Shape
<1>7. crashes' + refused' <= faults'
  BY <1>5 DEF Receive, failures, Shape
<1> QED
  BY <1>1, <1>3, <1>4, <1>5, <1>6, <1>7 DEF Receive, Shape, outcome, failures

\* A flush ends with its points in Qdrant or one by one in the dead letters.
LEMMA FlushKeepsShape ==
    ASSUME Shape, Flush \/ Upsert \/ UpsertFails \/ DeadLetter
    PROVE  Shape'
<1> USE VectorWriterAssumption DEF VectorWriterAssumption
<1>1. CASE Flush
  BY <1>1 DEF Flush, Shape, outcome, failures
<1>2. CASE Upsert
  <2>1. \A s \in Symbols : Written(s) # {} => flight[Max(Written(s))].msg \in 0 .. Len(Topic)
    <3>1. SUFFICES ASSUME NEW s \in Symbols, Written(s) # {}
                   PROVE  flight[Max(Written(s))].msg \in 0 .. Len(Topic)
      OBVIOUS
    <3>2. Written(s) \in SUBSET Nat /\ \A k \in Written(s) : k <= Len(flight)
      BY DEF Written, Shape
    <3>3. Len(flight) \in Nat
      BY DEF Shape
    <3>4. Max(Written(s)) \in Written(s)
      BY <3>1, <3>2, <3>3, MaxOf
    <3>5. Max(Written(s)) \in DOMAIN flight
      BY <3>4 DEF Written
    <3>6. flight[Max(Written(s))] \in Points
      BY <3>5 DEF Shape
    <3> QED
      BY <3>6, VectorWriterAssumption DEF Points, VectorWriterAssumption
  <2>2. stored' \in [Symbols -> 0 .. Len(Topic)]
    BY <1>2, <2>1 DEF Upsert, Shape
  <2>3. ToSet(flight) \subseteq Points
    BY DEF Shape, ToSet
  <2> QED
    BY <1>2, <2>2, <2>3, WidthOfMessage DEF Upsert, FlushDone, Shape, failures
<1>3. CASE UpsertFails
  BY <1>3 DEF UpsertFails, Fault, Shape, outcome, failures
<1>4. CASE DeadLetter
  <2>1. /\ Head(flight) \in Points /\ Tail(flight) \in Seq(Points)
        /\ Len(Tail(flight)) <= Room
    <3>1. flight \in Seq(Points) /\ flight # <<>> /\ Len(flight) <= Room
      BY <1>4 DEF DeadLetter, Flushing, Shape
    <3>2. Room \in Nat
      BY WidthOfMessage
    <3> HIDE DEF VectorWriterAssumption
    <3> QED
      BY <3>1, <3>2
  <2>2. /\ flight' \in {<<>>, Tail(flight)} /\ attempt' \in {0, attempt}
    BY <1>4 DEF DeadLetter, FlushDone
  <2>3. /\ dead' \cup lost' \subseteq Points
        /\ \/ refused' = refused /\ faults' = faults
           \/ refused' = refused + 1 /\ faults' = faults + 1 /\ faults < MaxFaults
    BY <1>4, <2>1 DEF DeadLetter, Fault, Shape
  <2>4. flight' \in Seq(Points) /\ Len(flight') <= Room
    <3>1. <<>> \in Seq(Points) /\ Len(<<>>) = 0 /\ Room \in Nat
      BY WidthOfMessage
    <3>2. CASE flight' = <<>>
      BY <3>1, <3>2
    <3>3. CASE flight' = Tail(flight)
      BY <2>1, <3>3
    <3> QED
      BY <2>2, <3>2, <3>3
  <2>5. /\ mode' = mode /\ pos' = pos /\ asked' = asked /\ since' = since
        /\ batch' = batch /\ stored' = stored /\ kept' = kept /\ crashes' = crashes
        /\ batch = <<>>
    BY <1>4 DEF DeadLetter, Flushing, Shape
  <2> QED
    BY <2>2, <2>3, <2>4, <2>5 DEF Shape
<1> QED
  BY <1>1, <1>2, <1>3, <1>4

\* A process that ends leaves what it has upserted and an offset behind.
LEMMA HaltKeepsShape ==
    ASSUME Shape, Stop \/ Crash
    PROVE  Shape'
<1> USE VectorWriterAssumption DEF VectorWriterAssumption
<1>1. PICK o \in 0 .. asked : Halt(o)
  BY DEF Stop, Crash, Shape
<1>2. /\ refused' = refused
      /\ \/ crashes' = crashes /\ faults' = faults
         \/ crashes' = crashes + 1 /\ faults' = faults + 1 /\ faults < MaxFaults
  BY DEF Stop, Crash, Fault, failures
<1>3. ToSet(batch \o flight) \subseteq Points
  BY ElementsOfBoth DEF Shape, ToSet
<1> QED
  BY <1>1, <1>2, <1>3, WidthOfMessage DEF Halt, Shape

\* Shape is kept by every step.
LEMMA ShapeStep ==
    ASSUME Shape, [Next]_vars
    PROVE  Shape'
<1>1. CASE FlushIntervalElapsed \/ Shutdown \/ Restart \/ UNCHANGED vars
  <2>1. /\ mode' \in {"up", "stopping", "down"} /\ pos' = pos /\ asked' = asked
        /\ since' = since /\ batch' = batch /\ flight' = flight /\ attempt' = attempt
        /\ stored' = stored /\ kept' = kept /\ dead' = dead /\ lost' = lost
        /\ crashes' = crashes /\ refused' = refused
        /\ faults' \in faults .. faults + 1 /\ faults' \in 0 .. MaxFaults
    BY <1>1, VectorWriterAssumption
       DEF FlushIntervalElapsed, Shutdown, Restart, vars, Fault, service, outcome,
           failures, Shape, VectorWriterAssumption
  <2> QED
    BY <2>1 DEF Shape
<1> QED
  BY <1>1, ReceiveKeepsShape, FlushKeepsShape, HaltKeepsShape DEF Next

-----------------------------------------------------------------------------
(* The fates of the vectors.                                               *)

\* What a step leaves in memory: a flush moves points, nothing else forgets
\* any but the end of a process.
LEMMA KnownStep ==
    ASSUME Shape, Known, [Next]_vars
    PROVE  Known'
<1>1. CASE Receive
  <2>1. pos + 1 \in DOMAIN Topic
    BY <1>1, VectorWriterAssumption DEF Receive, Shape, VectorWriterAssumption
  <2>2. PointsOf(pos + 1) \in Seq(Points) /\ batch \in Seq(Points)
    BY <2>1, PointsOfMessage DEF Shape
  <2>3. /\ pos' = pos + 1 /\ flight' = flight /\ kept' = kept /\ dead' = dead
        /\ lost' = lost /\ ToSet(batch') = ToSet(batch) \cup ToSet(PointsOf(pos + 1))
    BY <1>1, <2>2, ElementsOfBoth DEF Receive, outcome
  <2>4. \A i \in 1 .. pos' : i = pos + 1 \/ i \in 1 .. pos
    BY <2>3 DEF Shape
  <2> QED
    BY <2>3, <2>4 DEF Known, InMemory
<1>2. CASE Flush
  <2>1. flight' = batch /\ batch' = <<>> /\ flight = <<>>
    BY <1>2 DEF Flush, Flushing
  <2>2. InMemory \subseteq InMemory'
    BY <2>1 DEF InMemory, ToSet
  <2>3. pos' = pos /\ kept' = kept /\ dead' = dead /\ lost' = lost
    BY <1>2 DEF Flush, outcome
  <2> QED
    BY <2>2, <2>3 DEF Known
<1>3. CASE Upsert
  <2>1. /\ batch' = batch /\ pos' = pos /\ dead' = dead /\ lost' = lost
        /\ kept' = kept \cup ToSet(flight)
    BY <1>3 DEF Upsert
  <2> QED
    BY <2>1 DEF Known, InMemory
<1>4. CASE DeadLetter
  <2>1. flight \in Seq(Points) /\ flight # <<>>
    BY <1>4 DEF DeadLetter, Flushing, Shape
  <2>2. ToSet(flight) = {Head(flight)} \cup ToSet(Tail(flight))
    BY <2>1, ElementsOfTail
  <2>3. ToSet(Tail(flight)) \subseteq ToSet(flight')
    <3>1. CASE Len(flight) = 1
      <4>1. Tail(flight) \in Seq(Points) /\ Len(Tail(flight)) = 0
        BY <2>1, <3>1
      <4>2. DOMAIN Tail(flight) = 1 .. 0
        BY <4>1, LenProperties
      <4> QED
        BY <4>2 DEF ToSet
    <3>2. CASE Len(flight) # 1
      BY <1>4, <3>2 DEF DeadLetter
    <3> QED
      BY <3>1, <3>2
  <2>4. /\ batch' = batch /\ pos' = pos /\ kept' = kept
        /\ dead \cup lost \cup {Head(flight)} \subseteq dead' \cup lost'
    BY <1>4 DEF DeadLetter
  <2>5. InMemory \subseteq InMemory' \cup {Head(flight)}
    BY <2>2, <2>3, <2>4 DEF InMemory
  <2> QED
    BY <2>4, <2>5 DEF Known
<1>5. CASE Stop \/ Crash
  <2>1. PICK o \in 0 .. asked : Halt(o)
    BY <1>5 DEF Stop, Crash, Shape
  <2>2. /\ pos' = o /\ kept' = kept /\ dead' = dead /\ o \in Nat /\ o <= pos
        /\ lost' = lost \cup {q \in ToSet(batch \o flight) : q.msg <= o}
    BY <2>1 DEF Halt, Shape
  <2>3. ToSet(batch \o flight) = InMemory
    BY ElementsOfBoth DEF Shape, InMemory
  <2>4. ASSUME NEW i \in 1 .. o, NEW q \in ToSet(PointsOf(i)) PROVE q.msg <= o
    <3>1. i \in DOMAIN Topic
      BY <2>2, VectorWriterAssumption DEF Shape, VectorWriterAssumption
    <3>2. q.msg = i
      BY <2>4, <3>1, PointsOfMessage DEF ToSet
    <3> QED
      BY <2>2, <3>2
  <2>5. \A i \in 1 .. o : i \in 1 .. pos
    BY <2>2 DEF Shape
  <2> QED
    BY <2>2, <2>3, <2>4, <2>5 DEF Known
<1>6. CASE FlushIntervalElapsed \/ UpsertFails \/ Shutdown \/ Restart \/ UNCHANGED vars
  BY <1>6 DEF FlushIntervalElapsed, UpsertFails, Shutdown, Restart, vars, service,
              outcome, Known, InMemory
<1> QED
  BY <1>1, <1>2, <1>3, <1>4, <1>5, <1>6 DEF Next

\* What is in memory when a process ends is one batch at most.
LEMMA FewLostStep ==
    ASSUME Shape, FewLost, [Next]_vars
    PROVE  FewLost'
<1>1. Room \in Nat /\ Cardinality(lost) \in Nat
  BY WidthOfMessage, FS_CardinalityType DEF FewLost
<1>2. CASE DeadLetter
  <2>1. batch' = batch /\ crashes' = crashes
    BY <1>2 DEF DeadLetter
  <2>2. \/ lost' = lost /\ refused' = refused
        \/ lost' = lost \cup {Head(flight)} /\ refused' = refused + 1
    BY <1>2 DEF DeadLetter
  <2>3. /\ IsFiniteSet(lost \cup {Head(flight)})
        /\ Cardinality(lost \cup {Head(flight)}) \in Cardinality(lost) .. Cardinality(lost) + 1
    BY <1>1, FS_AddElement DEF FewLost
  <2> DEFINE allowed == crashes * Room
  <2>4. allowed \in Nat /\ refused \in Nat /\ Cardinality(lost) <= allowed + refused
    BY <1>1 DEF Shape, FewLost
  <2>5. crashes' * Room = allowed
    BY <2>1
  <2> HIDE DEF allowed
  <2>6. IsFiniteSet(lost') /\ Cardinality(lost') <= allowed + refused'
    <3>1. CASE lost' = lost /\ refused' = refused
      BY <2>4, <3>1 DEF FewLost
    <3>2. CASE lost' = lost \cup {Head(flight)} /\ refused' = refused + 1
      <4>1. Cardinality(lost') \in Cardinality(lost) .. Cardinality(lost) + 1
        BY <2>3, <3>2
      <4>2. Cardinality(lost') <= allowed + (refused + 1)
        BY <1>1, <2>4, <4>1
      <4> QED
        BY <2>3, <3>2, <4>2
    <3> QED
      BY <2>2, <3>1, <3>2
  <2> QED
    BY <2>5, <2>6 DEF FewLost
<1>3. CASE Stop
  <2>1. batch = <<>> /\ flight = <<>>
    BY <1>3 DEF Stop, Flushing
  <2>2. ToSet(batch \o flight) = {}
    BY <2>1 DEF ToSet
  <2>3. lost' = lost /\ crashes' = crashes /\ refused' = refused
    BY <1>3, <2>2 DEF Stop, Halt, failures
  <2> QED
    BY <2>3 DEF FewLost
<1>4. CASE Crash
  <2>1. PICK o \in since .. asked : Halt(o)
    BY <1>4 DEF Crash
  <2> DEFINE gone == {q \in ToSet(batch \o flight) : q.msg <= o}
  <2>2. lost' = lost \cup gone /\ crashes' = crashes + 1 /\ refused' = refused
    BY <1>4, <2>1 DEF Halt, Crash
  <2>3. batch \o flight \in Seq(Points) /\ Len(batch \o flight) <= Room
    BY DEF Shape
  <2>4. /\ IsFiniteSet(ToSet(batch \o flight))
        /\ Cardinality(ToSet(batch \o flight)) <= Room
        /\ Cardinality(ToSet(batch \o flight)) \in Nat
    <3> DEFINE both == batch \o flight
    <3>1. both \in Seq(Points) /\ Len(both) <= Room /\ Len(both) \in Nat
      BY <2>3
    <3> HIDE DEF both
    <3>2. IsFiniteSet(ToSet(both)) /\ Cardinality(ToSet(both)) <= Len(both)
      BY <3>1, ElementsCounted
    <3>3. Cardinality(ToSet(both)) \in Nat
      BY <3>2, FS_CardinalityType
    <3>4. Cardinality(ToSet(both)) <= Room
      BY <1>1, <3>1, <3>2, <3>3
    <3> QED
      BY <3>2, <3>3, <3>4 DEF both
  <2>5. IsFiniteSet(gone) /\ Cardinality(gone) <= Room /\ Cardinality(gone) \in Nat
    BY <1>1, <2>4, FS_Subset, FS_CardinalityType
  <2> HIDE DEF gone
  <2>6. /\ IsFiniteSet(lost \cup gone)
        /\ Cardinality(lost \cup gone) <= Cardinality(lost) + Cardinality(gone)
    <3>1. IsFiniteSet(lost \cap gone)
      BY <2>5, FS_Intersection
    <3>2. Cardinality(lost \cap gone) \in Nat
      BY <3>1, FS_CardinalityType
    <3>3. /\ IsFiniteSet(lost \cup gone)
          /\ Cardinality(lost \cup gone) =
                Cardinality(lost) + Cardinality(gone) - Cardinality(lost \cap gone)
      BY <2>5, FS_Union DEF FewLost
    <3> QED
      BY <1>1, <2>5, <3>2, <3>3
  <2>7. (crashes + 1) * Room = crashes * Room + Room /\ crashes * Room \in Nat
    BY <1>1 DEF Shape
  <2>8. Cardinality(lost \cup gone) \in Nat
    BY <2>6, FS_CardinalityType
  <2>9. crashes' * Room = crashes * Room + Room
    BY <2>2, <2>7
  <2> QED
    BY <1>1, <2>2, <2>5, <2>6, <2>7, <2>8, <2>9 DEF FewLost, Shape
<1>5. CASE \/ Receive \/ FlushIntervalElapsed \/ Flush \/ Upsert \/ UpsertFails
           \/ Shutdown \/ Restart \/ UNCHANGED vars
  <2>1. lost' = lost /\ crashes' = crashes /\ refused' = refused
    BY <1>5 DEF Receive, FlushIntervalElapsed, Flush, Upsert, UpsertFails, Shutdown,
                Restart, vars, outcome, failures
  <2> QED
    BY <2>1 DEF FewLost
<1> QED
  BY <1>2, <1>3, <1>4, <1>5 DEF Next

\* The timer is on or off.
LEMMA DueStep ==
    ASSUME due \in BOOLEAN, [Next]_vars
    PROVE  due' \in BOOLEAN
<1>1. \/ UNCHANGED <<due>>
      \/ due' = TRUE
      \/ due' = FALSE
  BY Zenon DEF Next, Receive, FlushIntervalElapsed, Flush, Upsert, UpsertFails,
        DeadLetter, FlushDone, Shutdown, Stop, Crash, Halt, Restart, vars, service
<1> QED
  BY <1>1

\* The invariant holds at first, ...
LEMMA InitFates == Init => Shape /\ Known /\ FewLost /\ due \in BOOLEAN
<1> SUFFICES ASSUME Init PROVE Shape /\ Known /\ FewLost /\ due \in BOOLEAN
  OBVIOUS
<1>1. due \in BOOLEAN
  BY Zenon DEF Init
<1>2. Shape
  <2>1. <<>> \in Seq(Points) /\ Len(<<>>) = 0 /\ Room \in Nat
    BY WidthOfMessage
  <2> QED
    BY <2>1, VectorWriterAssumption DEF VectorWriterAssumption, Init, Shape
<1>3. Known
  BY DEF Init, Known
<1>4. FewLost
  <2>1. IsFiniteSet({}) /\ Cardinality({}) = 0
    BY FS_EmptySet
  <2> QED
    BY <2>1, WidthOfMessage DEF Init, FewLost
<1> QED
  BY <1>1, <1>2, <1>3, <1>4

\* ... and always.
LEMMA Fates == Spec => [](Shape /\ Known /\ FewLost /\ due \in BOOLEAN)
<1>1. Shape /\ Known /\ FewLost /\ due \in BOOLEAN /\ [Next]_vars
          => (Shape /\ Known /\ FewLost /\ due \in BOOLEAN)'
  BY ShapeStep, KnownStep, FewLostStep, DueStep
<1> QED
  BY <1>1, InitFates, PTL DEF Spec

\* THE FATES OF THE VECTORS: whatever fails, every vector of a message that was
\* received is in the batch, being flushed, in Qdrant, a dead letter or lost,
\* and a crash loses one batch at most.
THEOREM FatesAreKnown == Spec => []Inv
<1>1. Shape /\ due \in BOOLEAN => TypeOK
  <2> SUFFICES ASSUME Shape, due \in BOOLEAN PROVE TypeOK
    OBVIOUS
  <2>1. ToSet(batch) \cup ToSet(flight) \subseteq Points
    BY DEF Shape, ToSet
  <2>2. /\ crashes \in 0 .. MaxFaults /\ refused \in 0 .. MaxFaults
        /\ faults \in 0 .. MaxFaults
    BY VectorWriterAssumption DEF VectorWriterAssumption, Shape
  <2>3. Len(batch) <= BatchSize - 1 + WidestEvent
    BY DEF Shape, Room
  <2> QED
    BY <2>1, <2>2, <2>3 DEF TypeOK, Shape
<1>2. Shape /\ Known => Accounted
  BY ElementsOfBoth DEF Shape, Known, InMemory, Accounted
<1>3. FewLost => OneBatchLost
  BY DEF FewLost, OneBatchLost, Room
<1>4. Shape /\ Known /\ FewLost /\ due \in BOOLEAN => Inv
  BY <1>1, <1>2, <1>3 DEF Inv
<1> QED
  BY <1>4, Fates, PTL

-----------------------------------------------------------------------------
(* The order of the vectors.                                               *)

Ordered(points) ==
    \A j, k \in DOMAIN points : j <= k => points[j].msg <= points[k].msg

\* The points are of messages that this process has received.
Recent(points) ==
    \A k \in DOMAIN points : since < points[k].msg /\ points[k].msg <= pos

\* Message i has a vector of s.
Names(i, s) == i \in DOMAIN Topic /\ \E k \in DOMAIN PointsOf(i) : PointsOf(i)[k].symbol = s

\* When the process has come as far as the vector that a symbol has, no point
\* of the symbol is the last of its points and older than that.
Newest(points) ==
    \A j \in DOMAIN points :
        stored[points[j].symbol] <= pos =>
            \E k \in DOMAIN points : /\ j <= k
                                     /\ points[k].symbol = points[j].symbol
                                     /\ stored[points[j].symbol] <= points[k].msg

Sorted(points) == Ordered(points) /\ Recent(points) /\ Newest(points)

InOrder ==
    /\ Sorted(batch) /\ Sorted(flight)
    /\ \A k \in DOMAIN flight : Names(flight[k].msg, flight[k].symbol)
    /\ \A k \in DOMAIN batch : Names(batch[k].msg, batch[k].symbol)
    /\ \A s \in Symbols : stored[s] # 0 => Names(stored[s], s)

\* Messages are numbered.
LEMMA PointTypes ==
    \A q \in Points : q.msg \in Nat /\ q.symbol \in Symbols
<1>1. DOMAIN Topic \subseteq Nat
  BY VectorWriterAssumption DEF VectorWriterAssumption
<1> QED
  BY <1>1 DEF Points

\* The points of the next message come behind those of the batch.
LEMMA ReceiveKeepsOrder ==
    ASSUME Shape, InOrder, Receive
    PROVE  InOrder'
<1> DEFINE added == PointsOf(pos + 1)
<1>1. pos + 1 \in DOMAIN Topic /\ pos \in Nat /\ since \in Nat /\ since <= pos
  BY VectorWriterAssumption DEF Receive, Shape, VectorWriterAssumption
<1>2. /\ added \in Seq(Points) /\ batch \in Seq(Points)
      /\ \A k \in DOMAIN added : added[k].msg = pos + 1
  BY <1>1, PointsOfMessage DEF Shape
<1>3. /\ pos' = pos + 1 /\ since' = since /\ batch' = batch \o added
      /\ flight' = flight /\ flight = <<>> /\ stored' = stored
  BY DEF Receive, Flushing, outcome
<1>4. \A k \in DOMAIN added : Names(pos + 1, added[k].symbol)
  BY <1>1 DEF Names
<1>5. stored \in [Symbols -> Nat]
  BY VectorWriterAssumption DEF Shape, VectorWriterAssumption
<1> HIDE DEF added
<1>6. /\ DOMAIN batch' = 1 .. Len(batch) + Len(added)
      /\ DOMAIN batch = 1 .. Len(batch) /\ DOMAIN added = 1 .. Len(added)
      /\ Len(batch) \in Nat /\ Len(added) \in Nat
  BY <1>2, <1>3
<1>7. \A k \in DOMAIN batch' :
        \/ k \in DOMAIN batch /\ batch'[k] = batch[k]
        \/ /\ k - Len(batch) \in DOMAIN added /\ k > Len(batch)
           /\ batch'[k] = added[k - Len(batch)]
  BY <1>2, <1>3, <1>6
<1>8. \A k \in DOMAIN batch' : /\ batch'[k] \in Points
                               /\ batch'[k].msg \in Nat /\ batch'[k].symbol \in Symbols
  <2>1. \A k \in DOMAIN batch' : batch'[k] \in Points
    BY <1>2, <1>7
  <2> QED
    BY <2>1, PointTypes
<1>9. \A k \in DOMAIN batch' :
        \/ k \in DOMAIN batch /\ batch'[k] = batch[k] /\ batch'[k].msg <= pos
           /\ since < batch'[k].msg
        \/ k > Len(batch) /\ batch'[k].msg = pos + 1
  <2>1. \A k \in DOMAIN batch : since < batch[k].msg /\ batch[k].msg <= pos
    BY DEF InOrder, Sorted, Recent
  <2> QED
    BY <1>2, <1>7, <2>1
<1>10. Ordered(batch')
  <2>1. SUFFICES ASSUME NEW j \in DOMAIN batch', NEW k \in DOMAIN batch', j <= k
                 PROVE  batch'[j].msg <= batch'[k].msg
    BY DEF Ordered
  <2>2. j \in Nat /\ k \in Nat /\ batch'[j].msg \in Nat /\ batch'[k].msg \in Nat
    BY <1>6, <1>8
  <2>3. CASE k > Len(batch)
    BY <1>1, <1>6, <1>9, <2>2, <2>3
  <2>4. CASE k <= Len(batch)
    <3>1. /\ j \in DOMAIN batch /\ k \in DOMAIN batch
          /\ batch'[j] = batch[j] /\ batch'[k] = batch[k]
      BY <1>6, <1>9, <2>1, <2>2, <2>4
    <3> QED
      BY <2>1, <3>1 DEF InOrder, Sorted, Ordered
  <2> QED
    BY <1>6, <2>2, <2>3, <2>4
<1>11. Recent(batch)'
  <2>1. \A k \in DOMAIN batch' : since < batch'[k].msg /\ batch'[k].msg <= pos + 1
    BY <1>1, <1>8, <1>9
  <2> QED
    BY <1>3, <2>1 DEF Recent
<1>12. Newest(batch)'
  <2>1. SUFFICES ASSUME NEW j \in DOMAIN batch', stored[batch'[j].symbol] <= pos + 1
                 PROVE  \E k \in DOMAIN batch' :
                           /\ j <= k /\ batch'[k].symbol = batch'[j].symbol
                           /\ stored[batch'[j].symbol] <= batch'[k].msg
    BY <1>3 DEF Newest
  <2>2. CASE j > Len(batch)
    <3>1. batch'[j].msg = pos + 1 /\ j \in Nat
      BY <1>6, <1>9, <2>2
    <3> QED
      BY <2>1, <3>1
  <2>3. CASE j <= Len(batch) /\ stored[batch'[j].symbol] <= pos
    <3>1. batch'[j] = batch[j] /\ j \in DOMAIN batch
      BY <1>6, <1>7, <2>3
    <3>2. PICK k \in DOMAIN batch : /\ j <= k /\ batch[k].symbol = batch[j].symbol
                                    /\ stored[batch[j].symbol] <= batch[k].msg
      BY <2>3, <3>1 DEF InOrder, Sorted, Newest
    <3>3. k \in DOMAIN batch' /\ batch'[k] = batch[k]
      BY <1>6, <1>7, <3>2
    <3> QED
      BY <3>1, <3>2, <3>3
  <2>4. CASE j <= Len(batch) /\ ~(stored[batch'[j].symbol] <= pos)
    <3>1. batch'[j].symbol \in Symbols /\ stored[batch'[j].symbol] = pos + 1
      BY <1>1, <1>5, <1>8, <2>1, <2>4
    <3>2. Names(pos + 1, batch'[j].symbol)
      BY <1>1, <3>1 DEF InOrder
    <3>3. PICK i \in DOMAIN added : added[i].symbol = batch'[j].symbol
      BY <3>2 DEF Names, added
    <3>4. /\ Len(batch) + i \in DOMAIN batch' /\ batch'[Len(batch) + i] = added[i]
          /\ j <= Len(batch) + i
      BY <1>2, <1>3, <1>6, <2>4, <3>3
    <3>5. /\ batch'[Len(batch) + i].symbol = batch'[j].symbol
          /\ stored[batch'[j].symbol] <= batch'[Len(batch) + i].msg
      BY <1>1, <1>2, <3>1, <3>3, <3>4
    <3> QED
      BY <3>4, <3>5
  <2> QED
    BY <1>6, <2>1, <2>2, <2>3, <2>4
<1>13. \A k \in DOMAIN batch' : Names(batch'[k].msg, batch'[k].symbol)
  BY <1>2, <1>4, <1>7 DEF InOrder
<1>14. Sorted(flight)'
  BY <1>3 DEF Sorted, Ordered, Recent, Newest
<1>15. /\ \A k \in DOMAIN flight' : Names(flight'[k].msg, flight'[k].symbol)
       /\ \A s \in Symbols : stored'[s] # 0 => Names(stored'[s], s)
  BY <1>3 DEF InOrder
<1>16. Sorted(batch)'
  BY <1>10, <1>11, <1>12 DEF Sorted, Ordered
<1> QED
  BY <1>13, <1>14, <1>15, <1>16 DEF InOrder, Names

\* What Qdrant has after an upsert: of the points of a symbol the last one.
LEMMA LastIsWritten ==
    ASSUME Shape, InOrder, NEW s \in Symbols, Written(s) # {}
    PROVE  /\ Max(Written(s)) \in DOMAIN flight
           /\ flight[Max(Written(s))].symbol = s
           /\ \A k \in Written(s) : flight[k].msg <= flight[Max(Written(s))].msg
<1>1. Written(s) \in SUBSET Nat /\ \A k \in Written(s) : k <= Len(flight)
  BY DEF Written, Shape
<1>2. Len(flight) \in Nat
  BY DEF Shape
<1>3. Max(Written(s)) \in Written(s) /\ \A k \in Written(s) : k <= Max(Written(s))
  BY <1>1, <1>2, MaxOf
<1> QED
  BY <1>3 DEF Written, InOrder, Sorted, Ordered

\* A flush keeps the order, and a point that goes to the dead letters is never
\* the newest of its symbol that others wait for.
LEMMA FlushKeepsOrder ==
    ASSUME Shape, InOrder, Flush \/ Upsert \/ UpsertFails \/ DeadLetter
    PROVE  InOrder'
<1>1. CASE Flush
  <2>1. /\ flight' = batch /\ batch' = <<>> /\ pos' = pos /\ since' = since
        /\ stored' = stored
    BY <1>1 DEF Flush, outcome
  <2> QED
    BY <2>1 DEF InOrder, Sorted, Ordered, Recent, Newest, Names
<1>2. CASE Upsert
  <2>1. /\ batch' = batch /\ batch = <<>> /\ flight' = <<>> /\ pos' = pos /\ since' = since
        /\ stored' = [s \in Symbols |-> IF Written(s) = {} THEN stored[s]
                                        ELSE flight[Max(Written(s))].msg]
    BY <1>2 DEF Upsert, FlushDone, Flushing, Shape
  <2>2. ASSUME NEW s \in Symbols, stored'[s] # 0 PROVE Names(stored'[s], s)
    <3>1. CASE Written(s) = {}
      BY <2>1, <2>2, <3>1 DEF InOrder
    <3>2. CASE Written(s) # {}
      BY <2>1, <3>2, LastIsWritten DEF InOrder
    <3> QED
      BY <3>1, <3>2
  <2>3. Sorted(batch)' /\ Sorted(flight)'
    BY <2>1 DEF Sorted, Ordered, Recent, Newest
  <2>4. /\ \A k \in DOMAIN flight' : Names(flight'[k].msg, flight'[k].symbol)
        /\ \A k \in DOMAIN batch' : Names(batch'[k].msg, batch'[k].symbol)
    BY <2>1
  <2> QED
    BY <2>2, <2>3, <2>4 DEF InOrder, Names
<1>3. CASE UpsertFails
  <2>1. /\ flight' = flight /\ batch' = batch /\ pos' = pos /\ since' = since
        /\ stored' = stored
    BY <1>3 DEF UpsertFails, outcome
  <2> QED
    BY <2>1 DEF InOrder, Sorted, Ordered, Recent, Newest, Names
<1>4. CASE DeadLetter
  <2>1. /\ batch' = batch /\ batch = <<>> /\ pos' = pos /\ since' = since
        /\ stored' = stored /\ flight' \in {<<>>, Tail(flight)}
        /\ flight \in Seq(Points) /\ flight # <<>>
    BY <1>4 DEF DeadLetter, FlushDone, Flushing, Shape
  <2>2. CASE flight' = <<>>
    BY <2>1, <2>2 DEF InOrder, Sorted, Ordered, Recent, Newest, Names
  <2>3. CASE flight' = Tail(flight)
    <3>1. \A k \in DOMAIN flight' : /\ k \in Nat /\ k + 1 \in DOMAIN flight
                                    /\ flight'[k] = flight[k + 1]
      BY <2>1, <2>3
    <3>2. \A k \in DOMAIN flight : k > 1 => k - 1 \in DOMAIN flight' /\ flight'[k - 1] = flight[k]
      BY <2>1, <2>3
    <3>3. DOMAIN flight \subseteq Nat
      BY <2>1
    <3>4. Ordered(flight)' /\ Recent(flight)'
      BY <2>1, <3>1, <3>3 DEF InOrder, Sorted, Ordered, Recent
    <3>5. Newest(flight)'
      <4>1. SUFFICES ASSUME NEW j \in DOMAIN flight', stored[flight'[j].symbol] <= pos
                     PROVE  \E k \in DOMAIN flight' :
                               /\ j <= k /\ flight'[k].symbol = flight'[j].symbol
                               /\ stored[flight'[j].symbol] <= flight'[k].msg
        BY <2>1 DEF Newest
      <4>2. PICK k \in DOMAIN flight :
               /\ j + 1 <= k /\ flight[k].symbol = flight'[j].symbol
               /\ stored[flight'[j].symbol] <= flight[k].msg
        BY <3>1, <4>1 DEF InOrder, Sorted, Newest
      <4>3. k - 1 \in DOMAIN flight' /\ flight'[k - 1] = flight[k] /\ j <= k - 1
        BY <3>1, <3>2, <3>3, <4>1, <4>2
      <4> QED
        BY <4>2, <4>3
    <3>6. \A k \in DOMAIN flight' : Names(flight'[k].msg, flight'[k].symbol)
      BY <3>1 DEF InOrder
    <3>7. Sorted(batch)'
      BY <2>1 DEF Sorted, Ordered, Recent, Newest
    <3> QED
      BY <2>1, <3>4, <3>5, <3>6, <3>7 DEF InOrder, Sorted, Names
  <2> QED
    BY <2>1, <2>2, <2>3
<1> QED
  BY <1>1, <1>2, <1>3, <1>4

\* The inductive step: what is in memory is in the order of the topic.
LEMMA OrderStep ==
    ASSUME Shape, InOrder, [Next]_vars
    PROVE  InOrder'
<1>1. CASE Stop \/ Crash
  <2>1. batch' = <<>> /\ flight' = <<>> /\ stored' = stored
    BY <1>1 DEF Stop, Crash, Halt
  <2> QED
    BY <2>1 DEF InOrder, Sorted, Ordered, Recent, Newest, Names
<1>2. CASE FlushIntervalElapsed \/ Shutdown \/ Restart \/ UNCHANGED vars
  <2>1. /\ flight' = flight /\ batch' = batch /\ pos' = pos /\ since' = since
        /\ stored' = stored
    BY <1>2 DEF FlushIntervalElapsed, Shutdown, Restart, vars, service, outcome
  <2> QED
    BY <2>1 DEF InOrder, Sorted, Ordered, Recent, Newest, Names
<1> QED
  BY <1>1, <1>2, ReceiveKeepsOrder, FlushKeepsOrder DEF Next

\* An upsert that takes an older vector: the newer one has not been read again.
LEMMA UpsertIsForward ==
    ASSUME Shape, InOrder, Upsert, NEW s \in Symbols, stored'[s] < stored[s]
    PROVE  since < stored'[s] /\ pos < stored[s]
<1>1. stored'[s] = IF Written(s) = {} THEN stored[s] ELSE flight[Max(Written(s))].msg
  BY DEF Upsert
<1>2. stored[s] \in Nat /\ pos \in Nat
  BY VectorWriterAssumption DEF Shape, VectorWriterAssumption
<1>3. Written(s) # {}
  BY <1>1, <1>2
<1> DEFINE last == Max(Written(s))
<1>4. /\ last \in DOMAIN flight /\ flight[last].symbol = s
      /\ \A k \in Written(s) : flight[k].msg <= flight[last].msg
  BY <1>3, LastIsWritten
<1>5. stored'[s] = flight[last].msg
  BY <1>1, <1>3
<1> HIDE DEF last
<1>6. since < stored'[s]
  BY <1>4, <1>5 DEF InOrder, Sorted, Recent
<1>7. ASSUME stored[s] <= pos PROVE FALSE
  <2>1. PICK k \in DOMAIN flight : flight[k].symbol = s /\ stored[s] <= flight[k].msg
    BY <1>4, <1>7 DEF InOrder, Sorted, Newest
  <2>2. k \in Written(s) /\ flight[k].msg \in Nat /\ flight[last].msg \in Nat
    <3>1. flight[k] \in Points /\ flight[last] \in Points
      BY <1>4, <2>1 DEF Shape
    <3> QED
      BY <2>1, <3>1, PointTypes DEF Written
  <2> QED
    BY <1>2, <1>4, <1>5, <2>1, <2>2
<1> QED
  BY <1>2, <1>6, <1>7

\* NO SYMBOL GOES BACK: through batches, retries, dead letters, crashes and
\* restarts, an older vector replaces a newer one only after a restart, by a
\* message read again, and before the newer message is read again.
THEOREM VectorsGoForward == Spec => NeverBackwards
<1>1. Init => InOrder
  BY VectorWriterAssumption
     DEF VectorWriterAssumption, Init, InOrder, Sorted, Ordered, Recent, Newest
<1>2. ASSUME Shape, InOrder, [Next]_vars
      PROVE  [\A s \in Symbols : stored'[s] < stored[s] =>
                                   since < stored'[s] /\ pos < stored[s]]_vars
  <2>1. stored' = stored \/ Upsert
    BY <1>2 DEF Next, Receive, FlushIntervalElapsed, Flush, UpsertFails, DeadLetter,
                Shutdown, Stop, Crash, Halt, Restart, vars, outcome
  <2>2. \A s \in Symbols : stored[s] \in Nat
    BY <1>2, VectorWriterAssumption DEF Shape, VectorWriterAssumption
  <2> QED
    BY <1>2, <2>1, <2>2, UpsertIsForward
<1> QED
  BY <1>1, <1>2, Fates, OrderStep, PTL DEF Spec, NeverBackwards
=============================================================================
