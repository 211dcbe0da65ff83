---------------------------- MODULE GraphWriter ----------------------------
(***************************************************************************)
(* apps/graph-writer: the consumer group that turns the domain events of   *)
(* Kafka into the dependency graph kept in Memgraph (consumer.rs, handlers,*)
(* graph/queries.rs, dlq/publisher.rs).                                    *)
(*                                                                         *)
(* A partition of a topic is a fixed sequence of records.  A writer takes  *)
(* one record at a time, from any of its partitions, and goes through      *)
(* process_message: apply it to Memgraph in one transaction, or else send  *)
(* it to the dead-letter topic, then commit its offset.  Between any two   *)
(* of these steps a writer may die, or Kafka may move a partition to       *)
(* another writer, which starts from the committed offset while the        *)
(* first one still finishes its record.                                    *)
(***************************************************************************)
EXTENDS Integers, Sequences, FiniteSets

CONSTANTS
    Packages,    \* Package nodes, by id
    Versions,    \* Version nodes, by id
    PackageOf,   \* the package a version belongs to
    Partitions,  \* partitions of the five subscribed topics
    Log,         \* Log[p]: the records of partition p, oldest first
    Writers,     \* members of the consumer group
    FaultKinds,  \* the kinds of failure the environment may produce
    MaxFaults    \* bound on how many failures it produces

AllFaults == {"crash", "rebalance", "memgraph", "dlq", "commit"}

\* A record as the router and the handlers tell them apart: "package" is the
\* package upsert no handler writes, "empty" has no payload, "unknown" an
\* unknown event type, "garbage" a payload that does not decode.
Record ==
    [kind : {"upsert"}, version : Versions, deps : SUBSET Packages]
        \cup [kind : {"yank"}, version : Versions]
        \cup [kind : {"delete"}, package : Packages]
        \cup [kind : {"package", "empty", "unknown", "garbage"}]

ASSUME GraphWriterAssumption ==
    /\ PackageOf \in [Versions -> Packages]
    /\ Log \in [Partitions -> Seq(Record)]
    /\ FaultKinds \subseteq AllFaults
    /\ MaxFaults \in Nat

VARIABLES
    \* The graph: Package and Version nodes, DEPENDS_ON edges from versions
    \* to packages and their DEPENDS_ON_PKG projection between packages.
    packages, versions, depends, projected,
    \* Kafka: the group's committed offset, its owner and the next record to
    \* deliver, by partition, and the records in the dead-letter topic.
    committed, owner, pos, dlq,
    \* Where each writer is in process_message, and with which record.
    pc, work,
    \* History: the records some handler has returned Ok for.
    done,
    \* How many failures have happened.
    faults

graph == <<packages, versions, depends, projected>>
vars  == <<packages, versions, depends, projected, committed, owner, pos, dlq,
           pc, work, done, faults>>

PC == {"recv", "handle", "dlq", "commit"}

\* A record is named by its partition and its offset, counted from 1.
Refs == UNION {{p} \X DOMAIN Log[p] : p \in Partitions}
Nothing == <<>>
RecordAt(r) == Log[r[1]][r[2]]

Init ==
    /\ packages  = [p \in Packages |-> "absent"]
    /\ versions  = [v \in Versions |-> "absent"]
    /\ depends   = {}
    /\ projected = {}
    /\ committed = [p \in Partitions |-> 0]
    /\ owner \in [Partitions -> Writers]
    /\ pos = [p \in Partitions |-> 0]
    /\ dlq = {}
    /\ pc   = [w \in Writers |-> "recv"]
    /\ work = [w \in Writers |-> Nothing]
    /\ done = {}
    /\ faults = 0

-----------------------------------------------------------------------------
\* The failures of the environment, MaxFaults of them at most.
Fault(kind) ==
    /\ kind \in FaultKinds
    /\ faults < MaxFaults
    /\ faults' = faults + 1

-----------------------------------------------------------------------------
(* What the queries of GraphQueries do to the graph.                       *)

\* MERGE creates the missing nodes, and leaves yanked and deleted_at of the
\* existing ones as they are.
MergeNodes(v, D) ==
    /\ packages' = [q \in Packages |->
                       IF q \in D \cup {PackageOf[v]} /\ packages[q] = "absent"
                       THEN "live" ELSE packages[q]]
    /\ versions' = [versions EXCEPT ![v] = IF @ = "absent" THEN "live" ELSE @]

\* Mutants of the transaction: the projection is left out; a version that
\* exists is not written again.
UpsertNoProjection(v, D) ==
    /\ MergeNodes(v, D)
    /\ depends' = {d \in depends : d[1] # v} \cup ({v} \X D)
    /\ UNCHANGED projected
UpsertOnce(v, D) ==
    IF versions[v] # "absent" THEN UNCHANGED graph
    ELSE /\ MergeNodes(v, D)
         /\ depends' = depends \cup ({v} \X D)
         /\ projected' = projected \cup ({PackageOf[v]} \X D)

\* One transaction: the DEPENDS_ON edges of the version are replaced, the
\* DEPENDS_ON_PKG edges of its package are only added to.
Upsert(v, D) ==
    /\ MergeNodes(v, D)
    /\ depends' = {d \in depends : d[1] # v} \cup ({v} \X D)
    /\ projected' = projected \cup ({PackageOf[v]} \X D)

\* Mutant: the soft delete of packages is used for versions too.
YankDeletes(v) ==
    /\ versions' = [versions EXCEPT ![v] = IF @ = "absent" THEN @ ELSE "deleted"]
    /\ UNCHANGED <<packages, depends, projected>>

\* MATCH finds no node to update when the version was never written.
Yank(v) ==
    /\ versions' = [versions EXCEPT ![v] = IF @ = "absent" THEN @ ELSE "yanked"]
    /\ UNCHANGED <<packages, depends, projected>>

Delete(q) ==
    /\ packages' = [packages EXCEPT ![q] = IF @ = "absent" THEN @ ELSE "deleted"]
    /\ UNCHANGED <<versions, depends, projected>>

Apply(r) ==
    \/ r.kind = "upsert" /\ Upsert(r.version, r.deps)
    \/ r.kind = "yank" /\ Yank(r.version)
    \/ r.kind = "delete" /\ Delete(r.package)
    \/ r.kind \in {"package", "empty"} /\ UNCHANGED graph

-----------------------------------------------------------------------------
(* The loop of writer w.                                                   *)

NextRecord(w) ==
    /\ pc'   = [pc EXCEPT ![w] = "recv"]
    /\ work' = [work EXCEPT ![w] = Nothing]

\* recv() returns the next record of some partition of w.
Receive(w, p) ==
    /\ pc[w] = "recv"
    /\ owner[p] = w
    /\ pos[p] < Len(Log[p])
    /\ pos'  = [pos EXCEPT ![p] = @ + 1]
    /\ work' = [work EXCEPT ![w] = <<p, pos[p] + 1>>]
    /\ pc'   = [pc EXCEPT ![w] = "handle"]
    /\ UNCHANGED <<graph, committed, owner, dlq, done, faults>>

\* The record has a handler, and the handler returns Ok.
Handle(w) ==
    /\ pc[w] = "handle"
    /\ Apply(RecordAt(work[w]))
    /\ done' = done \cup {work[w]}
    /\ pc' = [pc EXCEPT ![w] = "commit"]
    /\ UNCHANGED <<committed, owner, pos, dlq, work, faults>>

\* The event type is unknown or the payload does not decode.
Reject(w) ==
    /\ pc[w] = "handle"
    /\ RecordAt(work[w]).kind \in {"unknown", "garbage"}
    /\ pc' = [pc EXCEPT ![w] = "dlq"]
    /\ UNCHANGED <<graph, committed, owner, pos, dlq, work, done, faults>>

\* Memgraph answers with an error, or its answer to the commit of the
\* transaction is lost.  There is no second try.
HandleFails(w) ==
    /\ pc[w] = "handle"
    /\ RecordAt(work[w]).kind \in {"upsert", "yank", "delete"}
    /\ Fault("memgraph")
    /\ Apply(RecordAt(work[w])) \/ UNCHANGED graph
    /\ pc' = [pc EXCEPT ![w] = "dlq"]
    /\ UNCHANGED <<committed, owner, pos, dlq, work, done>>

\* Mutant: the offset is committed although the DLQ did not take the record.
SendToDlqUnsent(w) ==
    /\ pc[w] = "dlq"
    /\ pc' = [pc EXCEPT ![w] = "commit"]
    /\ UNCHANGED <<graph, committed, owner, pos, dlq, work, done, faults>>

SendToDlq(w) ==
    /\ pc[w] = "dlq"
    /\ dlq' = dlq \cup {work[w]}
    /\ pc' = [pc EXCEPT ![w] = "commit"]
    /\ UNCHANGED <<graph, committed, owner, pos, work, done, faults>>

\* run() logs the error and receives the next record.
SendToDlqFails(w) ==
    /\ pc[w] = "dlq"
    /\ Fault("dlq")
    /\ dlq' \in {dlq, dlq \cup {work[w]}}
    /\ NextRecord(w)
    /\ UNCHANGED <<graph, committed, owner, pos, done>>

\* commit_message sends the offset after this record, whatever was committed
\* or left out before.  Kafka refuses it from a writer that has lost the
\* partition, which nobody notices: the commit is asynchronous.
CommitOffset(w) ==
    /\ pc[w] = "commit"
    /\ LET p == work[w][1]
       IN  committed' = IF owner[p] = w
                        THEN [committed EXCEPT ![p] = work[w][2]]
                        ELSE committed
    /\ NextRecord(w)
    /\ UNCHANGED <<graph, owner, pos, dlq, done, faults>>

CommitFails(w) ==
    /\ pc[w] = "commit"
    /\ Fault("commit")
    /\ NextRecord(w)
    /\ UNCHANGED <<graph, committed, owner, pos, dlq, done>>

-----------------------------------------------------------------------------
(* The consumer group.                                                     *)

\* Mutant: the restarted writer goes on where the dead one was.
CrashKeepsPosition(w) ==
    /\ Fault("crash")
    /\ NextRecord(w)
    /\ UNCHANGED <<graph, committed, owner, pos, dlq, done>>

\* A writer dies and is restarted; its partitions are delivered again from
\* the committed offsets.
Crash(w) ==
    /\ Fault("crash")
    /\ NextRecord(w)
    /\ pos' = [p \in Partitions |-> IF owner[p] = w THEN committed[p] ELSE pos[p]]
    /\ UNCHANGED <<graph, committed, owner, dlq, done>>

\* Partition p moves to writer w; its former owner may be inside a record.
Rebalance(w, p) ==
    /\ owner[p] # w
    /\ Fault("rebalance")
    /\ owner' = [owner EXCEPT ![p] = w]
    /\ pos' = [pos EXCEPT ![p] = committed[p]]
    /\ UNCHANGED <<graph, committed, dlq, pc, work, done>>

WriterStep(w) ==
    \/ \E p \in Partitions : Receive(w, p)
    \/ Handle(w)
    \/ Reject(w)
    \/ SendToDlq(w)
    \/ CommitOffset(w)

WriterFault(w) ==
    \/ HandleFails(w)
    \/ SendToDlqFails(w)
    \/ CommitFails(w)
    \/ Crash(w)
    \/ \E p \in Partitions : Rebalance(w, p)

Next == \E w \in Writers : WriterStep(w) \/ WriterFault(w)

Spec == Init /\ [][Next]_vars

\* run() loops for as long as the process lives, and dead ones are restarted.
FairSpec == Spec /\ \A w \in Writers : WF_vars(WriterStep(w))
-----------------------------------------------------------------------------
(* Properties.                                                             *)

TypeOK ==
    /\ packages  \in [Packages -> {"absent", "live", "deleted"}]
    /\ versions  \in [Versions -> {"absent", "live", "yanked"}]
    /\ depends   \subseteq Versions \X Packages
    /\ projected \subseteq Packages \X Packages
    /\ committed \in [Partitions -> Nat]
    /\ owner     \in [Partitions -> Writers]
    /\ pos       \in [Partitions -> Nat]
    /\ dlq  \subseteq Refs
    /\ pc   \in [Writers -> PC]
    /\ work \in [Writers -> Refs \cup {Nothing}]
    /\ done \subseteq Refs
    /\ faults \in Nat

\* A record was applied to the graph or is in the dead-letter topic.
Handled(r) == r \in done \/ r \in dlq

\* "Manual commit for at-least-once" (consumer.rs:48): no record at or below
\* a committed offset is lost, whichever writer committed it, whenever it
\* lost the partition, however often it crashed.
CommittedHandled ==
    \A p \in Partitions : \A i \in 1..committed[p] : Handled(<<p, i>>)

\* Every record is in the end applied or dead-lettered.
AllHandled == <>(\A r \in Refs : Handled(r))

Deps(v) == {q \in Packages : <<v, q>> \in depends}

\* CHECK 3 and CHECK 6 of consistency_checks.cypher: every edge of a version
\* is mirrored between the packages, and every version has its package; at
\* every moment, with transactions whose answer was lost included.
ProjectionCovers ==
    /\ \A d \in depends : <<PackageOf[d[1]], d[2]>> \in projected
    /\ \A v \in Versions : versions[v] # "absent" => packages[PackageOf[v]] # "absent"
    /\ \A e \in projected : packages[e[1]] # "absent" /\ packages[e[2]] # "absent"

Upserts(v) == {r \in Refs : RecordAt(r).kind = "upsert" /\ RecordAt(r).version = v}
Yanks(v)   == {r \in Refs : RecordAt(r).kind = "yank" /\ RecordAt(r).version = v}

\* The edges of a version all come from one event, however many writers
\* replace them at a time.
DepsOfOneEvent ==
    \A v \in Versions :
        Deps(v) = {} \/ \E r \in Upserts(v) : Deps(v) = RecordAt(r).deps

\* The graph is consistent in every state.
Consistent == ProjectionCovers /\ DepsOfOneEvent

\* Everything was delivered and nobody is inside a record.
Drained ==
    /\ \A p \in Partitions : pos[p] = Len(Log[p])
    /\ \A w \in Writers : pc[w] = "recv"

\* When the events of a version share a partition, redelivering any suffix
\* of it any number of times ends in the state of its last events, unless
\* one of them was dead-lettered.  That is so while the partitions stay with
\* their writers and the dead-letter topic takes what it is given: the former
\* owner of a partition may finish an older event after the new owner's last.
Converges ==
    Drained =>
        \A v \in Versions : \A r \in Upserts(v) :
            (Upserts(v) \cup Yanks(v)) \cap dlq = {} =>
                /\ (\A s \in Upserts(v) : s[1] = r[1] /\ s[2] <= r[2])
                       => Deps(v) = RecordAt(r).deps
                /\ (\E s \in Yanks(v) : s[1] = r[1] /\ r[2] < s[2])
                       => versions[v] = "yanked"
=============================================================================
