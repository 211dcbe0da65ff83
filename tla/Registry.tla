------------------------------ MODULE Registry ------------------------------
(***************************************************************************)
(* Ingestion from a package registry (apps/ingestion, registries/): a      *)
(* watcher turns what the registry says has changed into messages of a raw *)
(* topic, and a worker compares each package with its row of the state     *)
(* table and writes the row and its events to the outbox.                  *)
(*                                                                         *)
(* The three registries have one shape and three disciplines; reg says     *)
(* which one a behaviour is about:                                         *)
(*   npm    a change feed and a checkpoint; the worker fetches the package *)
(*   pypi   a changelog and a checkpoint, grouped by project               *)
(*   cargo  a watch list in memory; the message holds the index file; no   *)
(*          offset is committed.  main.rs does not start this worker: it   *)
(*          is modelled over the table that its own init creates           *)
(***************************************************************************)
EXTENDS Integers, Sequences, FiniteSets

CONSTANTS
    Packages, Versions,
    None,        \* no package, no row, no checkpoint, nothing under way
    BatchSize,   \* BATCH_SIZE of the watchers
    MaxChanges,  \* bound on the changes of the registry
    MaxFaults    \* bound on failed requests, publications and transactions
                 \* on restarts of a watcher or a worker, and on seedings

ASSUME RegistryAssumption ==
    /\ BatchSize \in Nat \ {0}
    /\ MaxChanges \in Nat /\ MaxFaults \in Nat
    /\ None \notin Int
    /\ None \notin [Versions -> {"none", "live", "yanked"}]
    /\ None \notin [pkg : Packages, got : [Versions -> {"none", "live", "yanked"}] \cup {None},
                    stage : {"tx", "delete", "row", "commit"}]

VARIABLES
    reg,
    live,        \* what the registry answers for a package
    feed,        \* its changes in order; the serial of a change is its index
    cursor,      \* row of ingestion_checkpoints
    batch,       \* the watcher's batch: serials to publish, serial it ends at
    seen,        \* cargo: what the watcher last saw of a crate
    topic, pos, committed,  \* raw topic, the worker's position, its offset
    work,        \* the message under way: package, what was fetched, stage
    row,         \* the state table
    outbox,      \* event ids in the outbox
    told,        \* what the events inserted so far say of a version
    seeded,      \* packages whose row was written by the seed mode
    untold,      \* versions of which the code has left something unsaid
    lost,        \* packages of which the code has let a change go
    jumped,      \* npm: the serial that the last reset of the cursor set
    finished, failed,       \* messages processed, and given up
    faults

upstream == <<live, feed>>
watcher == <<cursor, batch, seen, topic, jumped>>
consumer == <<pos, committed, work, finished, failed>>
database == <<row, seeded, outbox, told, untold>>
vars == <<reg, upstream, watcher, consumer, database, lost, faults>>

Registries == {"npm", "pypi", "cargo"}

\* npm has no yanked versions: a version is there or is not.
Status == {"none", "live", "yanked"}
Content == [Versions -> IF reg = "npm" THEN Status \ {"yanked"} ELSE Status]

Init ==
    /\ reg \in Registries
    /\ live = [p \in Packages |-> None]
    /\ feed = <<>>
    /\ cursor = IF reg = "npm" THEN None ELSE 0
    /\ batch = None
    /\ seen = [p \in Packages |-> None]
    /\ topic = <<>> /\ pos = 0 /\ committed = 0
    /\ work = None
    /\ row = [p \in Packages |-> None]
    /\ seeded = {}
    /\ outbox = {}
    /\ told = [p \in Packages |-> [v \in Versions |-> "none"]]
    /\ untold = {}
    /\ lost = {}
    /\ jumped = 0
    /\ finished = {} /\ failed = {}
    /\ faults = 0

Fault == faults < MaxFaults /\ faults' = faults + 1

-----------------------------------------------------------------------------
(* The registry.                                                           *)

\* A package is created, changed or removed.  flagged: the removal is in the
\* feed as such (npm "deleted", PyPI "remove" without a version).
Change(p) ==
    /\ Len(feed) < MaxChanges
    /\ \E c \in (Content \cup {None}) \ {live[p]}, flagged \in BOOLEAN :
        /\ flagged => c = None
        /\ live' = [live EXCEPT ![p] = c]
        /\ feed' = Append(feed, [pkg |-> p, removed |-> flagged])
    /\ UNCHANGED <<reg, watcher, consumer, database, lost, faults>>

-----------------------------------------------------------------------------
(* The watchers.                                                           *)

\* npm starts, and answers a cursor the registry rejects, at the latest serial.
Reset ==
    /\ cursor' = Len(feed)
    /\ jumped' = Len(feed)

InitCursor ==
    /\ cursor = None
    /\ Reset
    /\ lost' = {feed[s].pkg : s \in DOMAIN feed}
    /\ UNCHANGED <<reg, upstream, batch, seen, topic, consumer, database, faults>>

RejectedCursor ==
    /\ reg = "npm" /\ cursor # None /\ batch = None
    /\ Fault
    /\ Reset
    /\ lost' = lost \cup {feed[s].pkg : s \in cursor + 1 .. Len(feed)}
    /\ UNCHANGED <<reg, upstream, batch, seen, topic, consumer, database>>

\* The serials of a batch that are published: PyPI keeps the first of each
\* project.
Published(lo, hi) ==
    IF reg # "pypi" THEN lo .. hi
    ELSE {s \in lo .. hi : \A t \in lo .. s - 1 : feed[t].pkg # feed[s].pkg}

\* A later change of the project may be another kind of change than the first,
\* and only the kind of the first is known to the worker.
Regrouped(lo, hi) ==
    {feed[s].pkg : s \in {s \in lo .. hi :
        \E t \in Published(lo, hi) : /\ t < s
                                     /\ feed[t].pkg = feed[s].pkg
                                     /\ feed[t].removed /\ ~feed[s].removed}}

Poll ==
    /\ reg \in {"npm", "pypi"}
    /\ cursor # None /\ batch = None
    /\ cursor < Len(feed)
    /\ LET hi == IF cursor + BatchSize < Len(feed) THEN cursor + BatchSize ELSE Len(feed)
       IN /\ batch' = [todo |-> Published(cursor + 1, hi), upto |-> hi]
          /\ lost' = lost \cup IF reg = "pypi" THEN Regrouped(cursor + 1, hi) ELSE {}
    /\ UNCHANGED <<reg, upstream, cursor, seen, topic, jumped, consumer, database,
                   faults>>

\* The change is published with a wait for the acknowledgement.
Publish ==
    /\ batch # None /\ batch.todo # {}
    /\ LET s == CHOOSE s \in batch.todo : \A t \in batch.todo : s <= t
       IN /\ topic' = Append(topic, [pkg |-> feed[s].pkg, removed |-> feed[s].removed,
                                     content |-> None, at |-> Len(feed)])
          /\ batch' = [batch EXCEPT !.todo = @ \ {s}]
    /\ UNCHANGED <<reg, upstream, cursor, seen, jumped, consumer, database, lost,
                   faults>>

\* Mutant: a change that cannot be published is skipped.
PublishFailsSkips ==
    /\ batch # None /\ batch.todo # {}
    /\ Fault
    /\ batch' = [batch EXCEPT !.todo = {}]
    /\ UNCHANGED <<reg, upstream, cursor, seen, topic, jumped, consumer, database,
                   lost>>

\* Five attempts (npm) or one (PyPI) have failed: the batch is given up, and
\* read again from the checkpoint.
PublishFails ==
    /\ batch # None /\ batch.todo # {}
    /\ Fault
    /\ batch' = None
    /\ UNCHANGED <<reg, upstream, cursor, seen, topic, jumped, consumer, database,
                   lost>>

\* Mutant: the checkpoint advances with the batch half published.
CheckpointEarly ==
    /\ batch # None
    /\ cursor' = batch.upto
    /\ batch' = None
    /\ UNCHANGED <<reg, upstream, seen, topic, jumped, consumer, database, lost,
                   faults>>

Checkpoint ==
    /\ batch # None /\ batch.todo = {}
    /\ cursor' = batch.upto
    /\ batch' = None
    /\ UNCHANGED <<reg, upstream, seen, topic, jumped, consumer, database, lost,
                   faults>>

\* poll_crate: an index file that differs from the last one seen is published;
\* 304 and 404 are no change.
PollCrate(p) ==
    /\ reg = "cargo"
    /\ live[p] # None /\ live[p] # seen[p]
    /\ topic' = Append(topic, [pkg |-> p, removed |-> FALSE,
                               content |-> live[p], at |-> Len(feed)])
    /\ seen' = [seen EXCEPT ![p] = live[p]]
    /\ UNCHANGED <<reg, upstream, cursor, batch, jumped, consumer, database, lost,
                   faults>>

WatcherRestart ==
    /\ Fault
    /\ batch' = None
    /\ seen' = [p \in Packages |-> None]
    /\ UNCHANGED <<reg, upstream, cursor, topic, jumped, consumer, database, lost>>

-----------------------------------------------------------------------------
(* Events.                                                                 *)

\* An event id is the hash of its kind, its entity and a content hash.  A
\* version is published once and for all, so its hash is fixed; the hash of an
\* unyanking, a yanking and a deletion is a constant.
Event(kind, p, v) == [kind |-> kind, pkg |-> p, of |-> v]

\* What the versions of p are said to be after the events es.
Said(es, p) ==
    [v \in Versions |->
        CASE \E e \in es : e.kind = "deleted" -> "none"
          [] \E e \in es : e.of = v /\ e.kind \in {"upserted", "unyanked"} -> "live"
          [] \E e \in es : e.of = v /\ e.kind \in {"yanked", "yanked upserted"} -> "yanked"
          [] OTHER -> told[p][v]]

\* INSERT .. ON CONFLICT (event_id) DO NOTHING.  gaps are the versions of p
\* of which the events say less than the row will.
Insert(p, es, gaps) ==
    LET fresh == Said(es \ outbox, p)
    IN /\ outbox' = outbox \cup es
       /\ told' = [told EXCEPT ![p] = fresh]
       /\ untold' = untold \cup {<<p, v>> : v \in gaps \cup
                                  {v \in Versions : fresh[v] # Said(es, p)[v]}}

Absent == [v \in Versions |-> "none"]

\* calculate_diff of the three registries; old and new are contents.
Added(old, new) == {v \in Versions : old[v] = "none" /\ new[v] # "none"}
Removed(old, new) == {v \in Versions : old[v] # "none" /\ new[v] = "none"}
Yanked(old, new) == {v \in Versions : old[v] = "live" /\ new[v] = "yanked"}
Unyanked(old, new) == {v \in Versions : old[v] = "yanked" /\ new[v] = "live"}

PackageEvent(p, c) == {Event("package", p, c)}
VersionEvents(p, vs) == {Event("upserted", p, v) : v \in vs}
YankedEvents(p, vs) == {Event("yanked", p, v) : v \in vs}
UnyankedEvents(p, vs) == {Event("unyanked", p, v) : v \in vs}
DeletedEvent(p) == {Event("deleted", p, None)}

\* cargo: the version is announced with the flag it has in the index.
CargoVersionEvents(p, vs, c) ==
    {Event(IF c[v] = "live" THEN "upserted" ELSE "yanked upserted", p, v) : v \in vs}

\* The events of a package whose row was old and becomes new, by registry.  npm
\* fetches the package again for each new version, and now is what it finds:
\* a version that is not there any more is left out without an error.
NpmEvents(p, old, new, now) ==
    VersionEvents(p, {v \in Added(old, new) : now[v] # "none"})
        \cup YankedEvents(p, Removed(old, new))

PypiEvents(p, old, new) ==
    (IF row[p] = None \/ Added(old, new) # {} THEN PackageEvent(p, new) ELSE {})
        \cup VersionEvents(p, Added(old, new))
        \cup YankedEvents(p, Yanked(old, new))
        \cup UnyankedEvents(p, Unyanked(old, new))

\* The package event of cargo is about the latest version that is not yanked.
CargoEvents(p, old, new) ==
    (IF old = Absent \/ Added(old, new) # {}
     THEN PackageEvent(p, {v \in Versions : new[v] = "live"}) ELSE {})
        \cup CargoVersionEvents(p, Added(old, new), new)
        \cup YankedEvents(p, Yanked(old, new))
        \cup UnyankedEvents(p, Unyanked(old, new))

\* npm: added and gone at once.  PyPI: a version that is yanked when it is
\* first seen is announced as not yanked.  PyPI and cargo say nothing of a
\* version that is removed.
Gaps(old, new, now) ==
    CASE reg = "npm" -> {v \in Added(old, new) : now[v] = "none"}
      [] reg = "pypi" -> {v \in Added(old, new) : new[v] = "yanked"} \cup Removed(old, new)
      [] OTHER -> Removed(old, new)

-----------------------------------------------------------------------------
(* The workers.                                                            *)

ContentOf(c) == IF c = None THEN Absent ELSE c

\* What the message leads to: "tx" a comparison with the row, "delete" the
\* package's deletion, "commit" nothing.
Begin(stage, got) ==
    /\ pos' = pos + 1
    /\ work' = [pkg |-> topic[pos + 1].pkg, got |-> got, stage |-> stage]
    /\ UNCHANGED <<reg, upstream, watcher, committed, finished, failed, database>>

\* What the worker compares with the row: the index file in the message, or
\* what the registry answers now.
Answer(m) == IF reg = "cargo" THEN m.content ELSE live[m.pkg]

HasNext == work = None /\ pos < Len(topic)

Fetch ==
    /\ HasNext
    /\ LET m == topic[pos + 1]
           got == Answer(m)
       IN /\ IF m.removed
             THEN Begin(IF reg = "npm" THEN "commit" ELSE "delete", None)
             ELSE Begin(IF got = None THEN "delete" ELSE "tx", got)
          \* npm: the deleted flag only keeps the package from being fetched
          /\ lost' = lost \cup IF m.removed /\ reg = "npm" THEN {m.pkg} ELSE {}
    /\ UNCHANGED faults

\* PyPI takes every answer but 200 as "not found", 429 and 5xx included.
FetchRefused ==
    /\ HasNext
    /\ reg = "pypi" /\ ~topic[pos + 1].removed
    /\ Fault
    /\ Begin("delete", None)
    /\ lost' = lost \cup {topic[pos + 1].pkg}

\* No commit; the worker goes on to the next message.
FetchFails ==
    /\ HasNext
    /\ reg # "cargo" /\ ~topic[pos + 1].removed
    /\ Fault
    /\ pos' = pos + 1
    /\ failed' = failed \cup {pos + 1}
    /\ lost' = lost \cup {topic[pos + 1].pkg}
    /\ UNCHANGED <<reg, upstream, watcher, committed, work, finished, database>>

\* The row and the events, in one transaction.
Transact ==
    /\ work # None /\ work.stage = "tx" /\ work.pkg \notin seeded
    /\ LET p == work.pkg
           old == ContentOf(row[p])
           now == ContentOf(live[p])
           same == old = work.got /\ (reg = "cargo" => old # Absent)
           es == CASE reg = "npm" -> NpmEvents(p, old, work.got, now)
                   [] reg = "pypi" -> PypiEvents(p, old, work.got)
                   [] reg = "cargo" -> CargoEvents(p, old, work.got)
       IN IF same THEN UNCHANGED database
          ELSE /\ row' = [row EXCEPT ![p] = work.got]
               /\ Insert(p, es, Gaps(old, work.got, now))
               /\ UNCHANGED seeded
    /\ work' = [work EXCEPT !.stage = "commit"]
    /\ UNCHANGED <<reg, upstream, watcher, pos, committed, finished, failed, lost,
                   faults>>

\* npm: a package that has a row; event and row in one transaction.
\* PyPI: the event is inserted first, in a statement of its own, row or no row.
Delete ==
    /\ work # None /\ work.stage = "delete"
    /\ IF reg = "npm" /\ row[work.pkg] = None
       THEN UNCHANGED database
       ELSE /\ Insert(work.pkg, DeletedEvent(work.pkg), {})
            /\ row' = IF reg = "npm" THEN [row EXCEPT ![work.pkg] = None] ELSE row
            /\ UNCHANGED seeded
    /\ work' = [work EXCEPT !.stage = IF reg = "npm" THEN "commit" ELSE "row"]
    /\ UNCHANGED <<reg, upstream, watcher, pos, committed, finished, failed, lost,
                   faults>>

\* PyPI: mark_deleted.
DeleteRow ==
    /\ work # None /\ work.stage = "row"
    /\ row' = [row EXCEPT ![work.pkg] = None]
    /\ seeded' = seeded \ {work.pkg}
    /\ work' = [work EXCEPT !.stage = "commit"]
    /\ UNCHANGED <<reg, upstream, watcher, pos, committed, finished, failed, outbox,
                   told, untold, lost, faults>>

\* A message that is dropped half way through a deletion leaves a row that
\* the events contradict.
HalfDeleted ==
    IF work # None /\ work.stage = "row" THEN {<<work.pkg, v>> : v \in Versions} ELSE {}

\* Mutant: the row is not saved in the transaction of the events.
DatabaseFailsAfterRow ==
    /\ work # None /\ work.stage \in {"tx", "delete", "row"}
    /\ reg # "npm"
    /\ Fault
    /\ row' = IF work.stage = "tx" THEN [row EXCEPT ![work.pkg] = work.got] ELSE row
    /\ failed' = failed \cup {pos}
    /\ lost' = lost \cup {work.pkg}
    /\ untold' = untold \cup HalfDeleted
    /\ work' = None
    /\ UNCHANGED <<reg, upstream, watcher, pos, committed, finished, seeded, outbox, told>>

\* A database error: PyPI and cargo log it and go on to the next message; npm
\* leaves its loop, and is restarted (WorkerRestart).
GiveUp ==
    /\ failed' = failed \cup {pos}
    /\ lost' = lost \cup {work.pkg}
    /\ untold' = untold \cup HalfDeleted
    /\ work' = None
    /\ UNCHANGED <<reg, upstream, watcher, pos, committed, finished, row, seeded,
                   outbox, told>>

DatabaseFails ==
    /\ work # None /\ work.stage \in {"tx", "delete", "row"}
    /\ reg # "npm"
    /\ Fault
    /\ GiveUp

\* get_state cannot decode a row of the seed mode: its last_serial is NULL
\* (PyPI), its versions have no checksum (cargo).
Unreadable ==
    /\ work # None /\ work.stage = "tx" /\ work.pkg \in seeded
    /\ GiveUp
    /\ UNCHANGED faults

\* The seed mode, a process of its own, writes the row and, with random ids,
\* the events of the versions that are not yanked.
Seed(p) ==
    /\ reg # "npm" /\ live[p] # None
    /\ reg = "cargo" => live[p] # Absent
    /\ Fault
    /\ row' = [row EXCEPT ![p] = live[p]]
    /\ seeded' = seeded \cup {p}
    /\ LET es == VersionEvents(p, {v \in Versions : live[p][v] = "live"})
       IN told' = [told EXCEPT ![p] = Said(es, p)]
    /\ untold' = untold \cup HalfDeleted \cup {<<p, v>> : v \in
          {v \in Versions : (told'[p][v] = "live") # (live[p][v] = "live")}}
    /\ UNCHANGED <<reg, upstream, watcher, consumer, outbox, lost>>

\* commit_message; cargo never commits.
Commit ==
    /\ work # None /\ work.stage = "commit"
    /\ committed' = IF reg = "cargo" THEN committed ELSE pos
    /\ finished' = finished \cup {pos}
    /\ work' = None
    /\ UNCHANGED <<reg, upstream, watcher, pos, failed, database, lost, faults>>

\* A new consumer starts at the committed offset.
WorkerRestart ==
    /\ Fault
    /\ pos' = committed
    /\ untold' = untold \cup HalfDeleted
    /\ work' = None
    /\ UNCHANGED <<reg, upstream, watcher, committed, finished, failed, row, seeded,
                   outbox, told, lost>>

-----------------------------------------------------------------------------

Watch ==
    \/ InitCursor \/ Poll \/ Publish \/ Checkpoint
    \/ \E p \in Packages : PollCrate(p)

Process == Fetch \/ Transact \/ Unreadable \/ Delete \/ DeleteRow \/ Commit

Failure ==
    \/ RejectedCursor \/ PublishFails \/ WatcherRestart
    \/ FetchRefused \/ FetchFails \/ DatabaseFails \/ WorkerRestart
    \/ \E p \in Packages : Seed(p)

Next == (\E p \in Packages : Change(p)) \/ Watch \/ Process \/ Failure

Spec == Init /\ [][Next]_vars

FairSpec == Spec /\ WF_vars(Watch) /\ WF_vars(Process)

-----------------------------------------------------------------------------
(* Properties.                                                             *)

Message == [pkg : Packages, removed : BOOLEAN, content : Content \cup {None},
            at : 0 .. MaxChanges]

TypeOK ==
    /\ reg \in Registries
    /\ live \in [Packages -> Content \cup {None}]
    /\ feed \in Seq([pkg : Packages, removed : BOOLEAN])
    /\ Len(feed) <= MaxChanges
    /\ cursor \in (0 .. Len(feed)) \cup {None}
    /\ batch = None \/ (batch.todo \subseteq 1 .. batch.upto /\ batch.upto \in 1 .. Len(feed))
    /\ seen \in [Packages -> Content \cup {None}]
    /\ topic \in Seq(Message)
    /\ pos \in 0 .. Len(topic) /\ committed \in 0 .. pos
    /\ work = None \/ work \in [pkg : Packages, got : Content \cup {None},
                                stage : {"tx", "delete", "row", "commit"}]
    /\ row \in [Packages -> Content \cup {None}]
    /\ seeded \subseteq Packages
    /\ told \in [Packages -> [Versions -> Status]]
    /\ untold \subseteq Packages \X Versions
    /\ lost \subseteq Packages
    /\ finished \cup failed \subseteq 1 .. Len(topic)

\* The checkpoint never passes a change that no later message of the topic is
\* about, whatever publication failed and whenever the watcher restarted;
\* except where npm has been told to start again at the end of the feed.
CursorCovered ==
    cursor # None =>
        \A s \in jumped + 1 .. cursor :
            \E i \in DOMAIN topic : topic[i].pkg = feed[s].pkg /\ topic[i].at >= s

\* Every message below the committed offset has been processed, or was given
\* up after an error: a crash loses none.
CommitEarned == 1 .. committed \subseteq finished \cup failed

\* What may be resumed from: a cursor and an offset that passed nothing over.
Resumable == TypeOK /\ CursorCovered /\ CommitEarned

\* The state table and the events say the same: the row has a version as live
\* exactly when the last event that took effect says so.  A version of which
\* the code leaves something unsaid (an id that was used before, a removal, a
\* yanked version first seen) is excepted from then on.
RowsTold ==
    \A p \in Packages, v \in Versions :
        \/ <<p, v>> \in untold
        \/ work # None /\ work.stage = "row" /\ work.pkg = p
        \/ (told[p][v] = "live") = (ContentOf(row[p])[v] = "live")

\* When the registry is at rest, the state table comes to agree with it on
\* every package of which no change was let go and no row is of the seed mode;
\* cargo does not see a crate go.
Agrees ==
    <>[](\A p \in Packages :
            \/ p \in lost \cup seeded
            \/ reg = "cargo" /\ live[p] = None
            \/ ContentOf(row[p]) = ContentOf(live[p]))
=============================================================================
