----------------------------- MODULE AuditTrail -----------------------------
(***************************************************************************)
(* The audit trail of the API: entries are queued without waiting, a writer*)
(* gathers them into batches and inserts each with one statement           *)
(* (middleware/audit.rs), and the resolvers audit_events and               *)
(* compliance_report read the table (gql/query.rs).  The statement fails   *)
(* when an entry has no tenant, which the table demands, or for reasons of *)
(* the database.                                                           *)
(***************************************************************************)
EXTENDS Connections, FiniteSets

CONSTANTS
    Entries,       \* what may be logged: [tenant, action, status]
    BufferSize,    \* of the channel, 1000
    BatchSize,     \* 50
    MaxEntries     \* bound on the entries logged

SizesAssumption == BufferSize \in Nat \ {0} /\ BatchSize \in Nat \ {0}

VARIABLES
    queue,     \* the channel
    pending,   \* the batch of the writer
    inserting, \* the writer awaits its INSERT
    audit_log, \* the table
    clock,     \* the entries logged so far, and their created_at
    metrics,   \* of this process: entries queued or dropped, written, lost to errors
    restarts

vars == <<queue, pending, inserting, audit_log, clock, metrics, restarts>>

NoMetrics == [logged |-> 0, dropped |-> 0, written |-> 0, errors |-> 0]

Init ==
    /\ queue = <<>> /\ pending = <<>> /\ inserting = FALSE /\ audit_log = <<>>
    /\ clock = 0 /\ metrics = NoMetrics /\ restarts = 0

\* try_send: an entry that finds the channel full is dropped.
Queue(entry) ==
    /\ clock < MaxEntries
    /\ clock' = clock + 1
    /\ IF Len(queue) < BufferSize
       THEN /\ queue' = Append(queue, [at |-> clock, tenant |-> entry.tenant,
                                     action |-> entry.action, status |-> entry.status])
            /\ metrics' = [metrics EXCEPT !.logged = @ + 1]
       ELSE /\ metrics' = [metrics EXCEPT !.logged = @ + 1, !.dropped = @ + 1]
            /\ UNCHANGED queue
    /\ UNCHANGED <<pending, inserting, audit_log, restarts>>

Receive ==
    /\ ~inserting /\ queue # <<>>
    /\ queue' = Tail(queue)
    /\ pending' = Append(pending, Head(queue))
    /\ inserting' = (Len(pending) + 1 >= BatchSize)
    /\ UNCHANGED <<audit_log, clock, metrics, restarts>>

Tick ==
    /\ ~inserting /\ pending # <<>>
    /\ inserting' = TRUE
    /\ UNCHANGED <<queue, pending, audit_log, clock, metrics, restarts>>

Insertable == \A i \in DOMAIN pending : pending[i].tenant # None

Inserted ==
    /\ inserting /\ Insertable
    /\ audit_log' = audit_log \o pending
    /\ metrics' = [metrics EXCEPT !.written = @ + Len(pending)]
    /\ pending' = <<>> /\ inserting' = FALSE
    /\ UNCHANGED <<queue, clock, restarts>>

\* The batch is cleared all the same.
InsertFailed ==
    /\ inserting
    /\ metrics' = [metrics EXCEPT !.errors = @ + Len(pending)]
    /\ pending' = <<>> /\ inserting' = FALSE
    /\ UNCHANGED <<queue, audit_log, clock, restarts>>

\* The process dies; a statement under way may have been carried out.
Restart ==
    /\ restarts = 0
    /\ restarts' = 1
    /\ queue' = <<>> /\ pending' = <<>> /\ inserting' = FALSE /\ metrics' = NoMetrics
    /\ \/ UNCHANGED audit_log
       \/ inserting /\ Insertable /\ audit_log' = audit_log \o pending
    /\ UNCHANGED clock

Next ==
    \/ \E entry \in Entries : Queue(entry)
    \/ Receive \/ Tick \/ Inserted \/ InsertFailed \/ Restart

-----------------------------------------------------------------------------
(* Reading.  A period is from the first to the last created_at. *)

Selected(tenant, first, last) ==
    SelectSeq(audit_log, LAMBDA row : row.at \in first .. last /\ tenant \in {None, row.tenant})

Category(action) ==
    CASE action \in {"auth.success", "auth.failure", "auth.denied"} -> "Authentication"
      [] action = "security.violation" -> "Security"
      [] OTHER -> "System"
Severity(status) ==
    IF status = None THEN "Notice"
    ELSE IF status >= 500 THEN "Error" ELSE IF status >= 400 THEN "Warning" ELSE "Info"
Outcome(status) ==
    IF status = None THEN "Unknown" ELSE IF status \in 200 .. 299 THEN "Success" ELSE "Failure"

\* ORDER BY created_at DESC
AuditEvents(tenant, from, to, first, after) ==
    LET rows == Sorted(ToSet(Selected(tenant, from, to)), LAMBDA r, s : r.at > s.at)
    IN  PageAt([i \in DOMAIN rows |->
                  [at |-> rows[i].at, category |-> Category(rows[i].action),
                   severity |-> Severity(rows[i].status), outcome |-> Outcome(rows[i].status)]],
               first, after)

\* The sums over no row are NULL, which the resolver cannot read.
ComplianceReport(tenant, from, to) ==
    LET rows == Selected(tenant, from, to)
        Count(Test(_)) == Len(SelectSeq(rows, Test))
    IN  IF rows = <<>> THEN [ok |-> FALSE]
        ELSE [ok |-> TRUE, total |-> Len(rows),
              security |-> Count(LAMBDA row : row.action = "security.violation"),
              violations |-> Count(LAMBDA row : row.status # None /\ row.status >= 400)]

-----------------------------------------------------------------------------
\* Every entry that this process logged was dropped, written or lost to a
\* failed insert, or is still on its way; the table holds no entry twice and
\* none before an earlier one.
EntriesAccounted ==
    /\ metrics.logged = metrics.dropped + metrics.written + metrics.errors + Len(queue) + Len(pending)
    /\ metrics.written <= Len(audit_log)
    /\ \A i, j \in DOMAIN audit_log : i < j => audit_log[i].at < audit_log[j].at

\* The report of a period counts what the events of the period show.
ReportAgrees ==
    \A tenant \in {None} \cup {entry.tenant : entry \in Entries}, from, to \in 0 .. MaxEntries :
        LET report == ComplianceReport(tenant, from, to)
            shown == AuditEvents(tenant, from, to, 100, None)
            Count(Test(_)) == Len(SelectSeq(shown.nodes, Test))
        IN  report.ok =>
                /\ report.total = shown.totalCount
                /\ report.security = Count(LAMBDA event : event.category = "Security")
                /\ report.violations = Count(LAMBDA event : event.severity \in {"Error", "Warning"})
                /\ report.violations <= Count(LAMBDA event : event.outcome = "Failure")

PagesComplete ==
    \A first \in 2 .. 3 :
        LET Page(after) == AuditEvents(None, 0, MaxEntries, first, after)
            rows == AuditEvents(None, 0, MaxEntries, 100, None).nodes
        IN  Overlapping(Followed(Page, rows), rows)
=============================================================================
