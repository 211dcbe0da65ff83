------------------------------ MODULE AuditLog ------------------------------
(***************************************************************************)
(* The audit log in memory (packages/models/src/audit.rs): events are      *)
(* built, which numbers them, and recorded, by several tasks; the log      *)
(* keeps the last ones that were recorded.                                 *)
(***************************************************************************)
EXTENDS Integers, Sequences, SequencesExt, FiniteSets, Functions

CONSTANTS Tasks, EventTypes, Levels, MaxSize,
          MaxEvents,     \* bound: events that are built
          None

SizeAssumption == MaxSize \in Nat \ {0}

VARIABLES counter,       \* SEQUENCE_COUNTER, also the clock of the timestamps
          building,      \* the event that a task has built and not recorded
          events,        \* the log
          recorded       \* every event that was recorded, in that order

Most(a, b) == IF a < b THEN b ELSE a

\* AuditEventType::category
Category(type) ==
    CASE type \in {"VulnerabilityDetected", "VulnerabilityResolved", "VexAssessmentCreated",
                   "VexAssessmentUpdated", "SecurityScanInitiated", "SecurityScanCompleted"} -> "security"
      [] type \in {"PackageAccessed", "SbomGenerated", "SbomExported", "ReportGenerated"} -> "access"
      [] type \in {"PackageCreated", "PackageUpdated", "PackageDeleted", "DependencyAdded",
                   "DependencyRemoved"} -> "dataChange"
      [] type \in {"PolicyCreated", "PolicyUpdated", "PolicyDeleted", "PolicyActivated",
                   "PolicyDeactivated", "SettingChanged"} -> "configuration"
      [] type \in {"PolicyEvaluated", "PolicyViolation", "PolicyException"} -> "policy"
      [] type \in {"UserLogin", "UserLogout", "UserLoginFailed", "TokenIssued", "TokenRevoked",
                   "ApiKeyCreated", "ApiKeyRevoked"} -> "authentication"
      [] type \in {"PermissionGranted", "PermissionRevoked", "AccessDenied"} -> "authorization"
      [] type \in {"ComplianceCheckRun", "ComplianceViolation", "ComplianceReportGenerated",
                   "LicenseScanCompleted", "ScorecardAssessment", "ProvenanceVerified"} -> "compliance"
      [] OTHER -> "system"

Init ==
    /\ counter = 0
    /\ building = [t \in Tasks |-> None]
    /\ events = <<>> /\ recorded = <<>>

\* AuditEventBuilder::build
Build(t, type, level) ==
    /\ building[t] = None /\ counter < MaxEvents
    /\ building' = [building EXCEPT ![t] =
           [sequence |-> counter, type |-> type, category |-> Category(type), level |-> level]]
    /\ counter' = counter + 1
    /\ UNCHANGED <<events, recorded>>

\* record: the oldest events make room.
Record(t) ==
    /\ building[t] # None
    /\ events' = Append(SubSeq(events, Most(1, Len(events) - MaxSize + 2), Len(events)), building[t])
    /\ recorded' = Append(recorded, building[t])
    /\ building' = [building EXCEPT ![t] = None]
    /\ UNCHANGED counter

Clear ==
    /\ events # <<>>
    /\ events' = <<>> /\ recorded' = <<>>
    /\ UNCHANGED <<counter, building>>

Next ==
    \/ \E t \in Tasks : Record(t) \/ \E type \in EventTypes, l \in Levels : Build(t, type, l)
    \/ Clear

-----------------------------------------------------------------------------
ByCategory(c) == SelectSeq(events, LAMBDA e : e.category = c)
BySeverity(least) == SelectSeq(events, LAMBDA e : e.level >= least)
ByTimeRange(from, to) == SelectSeq(events, LAMBDA e : e.sequence \in from .. to)

\* compliance_report
ComplianceReport(from, to) ==
    LET in == ByTimeRange(from, to)
        count(P(_)) == Len(SelectSeq(in, P))
    IN [total |-> Len(in),
        byCategory |-> [c \in {Category(t) : t \in EventTypes} |-> count(LAMBDA e : e.category = c)],
        bySeverity |-> [l \in Levels |-> count(LAMBDA e : e.level = l)],
        violations |-> count(LAMBDA e : e.type \in {"PolicyViolation", "ComplianceViolation"}),
        evaluations |-> count(LAMBDA e : e.type = "PolicyEvaluated")]

-----------------------------------------------------------------------------
\* The log holds the last events that were recorded, each once, however the
\* tasks took their numbers.
LastRecorded ==
    /\ events = SubSeq(recorded, Most(1, Len(recorded) - MaxSize + 1), Len(recorded))
    /\ \A i, j \in DOMAIN events : events[i].sequence = events[j].sequence => i = j

\* The reports of two adjoining periods add up to that of both, in every count,
\* and the counts of a report to its total.
ReportsAddUp ==
    LET sum(f) == FoldFunction(LAMBDA x, y : x + y, 0, f)
        whole == ComplianceReport(0, MaxEvents)
    IN /\ sum(whole.byCategory) = whole.total /\ sum(whole.bySeverity) = whole.total
       /\ whole.total = Len(events)
       /\ \A l \in Levels : Len(BySeverity(l)) = sum([m \in {n \in Levels : n >= l} |-> whole.bySeverity[m]])
       /\ \A c \in DOMAIN whole.byCategory : Len(ByCategory(c)) = whole.byCategory[c]
       /\ \A cut \in 0 .. MaxEvents :
             LET early == ComplianceReport(0, cut)  late == ComplianceReport(cut + 1, MaxEvents)
             IN /\ whole.total = early.total + late.total
                /\ whole.violations = early.violations + late.violations
                /\ \A c \in DOMAIN whole.byCategory :
                      whole.byCategory[c] = early.byCategory[c] + late.byCategory[c]
=============================================================================
