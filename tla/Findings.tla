------------------------------ MODULE Findings ------------------------------
(***************************************************************************)
(* What the API tells of the vulnerabilities of a package, each time asked *)
(* of OSV (services/osv.rs; resolvers vulnerabilities, vulnerability_counts*)
(* and update_recommendations of gql/query.rs) and what it tells its       *)
(* security agent (services/agent_tools.rs).                               *)
(***************************************************************************)
EXTENDS Connections, FiniteSets

CONSTANTS
    PackageIds,    \* ids: the parts between slashes, each the parts between colons
    Advisories,    \* what OSV may know: [affected, database, cvss, aliases]
    MaxAdvisories, \* bound on those of the package
    HighLimit,     \* 5: vulnerabilities of high severity that a policy bears
    Latests        \* what its registry may answer: None or [text, major]

VARIABLES advisories, latest   \* of the package <<"npm">>, <<"left">>

vars == <<advisories, latest>>

\* (ecosystem, name, version); a colon id with a slash is taken for a slash id.
ParsePackageId(id) ==
    IF Len(id) >= 2
    THEN [ecosystem |-> id[1], name |-> id[2], version |-> IF Len(id) >= 3 THEN id[3] ELSE None]
    ELSE IF Len(id[1]) >= 2
    THEN [ecosystem |-> <<id[1][1]>>, name |-> Tail(id[1]), version |-> None]
    ELSE [ecosystem |-> None, name |-> None, version |-> None]

Ecosystems ==
    ("npm" :> "npm") @@ ("pypi" :> "PyPI") @@ ("cargo" :> "crates.io") @@ ("crates" :> "crates.io") @@
    ("crates.io" :> "crates.io") @@ ("maven" :> "Maven") @@ ("nuget" :> "NuGet") @@ ("go" :> "Go") @@
    ("golang" :> "Go")
NormalizeEcosystem(eco) == IF Len(eco) = 1 /\ eco[1] \in DOMAIN Ecosystems THEN Ecosystems[eco[1]] ELSE None

CvssScoreToLabel(score) ==
    CASE score >= 90 -> "critical" [] score \in 70 .. 89 -> "high" [] score \in 40 .. 69 -> "medium"
      [] score \in 1 .. 39 -> "low" [] OTHER -> "unknown"

\* The first severity that an advisory gives; a score that is no number, such
\* as a CVSS vector, is passed over.  Scores are in tenths.
SummarizeSeverity(vuln) ==
    LET affected == SelectSeq(vuln.affected, LAMBDA label : label # None)
        scores == SelectSeq(vuln.cvss, LAMBDA score : score # None)
    IN  CASE affected # <<>> -> affected[1]
          [] affected = <<>> /\ vuln.database # None -> vuln.database
          [] affected = <<>> /\ vuln.database = None /\ scores # <<>> -> CvssScoreToLabel(scores[1])
          [] OTHER -> "unknown"

PrimaryIdentifier(vuln) ==
    LET cves == SelectSeq(vuln.aliases, LAMBDA alias : alias.kind = "CVE")
    IN  IF cves # <<>> THEN cves[1]
        ELSE IF vuln.aliases # <<>> THEN vuln.aliases[1] ELSE [kind |-> "OSV", name |-> None]

MapSeverity(label) == IF label \in {"critical", "high", "medium", "low"} THEN label ELSE "medium"
RiskTotal(label) ==
    CASE label = "critical" -> 90 [] label = "high" -> 70 [] label = "medium" -> 45
      [] label = "low" -> 20 [] OTHER -> 30

\* The pages of OSV, one after the other; an ecosystem that OSV does not know
\* is an error.
QueryVulnerabilities(eco, name) ==
    IF NormalizeEcosystem(eco) = None THEN [ok |-> FALSE, vulns |-> <<>>]
    ELSE [ok |-> TRUE, vulns |-> IF eco = <<"npm">> /\ name = <<"left">> THEN advisories ELSE <<>>]

-----------------------------------------------------------------------------
None4 == [critical |-> 0, high |-> 0, medium |-> 0, low |-> 0]
VulnerabilityCounts(id) ==
    LET package == ParsePackageId(id)
        answer == QueryVulnerabilities(package.ecosystem, package.name)
    IN  IF package.ecosystem = None THEN [ok |-> TRUE, counts |-> None4]
        ELSE [ok |-> answer.ok,
              counts |-> [severity \in DOMAIN None4 |->
                  Len(SelectSeq(answer.vulns, LAMBDA vuln : SummarizeSeverity(vuln) = severity))]]

Finding(vuln, package) ==
    [cve |-> PrimaryIdentifier(vuln), package |-> package.name,
     severity |-> MapSeverity(SummarizeSeverity(vuln)), risk |-> RiskTotal(SummarizeSeverity(vuln)),
     ghsa |-> LET ghsas == SelectSeq(vuln.aliases, LAMBDA alias : alias.kind = "GHSA")
              IN  IF ghsas = <<>> THEN None ELSE ghsas[1]]

\* OSV knows of no exploit: a filter that asks for one passes nothing.
Passes(finding, filter) ==
    /\ filter.severity # None => finding.severity \in filter.severity
    /\ filter.minRisk # None => finding.risk >= filter.minRisk
    /\ filter.exploit # TRUE

Vulnerabilities(id, filter, first, after) ==
    LET package == ParsePackageId(id)
        answer == QueryVulnerabilities(package.ecosystem, package.name)
        found == [i \in DOMAIN answer.vulns |-> Finding(answer.vulns[i], package)]
    IN  IF package.name = None THEN [ok |-> TRUE, page |-> PageAt(<<>>, first, None)]
        ELSE [ok |-> answer.ok,
              page |-> PageAt(SelectSeq(found, LAMBDA f : Passes(f, filter)), first, after)]

\* How many vulnerabilities the version has decides how pressing the newer
\* one is, whether or not it has them too.
UpdateRecommendations(id) ==
    LET package == ParsePackageId(id)
        current == package.version
        answer == QueryVulnerabilities(package.ecosystem, package.name)
        count == Len(answer.vulns)
        breaking == {latest.major, current[1].major} \subseteq Int /\ latest.major > current[1].major
    IN  IF latest = None \/ current = None \/ latest = current[1] \/ ~answer.ok THEN [available |-> 0]
        ELSE [available |-> 1, vulnerabilitiesFixed |-> count, breaking |-> breaking,
              urgency |-> CASE count > 0 /\ breaking -> "critical" [] count > 0 /\ ~breaking -> "high"
                            [] count = 0 /\ breaking -> "medium" [] OTHER -> "low",
              reasons |-> (IF count > 0 THEN {"SecurityVulnerability"} ELSE {})
                            \cup {IF breaking THEN "EndOfLife" ELSE "MajorBugFix"}]

\* The tools of the agent.  They want an ecosystem.
GetVulnerabilities(id, severity) ==
    LET package == ParsePackageId(id)
        answer == QueryVulnerabilities(package.ecosystem, package.name)
        labelled == [i \in DOMAIN answer.vulns |->
                        [cve |-> PrimaryIdentifier(answer.vulns[i]),
                         severity |-> SummarizeSeverity(answer.vulns[i])]]
    IN  IF package.ecosystem = None THEN [ok |-> FALSE, vulnerabilities |-> <<>>]
        ELSE [ok |-> answer.ok,
              vulnerabilities |-> SelectSeq(labelled, LAMBDA f : severity \in {None, f.severity})]

EvaluatePolicy(id) ==
    LET package == ParsePackageId(id)
        answer == QueryVulnerabilities(package.ecosystem, package.name)
        count == [severity \in DOMAIN None4 |->
                     Len(SelectSeq(answer.vulns, LAMBDA vuln : SummarizeSeverity(vuln) = severity))]
        penalty == 20 * count.critical + 10 * count.high + 5 * count.medium + count.low
    IN  IF package.ecosystem = None \/ ~answer.ok THEN [ok |-> FALSE]
        ELSE [ok |-> TRUE, counts |-> count, score |-> 100 - Least(penalty, 100),
              violations |-> (IF count.critical > 0 THEN {"max_critical_vulns"} ELSE {})
                               \cup (IF count.high > HighLimit THEN {"max_high_vulns"} ELSE {})]

-----------------------------------------------------------------------------
Init == advisories = <<>> /\ latest \in Latests

Publish(vuln) ==
    /\ Len(advisories) < MaxAdvisories
    /\ advisories' = Append(advisories, vuln)
    /\ UNCHANGED latest

Next == \E vuln \in Advisories : Publish(vuln)

-----------------------------------------------------------------------------
All == [severity |-> None, minRisk |-> None, exploit |-> None]

\* The badges count what the list shows under their severity, but for the
\* advisories of no known severity, which the list shows as medium; the advice
\* to update is pressing exactly when the list of the version is not empty; the
\* agent is told of the same vulnerabilities, and its policy is passed only
\* where no badge is critical.
FindingsAgree ==
    \A id \in PackageIds :
        LET badges == VulnerabilityCounts(id)
            Shown(severity) ==
                Vulnerabilities(id, [All EXCEPT !.severity = {severity}], 2, None).page.totalCount
            list == Vulnerabilities(id, All, 2, None)
            advice == UpdateRecommendations(id)
            told == GetVulnerabilities(id, None)
            policy == EvaluatePolicy(id)
        IN  /\ \A severity \in {"critical", "high", "low"} : badges.counts[severity] = Shown(severity)
            /\ badges.counts["medium"] <= Shown("medium")
            /\ Shown("critical") + Shown("high") + Shown("medium") + Shown("low") = list.page.totalCount
            /\ badges.ok = list.ok
            /\ advice.available = 1 =>
                  (advice.urgency \in {"critical", "high"} <=> list.page.totalCount > 0)
            /\ told.ok => /\ Len(told.vulnerabilities) = list.page.totalCount
                          /\ \A severity \in DOMAIN None4 :
                                Len(GetVulnerabilities(id, severity).vulnerabilities)
                                  = badges.counts[severity]
            /\ policy.ok => /\ policy.counts = badges.counts
                            /\ policy.violations = {} => Shown("critical") = 0
                            /\ policy.score = 100 => \A severity \in DOMAIN None4 : policy.counts[severity] = 0
                            /\ Shown("critical") > 0 => policy.score <= 80

\* A client that asks for two or more at a time reads every finding that
\* passes its filter, the last of each page once more.
PagesComplete ==
    \A id \in PackageIds, first \in 2 .. 3, minRisk \in {None, 40} :
        LET filter == [All EXCEPT !.minRisk = minRisk]
            Page(after) == Vulnerabilities(id, filter, first, after).page
            rows == Vulnerabilities(id, filter, 100, None).page.nodes
        IN  Overlapping(Followed(Page, rows), rows)
=============================================================================
