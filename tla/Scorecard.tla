------------------------------ MODULE Scorecard ------------------------------
(***************************************************************************)
(* The OpenSSF scorecard of a repository (packages/models/src/scorecard.rs)*)
(* and the risk score of a vulnerability (vulnerability.rs).  Fractions    *)
(* are scaled to integers: ratios and scores in hundredths, weights in     *)
(* halves.                                                                 *)
(***************************************************************************)
EXTENDS Integers, FiniteSets, Functions

CONSTANT None

Least(a, b) == IF a < b THEN a ELSE b
Most(a, b) == IF a < b THEN b ELSE a
Points(b) == IF b THEN 10 ELSE 0

-----------------------------------------------------------------------------
\* The checks, each from 0 to 10, of the facts of a repository.
CheckBinaryArtifacts(r) == Points(~r.binaries)
CheckBranchProtection(r) ==
    LET worth == [pullRequest |-> 3, review |-> 3, statusChecks |-> 2, admins |-> 2]
    IN IF r.protection = None THEN 0
       ELSE Least(10, SumFunctionOnSet(worth, r.protection))
CheckCiTests(r) == Points(r.ciTests)
CheckCiiBestPractices(r) ==
    CASE r.badge = "gold" -> 10 [] r.badge = "silver" -> 7 [] r.badge = "passing" -> 5
      [] r.badge = "in_progress" -> 2 [] OTHER -> 0
CheckCodeReview(r) == Points(r.codeReview)
CheckContributors(r) ==
    CASE r.orgs >= 3 -> 10 [] r.orgs = 2 -> 7 [] r.orgs = 1 -> 3 [] OTHER -> 0
CheckDangerousWorkflow(r) == Points(~r.dangerous)
CheckDependencyUpdateTool(r) == Points(r.dependabot \/ r.renovate)
CheckFuzzing(r) == Points(r.fuzzing)
CheckLicense(r) == Points(r.license # None)

\* CheckMaintained as it would be if a year were looked for before the half of it.
MaintainedYearFirst(r) ==
    CASE r.idleDays = None -> 0
      [] r.idleDays # None -> CASE r.idleDays <= 30 -> 10 [] r.idleDays \in 31 .. 90 -> 7
           [] r.idleDays \in 91 .. 180 -> 3 [] r.idleDays \in 181 .. 365 -> 5 [] OTHER -> 0

CheckMaintained(r) ==
    CASE r.idleDays = None -> 0
      [] r.idleDays # None -> CASE r.idleDays <= 30 -> 10 [] r.idleDays \in 31 .. 90 -> 7
           [] r.idleDays \in 91 .. 180 -> 5 [] r.idleDays \in 181 .. 365 -> 3 [] OTHER -> 0
CheckPackaging(r) == Points(r.packages)
CheckPinnedDependencies(r) == Least(10, r.pinned \div 10)
CheckSast(r) == Points(r.sast)
CheckSecurityPolicy(r) == Points(r.securityPolicy)
CheckSignedReleases(r) == Least(10, r.signed \div 10)
CheckTokenPermissions(r) == Points(r.leastPrivilege)
CheckVulnerabilities(r) ==
    CASE r.vulnerabilities = 0 -> 10 [] r.vulnerabilities \in 1 .. 2 -> 7
      [] r.vulnerabilities \in 3 .. 5 -> 5 [] r.vulnerabilities \in 6 .. 10 -> 3 [] OTHER -> 0

\* analyze_repo: the checks that it runs, and their scores.
AnalyzeRepo(r) ==
    [BinaryArtifacts |-> CheckBinaryArtifacts(r), BranchProtection |-> CheckBranchProtection(r),
     CiTests |-> CheckCiTests(r), CiiBestPractices |-> CheckCiiBestPractices(r),
     CodeReview |-> CheckCodeReview(r), Contributors |-> CheckContributors(r),
     DangerousWorkflow |-> CheckDangerousWorkflow(r),
     DependencyUpdateTool |-> CheckDependencyUpdateTool(r), Fuzzing |-> CheckFuzzing(r),
     License |-> CheckLicense(r), Maintained |-> CheckMaintained(r),
     Packaging |-> CheckPackaging(r), PinnedDependencies |-> CheckPinnedDependencies(r),
     Sast |-> CheckSast(r), SecurityPolicy |-> CheckSecurityPolicy(r),
     SignedReleases |-> CheckSignedReleases(r), TokenPermissions |-> CheckTokenPermissions(r),
     Vulnerabilities |-> CheckVulnerabilities(r)]

Weight(check) ==
    CASE check \in {"Vulnerabilities", "DangerousWorkflow", "BinaryArtifacts"} -> 20
      [] check \in {"BranchProtection", "CodeReview", "TokenPermissions",
                    "PinnedDependencies", "Maintained"} -> 15
      [] check \in {"Sast", "SecurityPolicy", "SignedReleases", "DependencyUpdateTool",
                    "CiTests", "License"} -> 10
      [] check \in {"Fuzzing", "CiiBestPractices", "Contributors", "Packaging", "Webhooks"} -> 5

\* calculate_aggregate, in hundredths.
Aggregate(scores) ==
    LET total == SumFunction([c \in DOMAIN scores |-> Weight(c)])
        weighted == SumFunction([c \in DOMAIN scores |-> scores[c] * Weight(c)])
    IN IF DOMAIN scores = {} THEN 0 ELSE (100 * weighted) \div total

CheckRisk(score) ==
    CASE score \in 0 .. 2 -> 4 [] score \in 3 .. 4 -> 3 [] score \in 5 .. 7 -> 2
      [] score \in 8 .. 10 -> 1 [] OTHER -> 0

FailedChecks(scores) == {c \in DOMAIN scores : scores[c] < 5}
CriticalFindings(scores) == {c \in DOMAIN scores : CheckRisk(scores[c]) \in {3, 4}}

OverallRisk(aggregate) ==
    CASE aggregate < 300 -> 4 [] aggregate \in 300 .. 499 -> 3
      [] aggregate \in 500 .. 699 -> 2 [] OTHER -> 1

\* The facts of a repository that is better than r in one of them.
Better(r) ==
    {[r EXCEPT ![f] = TRUE] : f \in {"ciTests", "codeReview", "dependabot", "renovate", "fuzzing",
                                     "packages", "sast", "securityPolicy", "leastPrivilege"}}
    \cup {[r EXCEPT ![f] = FALSE] : f \in {"binaries", "dangerous"}}
    \cup {[r EXCEPT !.protection = (IF @ = None THEN {} ELSE @) \cup {o}] :
              o \in {"pullRequest", "review", "statusChecks", "admins"}}
    \cup {[r EXCEPT !.badge = IF @ = None THEN "in_progress" ELSE
              CASE @ = "in_progress" -> "passing" [] @ = "passing" -> "silver" [] OTHER -> "gold"]}
    \cup {[r EXCEPT !.orgs = @ + 1], [r EXCEPT !.license = "MIT"]}
    \cup {[r EXCEPT !.pinned = Least(100, @ + 15)], [r EXCEPT !.signed = Least(100, @ + 15)]}
    \cup {[r EXCEPT !.idleDays = IF @ = None THEN 400 ELSE @ \div 2]}
    \cup {[r EXCEPT !.vulnerabilities = IF @ = 0 THEN 0 ELSE @ - 1]}

-----------------------------------------------------------------------------
\* ReachabilityStatus::risk_weight and the confidence of the evidence, in
\* thousandths and hundredths.
RiskWeight(status) ==
    CASE status = "reachable" -> 1000 [] status = "conditional" -> 625
      [] status = "noRule" -> 500 [] status = "unreachable" -> 125

Confidence(status) ==
    CASE status = "reachable" -> 95 [] status = "conditional" -> 75
      [] status = "noRule" -> 0 [] status = "unreachable" -> 85

\* RiskScore::calculate, in hundredths of a point, of an input [status,
\* confidence, cvss (tenths), epss (hundredths, or None), exploit, production,
\* public].
RiskScore(i) ==
    LET reachability == (RiskWeight(i.status) * 4 * Most(i.confidence, 50)) \div 100
        epss == (IF i.epss = None THEN 10 ELSE i.epss) * 15
        exploit == Least(2500, epss + IF i.exploit THEN 1000 ELSE 0)
        environment == (IF i.production THEN 1200 ELSE 0) + (IF i.public THEN 800 ELSE 0)
    IN Least(10000, reachability + exploit + environment + i.cvss * 15)

Label(total) ==
    LET points == total \div 100
    IN CASE points \in 0 .. 25 -> 1 [] points \in 26 .. 50 -> 2
         [] points \in 51 .. 75 -> 3 [] OTHER -> 4

\* Severity::from_cvss, of a score in tenths.
FromCvss(cvss) ==
    CASE cvss >= 90 -> 4 [] cvss \in 70 .. 89 -> 3 [] cvss \in 40 .. 69 -> 2 [] OTHER -> 1

\* An input that is worse than i in one of its parts.
Worse(i) ==
    {[i EXCEPT !.status = s, !.confidence = Confidence(s)] :
        s \in {t \in {"reachable", "conditional", "noRule"} : RiskWeight(t) > RiskWeight(i.status)}}
    \cup {[i EXCEPT !.cvss = Least(100, @ + 13)], [i EXCEPT !.exploit = TRUE],
          [i EXCEPT !.production = TRUE], [i EXCEPT !.public = TRUE]}
    \cup {[i EXCEPT !.epss = IF @ = None THEN 20 ELSE Least(100, @ + 25)]}

-----------------------------------------------------------------------------
\* A better repository has no lower score, in any check or in all, no more
\* failed checks and no more critical findings.
BetterScores(r, b) ==
    LET old == AnalyzeRepo(r)  new == AnalyzeRepo(b)
    IN /\ Aggregate(new) >= Aggregate(old)
       /\ FailedChecks(new) \subseteq FailedChecks(old)
       /\ CriticalFindings(new) \subseteq CriticalFindings(old)
       /\ OverallRisk(Aggregate(new)) <= OverallRisk(Aggregate(old))

\* A worse input has no lower risk score, and the score stays within 100.
WorseScores(i, w) ==
    /\ RiskScore(i) <= RiskScore(w) /\ RiskScore(w) \in 0 .. 10000
    /\ Label(RiskScore(i)) <= Label(RiskScore(w))
    /\ FromCvss(i.cvss) <= FromCvss(w.cvss)
=============================================================================
