------------------------------- MODULE Policy -------------------------------
(***************************************************************************)
(* The policy engine (packages/models/src/policy.rs): conditions on what   *)
(* is known of a package, and the verdict of a set of rules.  A context    *)
(* is a record [license, vulnerabilities, assessed, slsa, sbom,            *)
(* provenance, score, checks, age, depth]; what is not known is None.      *)
(***************************************************************************)
EXTENDS Integers, Sequences, SequencesExt, FiniteSets, Functions

CONSTANTS None,
    LicenseOf      \* [osi] of the license identifiers, lower-cased

\* VexSeverity as its derived order has it: in the order of declaration.
Severities == <<"critical", "high", "medium", "low", "none", "unknown">>
SeverityRank(s) == IndexFirstSubSeq(<<s>>, Severities)

Result(b) == IF b THEN "pass" ELSE "fail"

LicenseAllowed(c, allowed) ==
    IF c.license = None THEN "skip" ELSE Result(c.license \in allowed)
LicenseDenied(c, denied) ==
    IF c.license = None THEN "skip" ELSE Result(c.license \notin denied)
LicenseOsiApproved(c) ==
    IF c.license = None THEN "skip" ELSE Result(LicenseOf[c.license].osi)

MaxVulnerabilitySeverity(c, max) ==
    Result(\A s \in DOMAIN c.vulnerabilities :
              c.vulnerabilities[s] > 0 => SeverityRank(s) <= SeverityRank(max))

RequireVexAssessment(c) ==
    LET total == SumFunction(c.vulnerabilities)
    IN Result(total = 0 \/ c.assessed >= total)

MinSlsaLevel(c, min) == Result(c.slsa # None /\ c.slsa >= min)

MinScorecardScore(c, min) == IF c.score = None THEN "skip" ELSE Result(c.score >= min)
ScorecardCheckRequired(c, check, min) ==
    IF check \notin DOMAIN c.checks THEN "skip" ELSE Result(c.checks[check] >= min)

\* Days since the last update; an update in the future counts as long ago.
MaxPackageAge(c, max) ==
    IF c.age = None THEN "skip" ELSE IF c.age \in 0 .. max THEN "pass" ELSE "warn"
MaxDependencyDepth(c, max) ==
    IF c.depth = None THEN "skip" ELSE IF c.depth <= max THEN "pass" ELSE "warn"

\* All fails by a failed condition only, Any passes by a passed one only.
RECURSIVE Condition(_, _)
AllOf(conditions, c) == Result(\A d \in ToSet(conditions) : Condition(d, c) # "fail")
AnyOf(conditions, c) == Result(\E d \in ToSet(conditions) : Condition(d, c) = "pass")
NotOf(d, c) ==
    CASE Condition(d, c) = "pass" -> "fail" [] Condition(d, c) = "fail" -> "pass"
      [] OTHER -> Condition(d, c)

\* evaluate_condition
Condition(d, c) ==
    CASE d.type = "allowed" -> LicenseAllowed(c, d.licenses)
      [] d.type = "denied" -> LicenseDenied(c, d.licenses)
      [] d.type = "osi" -> LicenseOsiApproved(c)
      [] d.type = "maxSeverity" -> MaxVulnerabilitySeverity(c, d.severity)
      [] d.type = "vex" -> RequireVexAssessment(c)
      [] d.type = "slsa" -> MinSlsaLevel(c, d.level)
      [] d.type = "sbom" -> Result(c.sbom)
      [] d.type = "provenance" -> Result(c.provenance)
      [] d.type = "score" -> MinScorecardScore(c, d.min)
      [] d.type = "check" -> ScorecardCheckRequired(c, d.check, d.min)
      [] d.type = "age" -> MaxPackageAge(c, d.max)
      [] d.type = "depth" -> MaxDependencyDepth(c, d.max)
      [] d.type = "custom" -> "skip"
      [] d.type = "all" -> AllOf(d.conditions, c)
      [] d.type = "any" -> AnyOf(d.conditions, c)
      [] d.type = "not" -> NotOf(d.condition, c)

-----------------------------------------------------------------------------
\* PolicyEngine::evaluate: the results of the rules [condition, blocking] and
\* the verdict, counted as the evaluation counts them.
Evaluate(rules, c) ==
    LET results == [i \in DOMAIN rules |-> Condition(rules[i].condition, c)]
        count(r) == Cardinality({i \in DOMAIN rules : results[i] = r})
        blocking == Cardinality({i \in DOMAIN rules : results[i] = "fail" /\ rules[i].blocking})
    IN [results |-> results, passed |-> count("pass"), failed |-> count("fail"),
        warned |-> count("warn"), blocking |-> blocking,
        overall |-> IF blocking > 0 THEN "fail"
                    ELSE IF count("warn") > 0 \/ count("fail") > 0 THEN "warn" ELSE "pass"]

Rule(condition, blocking) == [condition |-> condition, blocking |-> blocking]

\* create_default_enterprise_policy
EnterpriseRules ==
    << Rule([type |-> "osi"], TRUE),
       Rule([type |-> "denied", licenses |-> {"gpl-2.0", "gpl-3.0", "agpl-3.0", "lgpl-2.1",
                                             "lgpl-3.0"}], TRUE),
       Rule([type |-> "maxSeverity", severity |-> "high"], TRUE),
       Rule([type |-> "slsa", level |-> 1], FALSE),
       Rule([type |-> "score", min |-> 500], FALSE),
       Rule([type |-> "age", max |-> 730], FALSE) >>

-----------------------------------------------------------------------------
Grade(r) == CASE r = "fail" -> 0 [] r = "warn" -> 1 [] r = "pass" -> 2

\* What a context that is better in one known thing gets: no rule and no
\* verdict is worse than before, whatever the conditions are nested in; a rule
\* is skipped as before.
Monotone(rules, c, b) ==
    LET old == Evaluate(rules, c)  new == Evaluate(rules, b)
    IN /\ Grade(old.overall) <= Grade(new.overall)
       /\ \A i \in DOMAIN rules :
             IF old.results[i] = "skip" THEN new.results[i] = "skip"
             ELSE Grade(old.results[i]) <= Grade(new.results[i])
       /\ old.blocking >= new.blocking
       /\ new.passed + new.failed + new.warned
            + Cardinality({i \in DOMAIN rules : new.results[i] = "skip"}) = Len(rules)
=============================================================================
