----------------------------- MODULE Prediction -----------------------------
(***************************************************************************)
(* The prediction of breaking changes from what is known of a release      *)
(* (apps/analysis/src/feature_extraction.rs, breaking_change_predictor.rs).*)
(* Probabilities are in thousandths.  A version is [text, major, minor,    *)
(* patch, pre, word]: text tells versions apart, pre is the pre-release    *)
(* after a dash, word whether it has a dash or a word of pre-releases.     *)
(***************************************************************************)
EXTENDS Integers, Sequences, FiniteSets, FiniteSetsExt, Functions

CONSTANTS Releases,    \* where a release may start
          Versions,    \* the versions of dependencies
          MaxChanges,  \* bound
          None

\* The text of a version tells its numbers; both manifests of a release are
\* known, or neither.
VersionsAssumption ==
    /\ \A v, w \in Versions : v.text = w.text => v = w
    /\ \A v \in Versions : v.major \in Nat /\ v.minor \in Nat /\ v.patch \in Nat
    /\ \A r \in Releases :
          /\ DOMAIN r = {"old", "new", "changelog", "oldDeps", "newDeps"}
          /\ r.newDeps # None =>
                /\ r.oldDeps \in [DOMAIN r.oldDeps -> Versions]
                /\ r.newDeps \in [DOMAIN r.newDeps -> Versions]

VARIABLES release,     \* what is known of a release
          changes

Bound(a, b) == IF a < b THEN a ELSE b

\* SemverAnalysis::compare
VersionBump(v, w) ==
    CASE v.major # w.major -> "major"
      [] v.major = w.major /\ v.minor # w.minor -> "minor"
      [] v.major = w.major /\ v.minor = w.minor /\ v.patch # w.patch -> "patch"
      [] OTHER -> IF v.pre # w.pre THEN "preRelease" ELSE "none"

\* DependencyDiff::compute, of functions from names to versions.
DependencyDiff(old, new) ==
    LET moved == {n \in DOMAIN old \cap DOMAIN new : old[n].text # new[n].text}
        major == {n \in moved : new[n].major > old[n].major}
    IN [added |-> DOMAIN new \ DOMAIN old, removed |-> DOMAIN old \ DOMAIN new, major |-> major,
        minor |-> {n \in moved \ major : new[n].minor > old[n].minor \/ new[n].patch > old[n].patch}]

\* FeatureExtractor::extract; what it leaves out has its default.
Extract(r) ==
    LET diff == DependencyDiff(r.oldDeps, r.newDeps)
        known == r.oldDeps # None /\ r.newDeps # None
    IN [old |-> r.old, new |-> r.new, changelog |-> r.changelog,
        removed |-> IF known THEN Cardinality(diff.removed) ELSE 0,
        major |-> IF known THEN Cardinality(diff.major) ELSE 0,
        pre |-> r.new.pre # None,
        apiRemoved |-> 0, authorRate |-> None, days |-> None, lines |-> None]

-----------------------------------------------------------------------------
\* The signals of predict(), the weight of each in thousandths; a changelog is
\* the set of the sorts of keywords that it has, an author's rate of breaking
\* releases is in hundredths (a tenth of it, in thousandths, is its weight).
MajorVersionBump(i) == IF i.old # None /\ i.new.major > i.old.major THEN {400} ELSE {}
BreakingKeywords(i) == IF i.changelog # None /\ "breaking" \in i.changelog THEN {300} ELSE {}
DeprecationKeywords(i) == IF i.changelog # None /\ "deprecation" \in i.changelog THEN {150} ELSE {}
DependenciesRemoved(i) == IF i.removed > 0 THEN {Bound(i.removed * 100, 150)} ELSE {}

DependenciesMajorUpdate(i) == IF i.major > 0 THEN {Bound(i.major * 50, 100)} ELSE {}
ApiSurfaceReduced(i) == IF i.apiRemoved > 0 THEN {Bound(i.apiRemoved * 50, 250)} ELSE {}
AuthorHistory(i) == IF i.authorRate # None /\ i.authorRate > 30 THEN {i.authorRate} ELSE {}
RapidRelease(i) == IF i.days # None /\ i.days < 7 THEN {50} ELSE {}

\* is_pre_release_version
PreRelease(i) == IF i.pre \/ i.new.word THEN {150} ELSE {}
LargeDiff(i) ==
    IF i.lines # None /\ i.lines > 1000 THEN {(Bound(i.lines, 5000) * 80) \div 5000} ELSE {}

Signals(i) ==
    <<MajorVersionBump(i), BreakingKeywords(i), DeprecationKeywords(i), DependenciesRemoved(i),
      DependenciesMajorUpdate(i), ApiSurfaceReduced(i), AuthorHistory(i), RapidRelease(i),
      PreRelease(i), LargeDiff(i)>>

RiskLevel(p) ==
    CASE p < 200 -> 1 [] p \in 200 .. 499 -> 2 [] p \in 500 .. 799 -> 3 [] OTHER -> 4

\* predict; confidence in hundredths.
Predict(i) ==
    LET s == Signals(i)
        probability == Bound(SumFunction([k \in DOMAIN s |-> SumSet(s[k])]), 990)
    IN [probability |-> probability, risk |-> RiskLevel(probability),
        signals |-> Cardinality({k \in DOMAIN s : s[k] # {}}),
        confidence |-> Bound(95, 50 + (IF MajorVersionBump(i) = {} THEN 0 ELSE 20)
                                    + (IF BreakingKeywords(i) = {} THEN 0 ELSE 15)
                                    + (IF ApiSurfaceReduced(i) = {} THEN 0 ELSE 10)
                                    + 5 * Cardinality({k \in DOMAIN s : s[k] # {}}))]

-----------------------------------------------------------------------------
Init == release \in Releases /\ changes = 0

\* The release changes more: a dependency that was not moved up is dropped, one
\* is moved up, the release is told of, or moved to the next major version.
Change ==
    /\ changes < MaxChanges /\ changes' = changes + 1
    /\ LET r == release IN
       \/ r.newDeps # None /\ \E n \in DOMAIN r.newDeps \cap DOMAIN r.oldDeps :
             /\ r.newDeps[n].major <= r.oldDeps[n].major
             /\ release' = [r EXCEPT !.newDeps = Restrict(@, DOMAIN @ \ {n})]
       \/ r.newDeps # None /\ \E n \in DOMAIN r.newDeps, v \in Versions :
             /\ v.major > r.newDeps[n].major
             /\ release' = [r EXCEPT !.newDeps[n] = v]
       \/ r.changelog # None /\ \E word \in {"breaking", "deprecation"} :
             release' = [r EXCEPT !.changelog = @ \cup {word}]
       \/ release' = [r EXCEPT !.new.major = @ + 1]
    /\ release' # release

\* The dependencies that changed are told once, as what they are; a downgrade
\* is not told.
DiffPartitions ==
    release.newDeps # None =>
        LET d == DependencyDiff(release.oldDeps, release.newDeps)
            told == <<d.added, d.removed, d.major, d.minor>>
        IN /\ \A i, j \in DOMAIN told : i # j => told[i] \cap told[j] = {}
           /\ \A n \in DOMAIN release.oldDeps \cup DOMAIN release.newDeps :
                 n \notin UNION {told[i] : i \in DOMAIN told} =>
                     LET before == release.oldDeps[n]  after == release.newDeps[n]
                     IN VersionBump(before, after) \in {"none", "preRelease"} \/ after.major < before.major
                        \/ (after.major = before.major /\ (after.minor < before.minor \/ after.patch < before.patch))

\* A release that changes more is not held for less likely to break, whatever
\* else is known of it, and the probability stays below one.
RiskOf(r, more) == Predict([Extract(r) EXCEPT !.apiRemoved = more[1], !.lines = more[2], !.days = more[3]])
MoreIsNotSafer ==
    \A more \in {0, 3, 9} \X {None, 1000, 4000} \X {None, 2} :
        LET old == RiskOf(release, more)  new == RiskOf(release', more)
        IN /\ old.probability <= new.probability /\ new.probability \in 0 .. 990
           /\ old.risk <= new.risk /\ new.confidence \in 50 .. 95
           /\ \/ old.signals <= new.signals
              \/ DOMAIN release.newDeps # DOMAIN release'.newDeps
=============================================================================
