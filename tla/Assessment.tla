----------------------------- MODULE Assessment -----------------------------
(***************************************************************************)
(* The assessment of a package: the scorecard of its repository, the level *)
(* of its provenance and what else is known of it make the context that a  *)
(* policy is evaluated on, and its findings have a risk score.  A step     *)
(* betters one thing, or worsens a finding.                                *)
(*                                                                         *)
(* The provenance (packages/models/src/provenance.rs) is here: the builder *)
(* of a statement, and the verifier that gives it a build level.  A        *)
(* statement also comes from elsewhere, so that any part of it may be      *)
(* amiss.                                                                  *)
(***************************************************************************)
EXTENDS Integers, Sequences, SequencesExt, FiniteSets

CONSTANTS
    Dossiers,        \* [repo, statement, known, finding] : where it may start
    Verifier,        \* the verifier of provenance
    Rules,           \* the policy
    LicenseOf,
    MaxSteps,        \* bound
    None

VARIABLES repo, statement, known, finding, steps

S == INSTANCE Scorecard
E == INSTANCE Policy

-----------------------------------------------------------------------------
(* Provenance.                                                             *)

\* ProvenanceBuilder::new and the setters that verify() looks at; a subject
\* is added with its digest.
NewBuilder(builder) ==
    [statement |-> TRUE, predicate |-> TRUE, subjects |-> <<>>, builder |-> builder,
     started |-> None, dependencies |-> None]

AddSubject(p, name) == [p EXCEPT !.subjects = Append(@, [name |-> name, digest |-> TRUE])]
Timestamps(p, t) == [p EXCEPT !.started = t]

\* build(): the types are those of in-toto and of SLSA, and dependencies that
\* were not given are not told.
Build(p, deps) == [p EXCEPT !.dependencies = IF deps = <<>> THEN None ELSE deps]

\* The checks of verify(), by a verifier [trusted, required].
SubjectsHaveDigests(p) == \A s \in ToSet(p.subjects) : s.digest
BuilderTrusted(v, p) == v.trusted = {} \/ p.builder \in v.trusted
HasTimestamps(p) == p.started # None

AllPassed(v, p) ==
    /\ p.statement /\ p.predicate
    /\ p.subjects # <<>> /\ SubjectsHaveDigests(p)
    /\ BuilderTrusted(v, p) /\ HasTimestamps(p)

\* Levels are numbers: no statement reaches the third.
Level(v, p) ==
    IF ~AllPassed(v, p) THEN 0
    ELSE IF BuilderTrusted(v, p) /\ HasTimestamps(p) THEN 2 ELSE 1

Verify(v, p) ==
    [level |-> Level(v, p),
     valid |-> AllPassed(v, p) /\ Level(v, p) >= v.required,
     errors |-> Level(v, p) < v.required,
     warnings |-> ~HasTimestamps(p)]

\* A statement with one defect less than p, and a verifier that asks for less.
Mended(p, builders) ==
    {[p EXCEPT !.statement = TRUE], [p EXCEPT !.predicate = TRUE], [p EXCEPT !.started = 1],
     [p EXCEPT !.subjects = [i \in DOMAIN @ |-> [@[i] EXCEPT !.digest = TRUE]]]}
    \cup {[p EXCEPT !.builder = b] : b \in builders}
    \cup (IF p.subjects = <<>> THEN {AddSubject(p, "artifact")} ELSE {})

\* A statement that is mended is not given a lower level, nor found invalid
\* when it was valid; who asks for more accepts less.
MendedVerifies(v, p, builders) ==
    /\ \A q \in Mended(p, builders) :
          Level(v, p) <= Level(v, q) /\ (Verify(v, p).valid => Verify(v, q).valid)
    /\ Verify(v, p).valid =>
          /\ \A r \in 0 .. v.required : Verify([v EXCEPT !.required = r], p).valid
          /\ Verify([v EXCEPT !.trusted = {}], p).valid
          /\ ~Verify(v, p).errors /\ ~Verify(v, p).warnings
          /\ p.subjects # <<>>

\* What the builder builds, with a subject and its times, is valid to whoever
\* trusts it and asks for the second level at most.
BuiltVerifies(v, b) ==
    LET p == Build(Timestamps(AddSubject(NewBuilder(b), "artifact"), 1), <<>>)
    IN Verify(v, p).valid = (BuilderTrusted(v, p) /\ v.required <= 2)

-----------------------------------------------------------------------------
(* The assessment.                                                         *)

\* PolicyContext, filled with the results of the other modules.
Context ==
    LET scores == S!AnalyzeRepo(repo)
    IN [license |-> known.license, vulnerabilities |-> known.vulnerabilities,
        assessed |-> known.assessed, sbom |-> known.sbom, age |-> known.age, depth |-> known.depth,
        provenance |-> statement # None,
        slsa |-> IF statement = None THEN None ELSE Verify(Verifier, statement).level,
        score |-> S!Aggregate(scores), checks |-> scores]

Init ==
    /\ \E d \in Dossiers :
          /\ repo = d.repo /\ statement = d.statement
          /\ known = d.known /\ finding = d.finding
    /\ steps = 0

Count == steps < MaxSteps /\ steps' = steps + 1

BetterRepo ==
    /\ Count
    /\ repo' \in S!Better(repo) \ {repo}
    /\ UNCHANGED <<statement, known, finding>>

\* The provenance is mended, or one is built where there was none.
BetterStatement ==
    /\ Count
    /\ statement' \in IF statement = None
                      THEN {Build(NewBuilder(b), <<>>) : b \in Verifier.trusted}
                      ELSE Mended(statement, Verifier.trusted) \ {statement}
    /\ UNCHANGED <<repo, known, finding>>

BetterKnown ==
    /\ Count
    /\ known' \in
          {[known EXCEPT !.assessed = @ + 1], [known EXCEPT !.sbom = TRUE]}
          \cup {[known EXCEPT !.vulnerabilities[s] = @ - 1] :
                   s \in {t \in DOMAIN known.vulnerabilities : known.vulnerabilities[t] > 0}}
          \cup (IF known.age = None THEN {} ELSE {[known EXCEPT !.age = @ \div 2]})
          \cup (IF known.depth = None \/ known.depth = 0 THEN {} ELSE {[known EXCEPT !.depth = @ - 1]})
    /\ known' # known
    /\ UNCHANGED <<repo, statement, finding>>

WorseFinding ==
    /\ Count
    /\ finding' \in S!Worse(finding) \ {finding}
    /\ UNCHANGED <<repo, statement, known>>

Next == BetterRepo \/ BetterStatement \/ BetterKnown \/ WorseFinding

-----------------------------------------------------------------------------
\* A package that is bettered in one thing is not judged worse in any rule of
\* the policy nor in all, nor scored lower; and a finding that is worse is not
\* given a lower risk.
JudgedNoWorse ==
    /\ E!Monotone(Rules, Context, Context')
    /\ S!BetterScores(repo, repo')
    /\ S!WorseScores(finding, finding')

\* Provenance is as good as its defects allow, to verifiers of any level.
ProvenanceHolds ==
    \A r \in 0 .. 3, trusted \in SUBSET (Verifier.trusted \cup {"unknown"}) :
        LET verifier == [trusted |-> trusted, required |-> r]
        IN /\ statement # None => MendedVerifies(verifier, statement, trusted)
           /\ \A b \in Verifier.trusted : BuiltVerifies(verifier, b)
=============================================================================
