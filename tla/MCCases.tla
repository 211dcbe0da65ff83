------------------------------- MODULE MCCases -------------------------------
(***************************************************************************)
(* Computations and small stores of the packages and services, side by     *)
(* side: a behaviour exercises one of them, the one of area.               *)
(***************************************************************************)
EXTENDS ServiceWork, TLC

CONSTANTS a, b, v, w, x

-----------------------------------------------------------------------------
(* The supply-chain models of packages/models: assessments of packages,    *)
(* license expressions, VEX, SBOMs and the audit log.                      *)

VARIABLES
    repo, statement, known, finding, steps,
    text,
    documents, cache, draft,
    packages, dependencies

assessmentVars == <<repo, statement, known, finding, steps>>
licenseVars == <<text>>
vexVars == <<documents, cache, draft>>
sbomVars == <<packages, dependencies>>

\* A repository with none of what the checks look for, one with half of it.
Poor ==
    [binaries |-> TRUE, protection |-> None, ciTests |-> FALSE, badge |-> None,
     codeReview |-> FALSE, orgs |-> 0, dangerous |-> TRUE, dependabot |-> FALSE,
     renovate |-> FALSE, fuzzing |-> FALSE, license |-> None, idleDays |-> 400,
     packages |-> FALSE, pinned |-> 40, sast |-> FALSE, securityPolicy |-> FALSE,
     signed |-> 35, leastPrivilege |-> FALSE, vulnerabilities |-> 11]
Fair ==
    [Poor EXCEPT !.binaries = FALSE, !.protection = {"review", "admins"}, !.ciTests = TRUE,
        !.badge = "passing", !.orgs = 2, !.dangerous = FALSE, !.dependabot = TRUE,
        !.license = "MIT", !.idleDays = 100, !.pinned = 75, !.sast = TRUE,
        !.vulnerabilities = 3]
Statement(builder, started, subjects) ==
    [statement |-> TRUE, predicate |-> TRUE, subjects |-> subjects, builder |-> builder,
     started |-> started, dependencies |-> None]
Known(license, high, low, age) ==
    [license |-> license, vulnerabilities |-> [high |-> high, low |-> low], assessed |-> 0,
     sbom |-> FALSE, age |-> age, depth |-> 3]
Finding(status, epss) ==
    [status |-> status, confidence |-> 85, cvss |-> 62, epss |-> epss, exploit |-> FALSE,
     production |-> FALSE, public |-> FALSE]

Policies == INSTANCE Policy WITH LicenseOf <- <<>>

Assess == INSTANCE Assessment WITH
    Dossiers <-
        {[repo |-> Poor, statement |-> None, known |-> Known("mit", 1, 1, 1000),
          finding |-> Finding("unreachable", None)],
         [repo |-> Fair, statement |-> Statement(b, None, <<[name |-> x, digest |-> FALSE]>>),
          known |-> Known("sspl-1.0", 1, 0, None), finding |-> Finding("noRule", 50)],
         [repo |-> Fair, statement |-> Statement(a, 1, <<>>),
          known |-> Known(None, 0, 0, -1), finding |-> Finding("conditional", 90)]},
    Verifier <- [trusted |-> {a}, required |-> 1],
    Rules <- Policies!EnterpriseRules \o
        << Policies!Rule([type |-> "all", conditions |-> <<[type |-> "vex"], [type |-> "age", max |-> 300],
                                                         [type |-> "custom"]>>], TRUE),
           Policies!Rule([type |-> "any", conditions |-> <<[type |-> "sbom"], [type |-> "depth", max |-> 2],
                              [type |-> "check", check |-> "Maintained", min |-> 5]>>], TRUE),
           Policies!Rule([type |-> "not", condition |->
                [type |-> "not", condition |-> [type |-> "provenance"]]], FALSE),
           Policies!Rule([type |-> "allowed", licenses |-> {"mit"}], FALSE) >>,
    LicenseOf <- (("mit" :> [osi |-> TRUE]) @@ ("sspl-1.0" :> [osi |-> FALSE])),
    MaxSteps <- 2

License == INSTANCE Licenses WITH Words <- {"MIT", "GPL-3.0-only"}, MaxLength <- 5

Vexes == INSTANCE Vex WITH
    Vulnerabilities <- {v, w}, Products <- {x}, MaxStatements <- 3,
    Analyses <- {[kind |-> "not_affected", detail |-> a], [kind |-> "not_affected", detail |-> b],
                 [kind |-> "affected", detail |-> a], [kind |-> "fixed", detail |-> b],
                 [kind |-> "under_investigation", detail |-> None]}

Package(id, ecosystem, hash, direct) ==
    [id |-> id, ecosystem |-> ecosystem, hash |-> hash, cpe |-> None, license |-> None,
     direct |-> direct]
Left == <<"n", ":", "a", "/", "b">>
Right == <<"n", ":", "a", ":", "b">>
Other == <<"p", ":", "c">>
Sboms == INSTANCE Sbom WITH
    Packages <- {Package(Left, "npm", x, TRUE), Package(Right, "golang", None, FALSE),
                 Package(Other, "py_pi", x, TRUE)},
    Relations <- {"dependsOn", "dev"}, Plain <- {"n", "p", "a", "b", "c", "-", "."},
    Vulnerable <- (v :> {Left, Other}),
    IncludeVulnerabilities <- TRUE, IncludeHashes <- TRUE, MaxDependencies <- 3

supplyVars == <<assessmentVars, licenseVars, vexVars, sbomVars>>

SupplyInit ==
    /\ Assess!Init /\ License!Init /\ Vexes!Init /\ Sboms!Init
    /\ area # "assessment" => repo = Poor

SupplyNext ==
    \/ area = "assessment" /\ Assess!Next /\ UNCHANGED <<licenseVars, vexVars, sbomVars>>
    \/ area = "licenses" /\ License!Next /\ UNCHANGED <<assessmentVars, vexVars, sbomVars>>
    \/ area = "vex" /\ Vexes!Next /\ UNCHANGED <<assessmentVars, licenseVars, sbomVars>>
    \/ area = "sbom" /\ Sboms!Next /\ UNCHANGED <<assessmentVars, licenseVars, vexVars>>

SupplyAreas == {"assessment", "licenses", "vex", "sbom"}

-----------------------------------------------------------------------------
(* The APIs of sources and their changes, in the analysis service. *)

VARIABLES language, source, released

apiVars == <<language, source, released>>

Form(kind, mark) ==
    [kind |-> kind, mark |-> mark, params |-> <<>>, returns |-> None, generics |-> <<>>,
     receiver |-> None]
P(name, type, default_, kind) == [name |-> name, type |-> type, default |-> default_, kind |-> kind]
X == <<"x">>
Y == <<"y">>
Z == <<"z">>
Api == INSTANCE ApiChanges WITH
    Capitals <- {"G"}, ModifiersField <- TRUE, Names <- {<<"G", "e", "t">>, <<"_", "s", "e", "t">>},
    MaxDeclarations <- 3,
    Forms <-
        [Rust |->
            {Form("mod", "pub"), Form("impl", "none"), Form("fn", "none"),
             [Form("fn", "pub") EXCEPT !.params = <<P(<<"self">>, None, None, "self"), P(X, "T", None, "plain")>>],
             [Form("fn", "pub") EXCEPT !.params = <<P(X, "U", None, "plain"), P(Y, "T", None, "plain")>>,
                                       !.returns = "T"]},
         JavaScript |->
            {Form("class", "export"), Form("const", "none"),
             [Form("fn", "export") EXCEPT !.params = <<P(X, None, None, "plain")>>],
             [Form("fn", "none") EXCEPT !.params = <<P(X, None, None, "plain"), P(Y, None, "1", "plain")>>]},
         Python |->
            {Form("class", "none"),
             [Form("fn", "none") EXCEPT !.params = <<P(X, "T", None, "plain")>>, !.returns = "T"],
             [Form("fn", "none") EXCEPT !.params = <<P(X, None, None, "plain"), P(Y, None, "1", "plain")>>],
             [Form("fn", "none") EXCEPT !.params = <<P(<<"s">>, None, None, "self"), P(Y, None, None, "splat")>>]},
         Go |->
            {Form("struct", "none"), Form("interface", "none"), Form("fn", "none"),
             [Form("fn", "none") EXCEPT !.receiver = "T"]},
         Java |->
            {Form("class", "public"), Form("interface", "private"), Form("fn", "public"),
             Form("fn", "protected")}]

ApiInit == Api!Init /\ (area # "api" => language = "Rust")
ApiNext == area = "api" /\ Api!Next

-----------------------------------------------------------------------------
(* What the API reads: pages of the graph, of the nearest vectors and of   *)
(* vulnerabilities.                                                        *)

VARIABLES
    versions, deleted,
    hits,
    advisories, latest

graphVars == <<versions, deleted>>
findingVars == <<advisories, latest>>

Graph == INSTANCE GraphReads WITH
    Packages <- 1 .. 4,
    Name <- <<<<2>>, <<1, 2>>, <<1>>, <<1, 2>>>>, Ecosystem <- <<"npm", "npm", "npm", "pypi">>,
    Required <- {{1}, {2}, {3}, {1, 4}, {2, 3}}, Queries <- {<<1>>, <<1, 2>>, <<3>>},
    MaxResults <- 3, MaxTraversalDepth <- 3, MaxPathHops <- 3, MaxVersions <- 3, MaxChanges <- 3

Semantic == INSTANCE SemanticSearch WITH
    Packages <- 1 .. 3, Ecosystem <- <<"npm", "npm", "pypi">>, Deleted <- {2}, MaxResults <- 2,
    MaxPoints <- 5, Overfetch <- 1, LeastPoints <- 1, MostFactor <- 3, LeastMost <- 6, MostPoints <- 8

Advisory(affected, database, cvss, aliases) ==
    [affected |-> affected, database |-> database, cvss |-> cvss, aliases |-> aliases]
Cve == [kind |-> "CVE", name |-> 1]
Ghsa == [kind |-> "GHSA", name |-> 1]
Found == INSTANCE Findings WITH
    PackageIds <- {<<<<"npm">>, <<"left">>, <<[text |-> 1, major |-> 1]>>>>, <<<<"npm", "left">>>>,
                   <<<<"npm", "scope">>, <<"left">>>>, <<<<"left">>>>},
    Advisories <- {Advisory(<<None, "critical">>, "high", <<>>, <<Ghsa, Cve>>),
                   Advisory(<<None>>, "moderate", <<75>>, <<Ghsa>>),
                   Advisory(<<>>, None, <<None, 75>>, <<>>), Advisory(<<>>, None, <<40>>, <<Cve>>),
                   Advisory(<<>>, None, <<0>>, <<>>), Advisory(<<>>, "low", <<>>, <<>>)},
    MaxAdvisories <- 4, HighLimit <- 1, MaxResults <- 3,
    Latests <- {None, [text |-> 1, major |-> 1], [text |-> 2, major |-> 1], [text |-> 3, major |-> 2]}

\* The sizes that the configuration may have (see the module).
ASSUME GraphAssumption == Graph!MaxResultsAssumption

readVars == <<graphVars, hits, findingVars>>

ReadInit ==
    /\ Graph!Init /\ Semantic!Init /\ Found!Init
    /\ area # "findings" => latest = None

ReadNext ==
    \/ area = "graph" /\ Graph!Next /\ UNCHANGED <<hits, findingVars>>
    \/ area = "semantic" /\ Semantic!Next /\ UNCHANGED <<graphVars, findingVars>>
    \/ area = "findings" /\ Found!Next /\ UNCHANGED <<graphVars, hits>>

ReadAreas == {"graph", "semantic", "findings"}

-----------------------------------------------------------------------------
(* The inputs of ServiceWork.                                              *)

Entry(path, extension, size, content) ==
    [kind |-> "file", path |-> path, extension |-> extension, size |-> size, packed |-> 1,
     content |-> content]
PackedFilesUsed ==
    {Entry(<<"src", "a">>, "rs", 2, "text"), Entry(<<"/", "..", "b">>, "py", 3, "text"),
     Entry(<<"c">>, "js", 4, "text"), Entry(<<"d">>, "go", 1, "binary"),
     Entry(<<"..">>, "rs", 1, "text"), Entry(<<"e">>, "md", 3, "text")}
SourceExtensionsUsed == {e \in {"rs", "py", "js", "go", "md"} : Api!FromExtension(e) # None}

Version(written, major, minor, pre) ==
    [text |-> written, major |-> major, minor |-> minor, patch |-> 0, pre |-> pre, word |-> pre # None]
V1 == Version("1.0.0", 1, 0, None)
V1b == Version("1.1.0-beta", 1, 1, "beta")
V2 == Version("2.0.0", 2, 0, None)
Release(old, new, changelog, oldDeps, newDeps) ==
    [old |-> old, new |-> new, changelog |-> changelog, oldDeps |-> oldDeps, newDeps |-> newDeps]
ReleasesUsed ==
    {Release(None, V1, None, None, None),
     Release(V1, V1b, {}, (a :> V1) @@ (b :> V1b) @@ (v :> V2), (a :> V1) @@ (b :> V2) @@ (v :> V1)),
     Release(V1, V1, {"deprecation"}, (a :> V1) @@ (b :> V1) @@ (v :> V1),
             (a :> V1) @@ (b :> V1) @@ (v :> V1) @@ (w :> V1))}
DependencyVersionsUsed == {V1, V1b, V2, Version("3.0.0", 3, 0, None)}

EmbedTextsUsed == {X, Y, Z}
EmbedBatchesUsed == {<<X, Y>>, <<X, Y, Z>>, <<Y, Y, X>>, <<Z, X, Z>>}

Logged(tenant, action, status) == [tenant |-> tenant, action |-> action, status |-> status]
LoggedEntriesUsed ==
    {Logged(a, "api.request", 200), Logged(a, "api.request", 500),
     Logged(b, "security.violation", None), Logged(None, "auth.failure", 404)}

CallTo(name, package) == [name |-> name, package |-> package]
Line(mark, advises) == [mark |-> mark, advises |-> advises]
AnswersUsed ==
    LET vulnerabilities == CallTo("get_vulnerabilities", a)
        license == CallTo("check_license", b)
        search == CallTo("search", None)
        advice == <<Line("dash", TRUE), Line("one digit", TRUE)>>
        bullets == <<Line("bullet", TRUE)>>
        Answer(made, said) == [calls |-> made, texts |-> said]
    IN  {Answer(<<>>, <<>>), Answer(<<>>, <<advice>>), Answer(<<>>, <<bullets, advice>>),
         Answer(<<>>, <<advice, bullets>>), Answer(<<search>>, <<advice>>),
         Answer(<<vulnerabilities, license>>, <<>>),
         Answer(<<license, vulnerabilities, vulnerabilities>>, <<>>), Answer(<<vulnerabilities>>, <<>>)}
OutcomesUsed ==
    {[ok |-> TRUE, findings |-> <<v>>], [ok |-> TRUE, findings |-> <<>>], [ok |-> FALSE, findings |-> <<>>]}

ProvidersUsed == <<"tei", "openai">>

-----------------------------------------------------------------------------
Init ==
    /\ area \in SupplyAreas \cup {"api"} \cup ReadAreas \cup WorkAreas
    /\ SupplyInit /\ ApiInit /\ ReadInit /\ WorkInit
    /\ area # "prediction" => release.old = None
    /\ area # "stream" => rows = 0 /\ maximum = 0

Next ==
    \/ SupplyNext /\ UNCHANGED <<apiVars, readVars, workVars>>
    \/ ApiNext /\ UNCHANGED <<supplyVars, readVars, workVars>>
    \/ ReadNext /\ UNCHANGED <<supplyVars, apiVars, workVars>>
    \/ WorkNext /\ UNCHANGED <<supplyVars, apiVars, readVars>>

vars == <<supplyVars, apiVars, readVars, workVars>>
Spec == Init /\ [][Next]_vars

\* Who is better is judged no worse, and who does more is held for no safer: a
\* package that is bettered in one thing by any rule of a policy, nested as it
\* may be, nor by its scorecard; a finding that is worse has no lower risk; a
\* release that changes more is no less likely to break (policy.rs,
\* scorecard.rs, vulnerability.rs, feature_extraction.rs,
\* breaking_change_predictor.rs).
NeverJudgedWorse ==
    [][/\ area = "assessment" => Assess!JudgedNoWorse
       /\ area = "prediction" => Predictions!MoreIsNotSafer]_<<area, assessmentVars, predictionVars>>

\* What changed between two versions of a source is told when it breaks its
\* users, and nothing is when it does not (ast_parser.rs, breaking_detector.rs).
ChangesTold == area = "api" => Api!RemovalsTold /\ Api!QuietWhenCompatible

\* A client that follows the cursors of a list that does not change reads
\* every row of it, in order (gql/query.rs: reverse_dependents and its
\* extended form, vulnerabilities, audit_events).
PagesComplete ==
    /\ area = "graph" => Graph!PagesComplete
    /\ area = "findings" => Found!PagesComplete
    /\ area = "trail" => Trail!PagesComplete

\* What two readings of the same things say of them agrees. An expression is
\* read as it is written and satisfied by what is chosen, an SBOM tells the
\* same in both formats, VEX answers with the last word, provenance is as good
\* as its defects allow, reports add up over any periods (license.rs, sbom.rs,
\* vex.rs, provenance.rs, audit.rs); counts agree with lists, depths with
\* paths, badges with findings, pages with ranks (graph/queries.rs,
\* gql/query.rs, services/osv.rs).
AnswersAgree ==
    /\ area = "assessment" => Assess!ProvenanceHolds
    /\ area = "licenses" => License!ReadAgain /\ License!ChoiceSatisfies /\ License!ComplianceSatisfies
    /\ area = "vex" => Vexes!LastWordCounts /\ Vexes!CountsAddUp
    /\ area = "sbom" => Sboms!SameDependencies /\ Sboms!RefsResolve
    /\ area = "audit" => Audit!ReportsAddUp
    /\ area = "graph" => Graph!AnswersAgree
    /\ area = "semantic" => Semantic!RanksHold
    /\ area = "findings" => Found!FindingsAgree
    /\ area = "trail" => Trail!ReportAgrees
=============================================================================
