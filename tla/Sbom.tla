-------------------------------- MODULE Sbom --------------------------------
(***************************************************************************)
(* SBOM documents of a project (packages/models/src/sbom.rs): the same     *)
(* packages, dependencies and vulnerabilities, told in SPDX and in         *)
(* CycloneDX.  An id is a sequence of characters; ids of SPDX keep the     *)
(* letters, digits, dots and dashes only.                                  *)
(***************************************************************************)
EXTENDS Integers, Sequences, SequencesExt, FiniteSets, BagsExt

CONSTANTS Packages,          \* ids
          Relations,         \* kinds of dependency
          Plain,             \* characters that sanitize_id keeps
          Vulnerable,        \* [v |-> the packages that v affects]
          IncludeVulnerabilities, IncludeHashes,
          MaxDependencies,   \* bound
          None

VARIABLES packages,       \* sequence of [id, ecosystem, hash, cpe, license, direct]
          dependencies    \* sequence of [from, to, relation]

SanitizeId(id) == [i \in DOMAIN id |-> IF id[i] \in Plain THEN id[i] ELSE "-"]

\* generate_purl: the type that a package URL has for an ecosystem.
PurlType(ecosystem) ==
    CASE ecosystem = "npm" -> "npm"
      [] ecosystem \in {"pypi", "py_pi"} -> "pypi"
      [] ecosystem \in {"cargo", "crates"} -> "cargo"
      [] ecosystem = "maven" -> "maven"
      [] ecosystem \in {"nuget", "nu_get"} -> "nuget"
      [] ecosystem \in {"go", "golang"} -> "golang"
      [] OTHER -> "generic"
Purl(p) == <<PurlType(p.ecosystem), p.id>>

Given(x) == IF x = None THEN <<>> ELSE <<x>>
Hashes(p) == IF IncludeHashes THEN Given(p.hash) ELSE <<>>

-----------------------------------------------------------------------------
\* to_spdx_package
ToSpdxPackage(p) ==
    [spdxId |-> SanitizeId(p.id), checksums |-> Hashes(p), license |-> p.license,
     refs |-> <<Purl(p)>> \o Given(p.cpe)]

\* A relation of SPDX has the direction of the dependency, whatever its type.
SpdxType(relation) ==
    CASE relation = "dependsOn" -> "DEPENDS_ON"
      [] relation = "dev" -> "DEV_DEPENDENCY_OF"
      [] relation = "optional" -> "OPTIONAL_DEPENDENCY_OF"
      [] relation = "build" -> "BUILD_TOOL_OF"
ToSpdxRelation(d) ==
    [element |-> SanitizeId(d.from), type |-> SpdxType(d.relation), related |-> SanitizeId(d.to)]

\* generate_spdx: vulnerabilities are not told.
GenerateSpdx ==
    [packages |-> [i \in DOMAIN packages |-> ToSpdxPackage(packages[i])],
     relationships |-> [i \in DOMAIN dependencies |-> ToSpdxRelation(dependencies[i])]]

-----------------------------------------------------------------------------
\* to_cdx_component
ToCdxComponent(p) ==
    [ref |-> p.id, scope |-> IF p.direct THEN "required" ELSE "optional",
     hashes |-> Hashes(p), licenses |-> Given(p.license), cpe |-> p.cpe, purl |-> Purl(p)]

\* to_cdx_vulnerability
ToCdxVulnerability(v) == [ref |-> v, affects |-> Vulnerable[v]]

\* The dependencies grouped by the package that has them, in their order.
Grouped(ds) ==
    [f \in {d.from : d \in ToSet(ds)} |->
        LET of == SelectSeq(ds, LAMBDA d : d.from = f) IN [i \in DOMAIN of |-> of[i].to]]

\* generate_cyclonedx
GenerateCyclonedx ==
    [components |-> [i \in DOMAIN packages |-> ToCdxComponent(packages[i])],
     dependencies |-> Grouped(dependencies),
     vulnerabilities |-> IF IncludeVulnerabilities
                         THEN {ToCdxVulnerability(v) : v \in DOMAIN Vulnerable} ELSE {}]

-----------------------------------------------------------------------------
Init == packages = <<>> /\ dependencies = <<>>

AddPackage(p) ==
    /\ p.id \notin {q.id : q \in ToSet(packages)}
    /\ packages' = Append(packages, p)
    /\ UNCHANGED dependencies

AddDependency(f, t, r) ==
    /\ Len(dependencies) < MaxDependencies /\ f # t
    /\ {f, t} \subseteq {q.id : q \in ToSet(packages)}
    /\ dependencies' = Append(dependencies, [from |-> f, to |-> t, relation |-> r])
    /\ UNCHANGED packages

Next ==
    \/ \E p \in Packages : AddPackage(p)
    \/ \E f, t \in {q.id : q \in Packages}, r \in Relations : AddDependency(f, t, r)

-----------------------------------------------------------------------------
\* The two documents tell the same packages and, as often as the input has
\* them, the same dependencies: the edges of CycloneDX, with their ids
\* sanitised, are those of SPDX.
SameDependencies ==
    LET spdx == GenerateSpdx  cdx == GenerateCyclonedx
        edges == {<<f, i>> : f \in DOMAIN cdx.dependencies, i \in 1 .. MaxDependencies}
        told == {e \in edges : e[2] \in DOMAIN cdx.dependencies[e[1]]}
        times(f, t) == Cardinality({e \in told :
            SanitizeId(e[1]) = f /\ SanitizeId(cdx.dependencies[e[1]][e[2]]) = t})
    IN /\ \A i \in DOMAIN packages :
             /\ spdx.packages[i].spdxId = SanitizeId(cdx.components[i].ref)
             /\ spdx.packages[i].checksums = cdx.components[i].hashes
             /\ cdx.components[i].purl = Head(spdx.packages[i].refs)
       /\ \A r \in ToSet(spdx.relationships) :
             times(r.element, r.related) =
                Cardinality({i \in DOMAIN spdx.relationships :
                    /\ spdx.relationships[i].element = r.element
                    /\ spdx.relationships[i].related = r.related})
       /\ Cardinality(told) = Len(spdx.relationships)

\* What an element of SPDX refers to is one package, but where two ids are the
\* same to SPDX; in CycloneDX it is always one, and a vulnerability that
\* affects a package of the project is told with it.
RefsResolve ==
    LET spdx == GenerateSpdx  cdx == GenerateCyclonedx
        alike(id) == {q \in ToSet(packages) : SanitizeId(q.id) = SanitizeId(id)}
        named(s) == {i \in DOMAIN spdx.packages : spdx.packages[i].spdxId = s}
    IN \A d \in ToSet(dependencies) : \A id \in {d.from, d.to} :
          /\ Cardinality(named(SanitizeId(id))) = Cardinality(alike(id))
          /\ Cardinality({i \in DOMAIN cdx.components : cdx.components[i].ref = id}) = 1
          /\ IncludeVulnerabilities =>
                \A v \in DOMAIN Vulnerable : id \in Vulnerable[v] =>
                    \E w \in cdx.vulnerabilities : w.ref = v /\ id \in w.affects
=============================================================================
