----------------------------- MODULE GraphReads -----------------------------
(***************************************************************************)
(* What the API reads of the dependency graph of one tenant: the Cypher    *)
(* queries (graph/queries.rs), the resolvers that run them (gql/query.rs)  *)
(* and the loaders of packages (gql/loaders.rs).  The graph is what the    *)
(* graph writer leaves: a version belongs to a package and depends on      *)
(* packages, each of which its package then depends on as well; it does    *)
(* not change while a client follows the pages of one question.  A package *)
(* is its id; Name gives the letters of its name.  Rows that a query leaves*)
(* in no order come in that of their ids.                                  *)
(***************************************************************************)
EXTENDS Connections, FiniteSets, FiniteSetsExt

CONSTANTS
    Packages,         \* ids, numbered in their order
    Name, Ecosystem,  \* of each package
    Required,         \* the sets of packages a version may depend on
    Queries,          \* the letters that are searched for
    MaxTraversalDepth, MaxPathHops,  \* guardrails
    MaxVersions, MaxChanges          \* bounds on the growth of the graph

VARIABLES
    versions,  \* [package, published, yanked, requires]
    deleted    \* packages with a deleted_at

vars == <<versions, deleted>>

DependsOnPkg == UNION {{ver.package} \X ver.requires : ver \in versions}

-----------------------------------------------------------------------------
(* Cypher. *)

\* The paths from p of at most hops relationships, none taken twice.
RECURSIVE Trails(_, _, _)
Trails(p, hops, edges) ==
    IF hops = 0 THEN {}
    ELSE UNION {{<<e>>} \cup {<<e>> \o rest : rest \in Trails(e[2], hops - 1, edges \ {e})} :
                    e \in {f \in edges : f[1] = p}}

Paths(from, to, hops) == {path \in Trails(from, hops, DependsOnPkg) : Last(path)[2] = to}
Nodes(path) == <<path[1][1]>> \o [i \in DOMAIN path |-> path[i][2]]

TraversalDepth(depth) == Clamp(depth, 1, 10)
PathHops(hops) == Clamp(hops, 1, 10)

\* ORDER BY of names, by letter.
NameBefore(p, q) ==
    \E i \in DOMAIN Name[q] :
        /\ i - 1 <= Len(Name[p])
        /\ SubSeq(Name[p], 1, i - 1) = SubSeq(Name[q], 1, i - 1)
        /\ i - 1 = Len(Name[p]) \/ Name[p][i] < Name[q][i]
ByName(p, q) == NameBefore(p, q) \/ (Name[p] = Name[q] /\ p < q)
ByDepth(r, s) == r.depth < s.depth \/ (r.depth = s.depth /\ ByName(r.package, s.package))

\* Depth as it would be by max(length(path)): Farthest.
Farthest(paths) == Max({Len(path) : path \in paths})
Depth(paths) == Min({Len(path) : path \in paths})

\* WITH dep, min(length(path)) AS depth
Dependents(target, maxDepth) ==
    LET trails == [p \in Packages \ (deleted \cup {target}) |->
                      Paths(p, target, TraversalDepth(maxDepth))]
    IN  {[package |-> p, depth |-> Depth(trails[p])] :
            p \in {q \in DOMAIN trails : trails[q] # {}}}

OfRelationship(rows, relationship) ==
    CASE relationship = "DIRECT" -> {r \in rows : r.depth = 1}
      [] relationship = "TRANSITIVE" -> {r \in rows : r.depth > 1}
      [] OTHER -> rows
Badged(row) ==
    [package |-> row.package, depth |-> row.depth, introducedBy |-> <<>>,
     relationship |-> IF row.depth = 1 THEN "DIRECT" ELSE "TRANSITIVE"]

\* count(DISTINCT dep), without the depths.
DependentsCount(target, maxDepth) ==
    Cardinality({p \in Packages \ (deleted \cup {target}) :
                    Paths(p, target, TraversalDepth(maxDepth)) # {}})
Summary(rows) ==
    [impacted |-> Cardinality(rows), direct |-> Cardinality({r \in rows : r.depth = 1}),
     transitive |-> Cardinality({r \in rows : r.depth > 1})]
DepthBuckets(rows) == [d \in {r.depth : r \in rows} |-> Cardinality({r \in rows : r.depth = d})]

Current(p) == {ver \in versions : ver.package = p /\ ~ver.yanked}
DependenciesOf(p) ==
    {d \in UNION {ver.requires : ver \in {u \in versions : u.package = p}} \ deleted : d # p}

Shortest(paths) == CHOOSE path \in paths : \A other \in paths : Len(path) <= Len(other)
ByLength(paths) == Sorted(paths, LAMBDA path, other : Len(path) < Len(other))

\* Without a version the second MATCH leaves no row for the first count.
Totals ==
    [packages |-> IF versions = {} THEN 0 ELSE Cardinality(Packages),
     versions |-> Cardinality(versions),
     dependencies |-> MapThenSumSet(LAMBDA ver : Cardinality(ver.requires), versions),
     pkgDependencies |-> Cardinality(DependsOnPkg)]
EcosystemBreakdown ==
    [eco \in {Ecosystem[p] : p \in Packages \ deleted} |->
        Cardinality({p \in Packages \ deleted : Ecosystem[p] = eco})]

HasLetters(name, letters) ==
    \E i \in 0 .. Len(name) - Len(letters) : SubSeq(name, i + 1, i + Len(letters)) = letters
Matching(letters, eco) ==
    {p \in Packages \ deleted : HasLetters(Name[p], letters) /\ eco \in {None, Ecosystem[p]}}

\* The name itself before those that only hold it, the shorter ones first.
Ranked(letters, eco) ==
    Sorted(Matching(letters, eco), LAMBDA p, q :
        \/ Name[p] = letters /\ Name[q] # letters
        \/ (Name[p] = letters <=> Name[q] = letters)
            /\ (Len(Name[p]) < Len(Name[q]) \/ (Len(Name[p]) = Len(Name[q]) /\ p < q)))

-----------------------------------------------------------------------------
(* The loaders: what is deleted, or unknown, is left out; every package has a *)
(* list of dependencies.                                                      *)

PackagesBatch(keys) == keys \cap (Packages \ deleted)
Loaded(ids) == SelectSeq(ids, LAMBDA p : p \in PackagesBatch(ToSet(ids)))
DependenciesBatch(keys) == [p \in keys |-> DependenciesOf(p)]
VersionsBatch(ids) == {ver \in versions : <<ver.package, ver.published>> \in ids}

-----------------------------------------------------------------------------
(* The resolvers. *)

Package(id) == IF id \in Packages \ deleted THEN id ELSE None

ReverseDependents(target, maxDepth, first, after) ==
    LET depth == Least(maxDepth, MaxTraversalDepth)
    IN  PageBehind(Sorted(Dependents(target, depth), ByDepth), first, after,
                   DependentsCount(target, depth))

ReverseDependentsExtended(target, maxDepth, relationship, first, after) ==
    LET rows == OfRelationship(Dependents(target, Least(maxDepth, MaxTraversalDepth)), relationship)
    IN  PageBehind(Sorted({Badged(row) : row \in rows}, ByDepth), first, after, Cardinality(rows))

DependencyPath(from, to, maxHops) ==
    LET paths == Paths(from, to, PathHops(Least(maxHops, MaxPathHops)))
    IN  IF paths = {} THEN [found |-> FALSE, hops |-> 0, packages |-> <<>>]
        ELSE [found |-> TRUE, hops |-> Len(Shortest(paths)), packages |-> Loaded(Nodes(Shortest(paths)))]

TransitivePaths(from, to, limit) ==
    LET rows == Sequential(ByLength(Paths(from, to, 5)), 0, ResultLimit(Least(limit, 10)))
    IN  [i \in DOMAIN rows |-> [packages |-> Loaded(Nodes(rows[i])), length |-> Len(rows[i])]]

ImpactRadius(target, maxDepth, limit) ==
    LET depth == Least(maxDepth, MaxTraversalDepth)
        rows == Dependents(target, depth)
        counted == DependentsCount(target, depth)
    IN  [impactedPackages |-> Max({Summary(rows).impacted, counted}),
         direct |-> Summary(rows).direct, transitive |-> Summary(rows).transitive,
         impactedVersions |-> MapThenSumSet(LAMBDA r : Cardinality(Current(r.package)), rows),
         buckets |-> DepthBuckets(rows),
         top |-> Sequential(Sorted(rows, ByDepth), 0, ResultLimit(Least(limit, MaxResults)))]

Versions(p, limit) ==
    Sequential(Sorted(Current(p), LAMBDA s, t : s.published > t.published),
               0, ResultLimit(Least(limit, MaxResults)))

Dependencies(p, limit) ==
    Sequential(Sorted(DependenciesOf(p), ByName), 0, ResultLimit(Least(limit, MaxResults)))

GraphStats == [totals |-> Totals, ecosystems |-> EcosystemBreakdown]

\* The query knows nothing of the cursor: every page is the first one.
SearchPackages(letters, eco, first, after) ==
    LET limit == Least(first, MaxResults)
        fetched == Sequential(Ranked(letters, eco), 0, limit + 1)
    IN  Connection(Taken(fetched, limit), AtCursor(after), Len(fetched) > limit,
                   Cardinality(Matching(letters, eco)))

-----------------------------------------------------------------------------
(* The graph writer. *)

Init == versions = {} /\ deleted = {}

Changes == Cardinality(versions) + Cardinality({ver \in versions : ver.yanked}) + Cardinality(deleted)

Publish(p, requires) ==
    /\ Cardinality(versions) < MaxVersions
    /\ versions' = versions \cup
         {[package |-> p, published |-> Cardinality({ver \in versions : ver.package = p}),
           yanked |-> FALSE, requires |-> requires]}
    /\ UNCHANGED deleted

Yank(ver) ==
    /\ versions' = (versions \ {ver}) \cup {[ver EXCEPT !.yanked = TRUE]}
    /\ UNCHANGED deleted

Delete(p) == deleted' = deleted \cup {p} /\ UNCHANGED versions

Next ==
    /\ Changes < MaxChanges
    /\ \/ \E p \in Packages, requires \in Required : Publish(p, requires)
       \/ \E ver \in versions : ~ver.yanked /\ Yank(ver)
       \/ \E p \in Packages \ deleted : Delete(p)

-----------------------------------------------------------------------------
(* What the answers promise. *)

RECURSIVE Within(_, _)
Within(target, k) ==
    IF k = 0 THEN {target}
    ELSE LET near == Within(target, k - 1)
         IN  near \cup {e[1] : e \in {f \in DependsOnPkg : f[2] \in near}}
Reaching(target, k) == Within(target, k) \ (deleted \cup {target})

\* What is said of the dependents of a package by one query is said by all.
DependentsAgree ==
    \A target \in Packages, maxDepth \in 1 .. MaxTraversalDepth + 1 :
        LET depth == Least(maxDepth, MaxTraversalDepth)
            impact == ImpactRadius(target, maxDepth, MaxResults)
            Extended(relationship) ==
                ReverseDependentsExtended(target, maxDepth, relationship, MaxResults, None)
            plain == ReverseDependents(target, maxDepth, MaxResults, None)
        IN  /\ impact.impactedPackages = Cardinality(Reaching(target, depth))
            /\ impact.direct + impact.transitive = plain.totalCount
            /\ MapThenSumSet(LAMBDA d : impact.buckets[d], DOMAIN impact.buckets)
                 = impact.impactedPackages
            /\ impact.top = plain.nodes
            /\ \A i \in DOMAIN plain.nodes :
                  plain.nodes[i].package \in
                      Reaching(target, plain.nodes[i].depth) \ Reaching(target, plain.nodes[i].depth - 1)
            /\ Extended("DIRECT").totalCount = impact.direct
            /\ Extended("TRANSITIVE").totalCount = impact.transitive
            /\ Extended(None).totalCount = plain.totalCount
            /\ target \notin deleted =>
                  {Extended("DIRECT").nodes[i].package : i \in DOMAIN Extended("DIRECT").nodes}
                      = {p \in Packages \ deleted : target \in DependenciesOf(p)}

\* A path is shown exactly when there is one, none is shorter, and it is one
\* of the transitive paths.
PathsAgree ==
    \A from, to \in Packages, hops \in 1 .. MaxPathHops :
        LET found == DependencyPath(from, to, hops)
            all == TransitivePaths(from, to, 10)
            near == {k \in 1 .. hops : \E e \in DependsOnPkg : e[1] = from /\ e[2] \in Within(to, k - 1)}
        IN  /\ found.found <=> near # {}
            /\ found.found => found.hops = Min(near)
            /\ found.found /\ found.hops <= 5 =>
                  \E i \in DOMAIN all : all[i].length = found.hops /\ all[1].length = found.hops
            /\ found.found /\ deleted = {} => Len(found.packages) = found.hops + 1

SearchAgrees ==
    \A letters \in Queries, eco \in {None} \cup {Ecosystem[p] : p \in Packages} :
        LET page == SearchPackages(letters, eco, 1, None)
        IN  /\ page.nodes = <<>> <=> page.totalCount = 0
            /\ \A p \in Matching(letters, eco) : Name[p] = letters => Name[page.nodes[1]] = letters

\* What is loaded in batches is what is read one by one, and the totals add up.
LoadersAgree ==
    /\ \A p \in Packages :
          /\ DependenciesBatch(Packages)[p] = ToSet(Dependencies(p, MaxResults))
          /\ ToSet(Versions(p, MaxResults))
               = {ver \in VersionsBatch({p} \X (0 .. MaxVersions)) : ~ver.yanked}
          /\ p \in PackagesBatch(Packages) <=> Package(p) = p
    /\ MapThenSumSet(LAMBDA eco : GraphStats.ecosystems[eco], DOMAIN GraphStats.ecosystems)
         = Cardinality(PackagesBatch(Packages))
    /\ GraphStats.totals.pkgDependencies <= GraphStats.totals.dependencies

AnswersAgree == DependentsAgree /\ PathsAgree /\ SearchAgrees /\ LoadersAgree

\* Following the cursors from the first page to the last shows every dependent
\* once, the nearest first.
PagesComplete ==
    \A target \in Packages, first \in 1 .. 2, relationship \in {None, "DIRECT", "TRANSITIVE"} :
        LET Plain(after) == ReverseDependents(target, MaxTraversalDepth, first, after)
            Extended(after) ==
                ReverseDependentsExtended(target, MaxTraversalDepth, relationship, first, after)
            all == ReverseDependents(target, MaxTraversalDepth, MaxResults, None).nodes
            badged == ReverseDependentsExtended(target, MaxTraversalDepth, relationship,
                                                MaxResults, None).nodes
        IN  /\ EachOnce(Followed(Plain, all), all, first)
            /\ EachOnce(Followed(Extended, badged), badged, first)
            /\ \A i \in 1 .. Len(all) - 1 : all[i].depth <= all[i + 1].depth
=============================================================================
