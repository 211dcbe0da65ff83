--------------------------- MODULE SemanticSearch ---------------------------
(***************************************************************************)
(* The search for packages by the vectors of their symbols (resolver       *)
(* semantic_search_packages of gql/query.rs): the points that come nearest *)
(* to the query, several of which may belong to one package, are asked for *)
(* in growing numbers until enough packages are among them.                *)
(***************************************************************************)
EXTENDS Connections, FiniteSets, FiniteSetsExt

CONSTANTS
    Packages, Ecosystem,
    Deleted,        \* packages with points that the graph does not show
    MaxPoints,      \* bound on the points
    Overfetch, LeastPoints,             \* 5 and 20: the points asked for at first
    MostFactor, LeastMost, MostPoints   \* 50, 200 and 10000: the most that are

VARIABLE hits   \* what Qdrant finds, the nearest first: [package, score]

Greater(i, j) == IF i < j THEN j ELSE i
Search(topK) == Sequential(hits, 0, topK)

\* The best score of each package of the ecosystem among the points.
BestScores(points, eco) ==
    LET ofEco == {i \in DOMAIN points : eco \in {None, Ecosystem[points[i].package]}}
    IN  [p \in {points[i].package : i \in ofEco} |->
            Max({points[i].score : i \in {j \in ofEco : points[j].package = p}})]

Ordered(best) == Sorted(DOMAIN best, LAMBDA p, q : best[p] > best[q] \/ (best[p] = best[q] /\ p < q))

\* Three attempts, the last of which doubles topK once more.
RECURSIVE Attempt(_, _, _, _, _)
Attempt(n, topK, most, needed, eco) ==
    LET points == Search(topK)
        best == BestScores(points, eco)
        hasMore == Len(points) >= topK
        enough == Cardinality(DOMAIN best) > needed
    IN  IF enough \/ ~hasMore \/ topK >= most
        THEN [best |-> best, hasMore |-> hasMore, atMost |-> topK >= most]
        ELSE IF n = 3 THEN [best |-> best, hasMore |-> TRUE, atMost |-> Least(2 * topK, most) = most]
        ELSE Attempt(n + 1, Least(2 * topK, most), most, needed, eco)

SemanticSearchPackages(eco, first, after) ==
    LET limit == Least(first, MaxResults)
        offset == AtCursor(after)
        needed == Greater(offset + limit + 1, 0)
        most == Least(Greater(needed * MostFactor, LeastMost), MostPoints)
        answer == Attempt(1, Greater(needed * Overfetch, LeastPoints), most, needed, eco)
        ordered == Ordered(answer.best)
        page == Sequential(ordered, offset, Greater(limit, 0))
        loaded == {i \in DOMAIN page : page[i] \notin Deleted}
    IN  [nodes |-> SelectSeq(page, LAMBDA p : p \notin Deleted),
         scores |-> answer.best,
         complete |-> ~answer.hasMore,
         hasNextPage |-> Len(ordered) > offset + limit \/ (answer.hasMore /\ answer.atMost),
         endCursor |-> IF loaded = {} THEN None ELSE offset + Max(loaded) - 1]

-----------------------------------------------------------------------------
Init == hits = <<>>

Index(p, score) ==
    /\ Len(hits) < MaxPoints
    /\ hits # <<>> => score <= Last(hits).score
    /\ hits' = Append(hits, [package |-> p, score |-> score])

Next == \E p \in Packages, score \in 1 .. 3 : Index(p, score)

\* A page holds the packages of its ranks among all the points, best first and
\* each once, as soon as no point was left out.
RanksHold ==
    \A eco \in {None} \cup {Ecosystem[p] : p \in Packages}, first \in 0 .. 2, after \in {None, 0, 1} :
        LET page == SemanticSearchPackages(eco, first, after)
            all == Ordered(BestScores(hits, eco))
        IN  /\ \A i, j \in DOMAIN page.nodes : i < j =>
                  /\ page.nodes[i] # page.nodes[j]
                  /\ page.scores[page.nodes[i]] >= page.scores[page.nodes[j]]
            /\ \A i \in DOMAIN page.nodes :
                  \E k \in DOMAIN hits : hits[k] = [package |-> page.nodes[i],
                                                    score |-> page.scores[page.nodes[i]]]
                      /\ \A l \in 1 .. k - 1 : hits[l].package # page.nodes[i]
            /\ page.complete =>
                  /\ page.nodes = SelectSeq(Sequential(all, AtCursor(after), first),
                                            LAMBDA p : p \notin Deleted)
                  /\ page.hasNextPage <=> Len(all) > AtCursor(after) + first
=============================================================================
