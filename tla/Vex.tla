--------------------------------- MODULE Vex ---------------------------------
(***************************************************************************)
(* VEX documents and their analyzer (packages/models/src/vex.rs): a        *)
(* statement says of a vulnerability whether a product is affected, and    *)
(* the analyzer answers with the last one that it was given.               *)
(***************************************************************************)
EXTENDS Integers, Sequences, SequencesExt, FiniteSets

CONSTANTS Vulnerabilities, Products,
          Analyses,       \* [kind, detail] : the outcomes of an analysis
          MaxStatements,  \* bound
          None

VARIABLES documents,      \* of the analyzer, in the order they were added
          cache,          \* the statement of each vulnerability and product
          draft           \* the document that is being written

Pairs == Vulnerabilities \X Products

\* generate_statement: the status, the justification and the action that an
\* analysis leads to.
GenerateStatement(pair, a) ==
    [pair |-> pair,
     status |-> a.kind,
     justification |-> IF a.kind = "not_affected" THEN a.detail ELSE None,
     impact |-> IF a.kind = "affected" THEN a.detail ELSE None,
     release |-> IF a.kind = "fixed" THEN a.detail ELSE None]

FindByVulnerability(d, v) == SelectSeq(d, LAMBDA s : s.pair[1] = v)
FindByProduct(d, p) == SelectSeq(d, LAMBDA s : s.pair[2] = p)

Statuses == {"not_affected", "affected", "fixed", "under_investigation"}

\* statistics: the counts of a document.
Statistics(d) ==
    [total |-> Len(d),
     byStatus |-> [s \in Statuses |-> Cardinality({i \in DOMAIN d : d[i].status = s})],
     byJustification |->
        [j \in {a.detail : a \in {b \in Analyses : b.kind = "not_affected"}} |->
            Cardinality({i \in DOMAIN d : d[i].justification = j})]]

-----------------------------------------------------------------------------
\* is_exploitable
Exploitable(pair) ==
    IF cache[pair] = None THEN [kind |-> "unknown", detail |-> None]
    ELSE LET s == cache[pair]
         IN CASE s.status = "not_affected" -> [kind |-> "not_exploitable", detail |-> s.justification]
              [] s.status = "affected" -> [kind |-> "exploitable", detail |-> s.impact]
              [] s.status = "fixed" -> [kind |-> "fixed", detail |-> s.release]
              [] s.status = "under_investigation" -> [kind |-> "unknown", detail |-> None]

Init ==
    /\ documents = <<>> /\ draft = <<>>
    /\ cache = [pair \in Pairs |-> None]

Written == FoldSeq(LAMBDA d, n : n + Len(d), 0, documents) + Len(draft)

\* add_statement
AddStatement(pair, a) ==
    /\ Written < MaxStatements
    /\ draft' = Append(draft, GenerateStatement(pair, a))
    /\ UNCHANGED <<documents, cache>>

\* add_document: its statements replace what the cache holds, one by one.
AddDocument ==
    /\ draft # <<>>
    /\ documents' = Append(documents, draft)
    /\ cache' = FoldLeft(LAMBDA c, s : [c EXCEPT ![s.pair] = s], cache, draft)
    /\ draft' = <<>>

Next == (\E pair \in Pairs, a \in Analyses : AddStatement(pair, a)) \/ AddDocument

-----------------------------------------------------------------------------
All == FlattenSeq(documents)
Of(pair) == SelectSeq(All, LAMBDA s : s.pair = pair)

\* What the analyzer answers is the outcome of the last analysis of the
\* vulnerability and product that was told to it, in whatever documents; an
\* investigation under way is no answer.
LastWordCounts ==
    \A pair \in Pairs :
        /\ (cache[pair] = None) = (Of(pair) = <<>>)
        /\ Of(pair) # <<>> =>
              \E a \in Analyses :
                 /\ Last(Of(pair)) = GenerateStatement(pair, a)
                 /\ a.kind = "under_investigation" => Exploitable(pair).kind = "unknown"
                 /\ a.kind # "under_investigation" => Exploitable(pair).detail = a.detail
                 /\ (a.kind \in {"not_affected", "fixed"}) =
                       (Exploitable(pair).kind \in {"not_exploitable", "fixed"})

\* The statistics of a document add up, and the searches find each statement
\* under its vulnerability and under its product.
CountsAddUp ==
    LET s == Statistics(draft)
        sum(f) == FoldFunction(LAMBDA x, y : x + y, 0, f)
    IN /\ s.total = sum(s.byStatus)
       /\ sum(s.byJustification) = s.byStatus["not_affected"]
       /\ s.total = sum([v \in Vulnerabilities |-> Len(FindByVulnerability(draft, v))])
       /\ s.total = sum([p \in Products |-> Len(FindByProduct(draft, p))])
=============================================================================
