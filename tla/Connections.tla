---------------------------- MODULE Connections ----------------------------
(***************************************************************************)
(* How the resolvers of the API cut their rows into pages (gql/query.rs).  *)
(* The cursor of an edge is the base64 of its offset; it stands here for   *)
(* the offset, and one that does not decode for None.                      *)
(***************************************************************************)
EXTENDS Integers, Sequences, SequencesExt

CONSTANTS None, MaxResults

MaxResultsAssumption == MaxResults \in 1 .. 100000

Least(i, j) == IF i < j THEN i ELSE j
Clamp(i, low, high) == IF i < low THEN low ELSE Least(i, high)
Sequential(rows, skip, limit) == SubSeq(rows, skip + 1, Least(skip + limit, Len(rows)))

\* ORDER BY
Sorted(rows, Before(_, _)) ==
    SortSeq(FoldSet(LAMBDA row, listed : Append(listed, row), <<>>, rows), Before)

\* A LIMIT of a query, and take(n as usize) of the rows that it gave: a
\* negative n is a huge usize.
ResultLimit(limit) == Clamp(limit, 1, 100000)
Taken(rows, n) == IF n < 0 THEN rows ELSE Sequential(rows, 0, n)

Connection(rows, offset, more, total) ==
    [nodes |-> rows, hasNextPage |-> more, hasPreviousPage |-> offset > 0,
     endCursor |-> IF rows = <<>> THEN None ELSE offset + Len(rows) - 1, totalCount |-> total]

\* A page that starts behind the cursor and asks for one row more than it holds.
\* Offset as the other resolvers have it: AtCursor.
AtCursor(after) == IF after = None THEN 0 ELSE after
Offset(after) == IF after = None THEN 0 ELSE after + 1
PageBehind(rows, first, after, total) ==
    LET limit == Least(first, MaxResults)
        fetched == Sequential(rows, Offset(after), ResultLimit(limit + 1))
    IN  Connection(Taken(fetched, limit), Offset(after), Len(fetched) > limit, total)

\* A page that starts at the cursor, its last row repeated, of rows that have
\* been counted.
PageAt(rows, first, after) ==
    LET offset == AtCursor(after)
        window == Sequential(rows, offset, Least(first, 100))
    IN  Connection(window, offset, offset + Len(window) < Len(rows), Len(rows))

-----------------------------------------------------------------------------
\* What a client reads that follows the cursors of page, at most so many pages.
Follow(page, most) ==
    LET read[after \in DOMAIN page, n \in 1 .. most] ==
            <<page[after]>>
              \o IF n > 1 /\ page[after].hasNextPage /\ page[after].endCursor # None
                 THEN read[page[after].endCursor, n - 1] ELSE <<>>
    IN  read[None, most]

Followed(Page(_), rows) ==
    Follow([after \in {None} \cup 0 .. Len(rows) |-> Page(after)], Len(rows) + 2)

\* Its pages hold the rows in order, none missed and none twice.
EachOnce(pages, rows, first) ==
    /\ FlattenSeq([i \in DOMAIN pages |-> pages[i].nodes]) = rows
    /\ \A i \in DOMAIN pages :
          /\ pages[i].totalCount = Len(rows)
          /\ pages[i].hasNextPage <=> i < Len(pages)
          /\ i < Len(pages) => Len(pages[i].nodes) = first

\* The same when each page begins with the last row of the one before.
Overlapping(pages, rows) ==
    FlattenSeq([i \in DOMAIN pages |-> IF i = 1 THEN pages[i].nodes ELSE Tail(pages[i].nodes)]) = rows
=============================================================================
