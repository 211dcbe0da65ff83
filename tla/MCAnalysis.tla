---------------------------- MODULE MCAnalysis ----------------------------
\* The input of the instances of Analysis.
EXTENDS Analysis, TLC

CONSTANTS w1, w2

Message(kind, pkg, ver, prev) == [kind |-> kind, pkg |-> pkg, ver |-> ver, prev |-> prev]

\* Messages to pass over, three versions of a package, the first twice, and a
\* version of another package.
Events == <<Message("skipped", "p", 1, 0), Message("upsert", "p", 1, 0),
            Message("upsert", "p", 1, 0),
            Message("upsert", "q", 1, 0), Message("upsert", "p", 2, 1),
            Message("upsert", "p", 3, 2), Message("empty", "p", 1, 0)>>
=============================================================================
