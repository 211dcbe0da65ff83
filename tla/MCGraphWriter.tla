--------------------------- MODULE MCGraphWriter ---------------------------
(* Instances of GraphWriter for TLC: what the registries' workers emit.    *)
EXTENDS GraphWriter

CONSTANTS p1, p2, v1, v2, events, others

VersionsOfTwo == [v \in {v1, v2} |-> IF v = v1 THEN p1 ELSE p2]
VersionsOfOne == [v \in {v1, v2} |-> p1]

Up(v, D) == [kind |-> "upsert", version |-> v, deps |-> D]
Yk(v)    == [kind |-> "yank", version |-> v]
Del(p)   == [kind |-> "delete", package |-> p]
Other(k) == [kind |-> k]

\* npm: one topic, the events of a package in one partition, versions
\* published, republished with other metadata and yanked.
NpmLog ==
    [p \in {events, others} |->
        IF p = events THEN <<Up(v1, {p2}), Up(v1, {p1}), Yk(v1)>>
        ELSE <<Up(v2, {p1}), Other("garbage")>>]

\* Every kind of record.
MixedLog ==
    [p \in {events, others} |->
        IF p = events THEN <<Up(v1, {p2}), Up(v1, {p1}), Del(p1), Other("unknown")>>
        ELSE <<Other("package"), Yk(v1), Other("empty")>>]
=============================================================================
