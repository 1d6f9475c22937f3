----------------------------- MODULE FreeIndex -----------------------------
(***************************************************************************)
(* What the allocator of malloclab-handout/mm.c expects of the index of    *)
(* its free segments: a set of segments, each known by its size and its    *)
(* address, that answers which segment fits a request best.                *)
(***************************************************************************)
EXTENDS Integers

\* mm_cmp_node: by size, and among segments of one size by address.
mm_cmp_node(x, y) == IF x[1] = y[1] THEN x[2] < y[2] ELSE x[1] < y[1]

Fitting(S, size) == {k \in S : size <= k[1]}

\* The segment of S that fits a request of size best: the least one that is
\* large enough.  There is one when Fitting(S, size) is not empty.
BestFit(S, size) ==
    CHOOSE k \in Fitting(S, size) : \A m \in Fitting(S, size) : m = k \/ mm_cmp_node(k, m)

-----------------------------------------------------------------------------
CONSTANT Segments       \* the pairs <<size, address>> a segment can be

VARIABLE free           \* the free segments

Init == free = {}

Insert(k) == k \notin free /\ free' = free \cup {k}

Delete(k) == k \in free /\ free' = free \ {k}

Next == \E k \in Segments : Insert(k) \/ Delete(k)

Spec == Init /\ [][Next]_free
=============================================================================
