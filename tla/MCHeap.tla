------------------------------- MODULE MCHeap -------------------------------
(* Small instances of the allocator and its driver for TLC. *)
EXTENDS MDriver, TLC

CONSTANTS b1, b2, b3

ThreeBlocks == {b1, b2, b3}

\* The indices of two blocks have the same low byte, and that of the third is
\* negative as a signed char.
Numbers == (b1 :> 1) @@ (b2 :> 257) @@ (b3 :> 200)

\* The two blocks with the same low byte are interchangeable.
BlockSymmetry == Permutations({b1, b2})
=============================================================================
