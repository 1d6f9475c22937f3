------------------------------- MODULE MCTsh -------------------------------
(* Small instances of the shell for TLC. *)
EXTENDS Tsh, TLC

CONSTANTS p1, p2

OnePid == {p1}
TwoPids == {p1, p2}

\* Process ids are interchangeable (safety runs only).
PidSymmetry == Permutations(Pids)
=============================================================================
