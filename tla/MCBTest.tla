------------------------------ MODULE MCBTest ------------------------------
(* Command lines of the puzzle harness for TLC. *)
EXTENDS BTest

Name(n) == [flag |-> "f", arg |-> n]
Weight(n) == [flag |-> "r", arg |-> n]
Limit(n) == [flag |-> "T", arg |-> n]
Val(k, n) == [flag |-> "val", k |-> k, arg |-> [float |-> FALSE, clean |-> TRUE, num |-> n]]
FloatVal(k, n, clean) == [flag |-> "val", k |-> k, arg |-> [float |-> TRUE, clean |-> clean, num |-> n]]

\* All puzzles: with the second argument 3, with one that is out of range, with
\* equal weights and the first argument 0, for which test_ilog2 hangs, with TMin,
\* and without a time limit.
AllPuzzles == {<<Val(2, 3)>>, <<Val(2, W)>>, <<Weight(3), Val(1, 0)>>, <<Val(1, TMin)>>, <<Val(1, 0), Limit(0)>>}

\* One puzzle: sampled values and all pairs of random ones; every float; names
\* that are not in the table.
OnePuzzle ==
    {<<Name(test_set[k].name)>> : k \in DOMAIN test_set}
    \cup {<<Name(n), Val(1, v)>> : n \in {"float_neg", "float_i2f", "float_twice"}, v \in TMin..TMax}
    \cup {<<Name("bitXor")>>, <<Name("")>>, <<Name("isLessOrEqual"), FloatVal(1, 112, TRUE), Val(2, 200)>>}

\* Command lines that are refused: help, a negative weight, a number out of range,
\* text after a float, and a second value for the same argument.
BadLines == {<<[flag |-> "g"], [flag |-> "h"]>>, <<Weight(-1)>>, <<Val(1, 2^(W + 1))>>,
             <<FloatVal(1, 1, FALSE)>>, <<Val(1, 5), Val(1, 7)>>}

Lines == AllPuzzles \cup OnePuzzle \cup BadLines
NoOptions == {<<>>}
=============================================================================
