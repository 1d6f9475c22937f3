------------------------------- MODULE BTest -------------------------------
(***************************************************************************)
(* The harness of the bit puzzles, datalab-handout/btest.c, on the table   *)
(* of puzzles of decl.c: it reads its options, and for each puzzle makes   *)
(* test values, arms a timer, compares the puzzle with its reference value *)
(* by value, and adds up the score.                                        *)
(*                                                                         *)
(* SIGALRM may arrive at any step while a timer is pending.  Its handler   *)
(* jumps to where test_function last called sigsetjmp; nothing cancels the *)
(* timer when test_function returns.                                       *)
(***************************************************************************)
EXTENDS Bits

CONSTANTS
    TEST_RANGE,     \* values around each boundary (500000 in the code)
    CommandLines,   \* the sequences of options btest is started with
    MaxLate         \* bound of the model: timeouts of puzzles that do not hang

\* A float gets 12 values for each value of TEST_RANGE, and 4 special ones.
MAX_TEST_VALS == 13 * TEST_RANGE
ASSUME RangeAssumption == TEST_RANGE \in Nat /\ 12 * TEST_RANGE + 4 <= MAX_TEST_VALS
ASSUME LateAssumption == MaxLate \in Nat

\* The options that getopt knows; "val" stands for -1 and -2, with k its number.
IsOption(o) == \/ o.flag = "f" /\ o.arg \in STRING
               \/ o.flag \in {"r", "T"} /\ o.arg \in Int
               \/ o.flag \in {"g", "h"}
               \/ o.flag = "val" /\ o.k \in {1, 2} /\ o.arg.num \in Int

ASSUME LinesAssumption ==
    \A line \in CommandLines : line \in Seq(ToSet(line)) /\ \A o \in ToSet(line) : IsOption(o)

VARIABLES
    argv,           \* the options still to be read
    opt,            \* named (test_fname is not NULL), test_fname, global_rating,
                    \* timeout_limit, has_arg, argval
    pc,             \* where the program is
    cur,            \* the puzzle of test_set
    vals,           \* arg_test_vals: for each argument, what its test values may be
    a,              \* the loop counters a1, a2
    verdict,        \* of the current puzzle: "ok"; or an error: "wrong", "timeout",
                    \* or "undefined", by a test with no defined result
    errors, points, max_points,
    env,            \* envbuf: the call of test_function to jump to, its signal mask
    alarm,          \* the puzzle whose timer is pending, 0 for none
    blocked,        \* whether SIGALRM is blocked
    late            \* how many puzzles that do not hang have timed out

score == <<errors, points, max_points>>
timer == <<env, alarm, blocked, late>>
vars == <<argv, opt, pc, cur, vals, a, verdict, score, timer>>

-----------------------------------------------------------------------------
(* The table of puzzles.                                                   *)

TMin == -(2^(W - 1))
TMax == 2^(W - 1) - 1
Int32 == <<TMin, TMax>>
Bits32 == <<1, 1>>      \* marks an argument that is a float

Puzzle(name, rating, ranges) == [name |-> name, rating |-> rating, ranges |-> ranges]

test_set == <<
    Puzzle("bitAnd", 1, <<Int32, Int32>>),
    Puzzle("getByte", 2, <<Int32, <<0, 3>>>>),
    Puzzle("logicalShift", 3, <<Int32, <<0, W - 1>>>>),
    Puzzle("bitCount", 4, <<Int32>>),
    Puzzle("bang", 4, <<Int32>>),
    Puzzle("tmin", 1, <<>>),
    Puzzle("fitsBits", 2, <<Int32, <<1, W>>>>),
    Puzzle("divpwr2", 2, <<Int32, <<0, W - 2>>>>),
    Puzzle("negate", 2, <<Int32>>),
    Puzzle("isPositive", 3, <<Int32>>),
    Puzzle("isLessOrEqual", 3, <<Int32, Int32>>),
    Puzzle("ilog2", 4, <<<<1, TMax>>>>),
    Puzzle("float_neg", 2, <<Bits32>>),
    Puzzle("float_i2f", 4, <<Bits32>>),
    Puzzle("float_twice", 4, <<Bits32>>) >>

Args(p) == Len(p.ranges)
IsFloat(p) == Bits32 \in ToSet(p.ranges)

\* The two functions of an entry, on the numbers passed for its arguments.
solution_funct(name, v1, v2) ==
    CASE name = "bitAnd" -> bitAnd(Bin(v1), Bin(v2))
      [] name = "getByte" -> getByte(Bin(v1), v2)
      [] name = "logicalShift" -> logicalShift(Bin(v1), v2)
      [] name = "bitCount" -> bitCount(Bin(v1))
      [] name = "bang" -> bang(Bin(v1))
      [] name = "tmin" -> tmin
      [] name = "fitsBits" -> fitsBits(Bin(v1), v2)
      [] name = "divpwr2" -> divpwr2(Bin(v1), v2)
      [] name = "negate" -> negate(Bin(v1))
      [] name = "isPositive" -> isPositive(Bin(v1))
      [] name = "isLessOrEqual" -> isLessOrEqual(Bin(v1), Bin(v2))
      [] name = "ilog2" -> ilog2(Bin(v1))
      [] name = "float_neg" -> float_neg(Bin(v1))
      [] name = "float_i2f" -> float_i2f(Bin(v1))
      [] name = "float_twice" -> float_twice(Bin(v1))

test_funct(name, v1, v2) ==
    CASE name = "bitAnd" -> test_bitAnd(Bin(v1), Bin(v2))
      [] name = "getByte" -> test_getByte(Bin(v1), v2)
      [] name = "logicalShift" -> test_logicalShift(Bin(v1), v2)
      [] name = "bitCount" -> test_bitCount(Bin(v1))
      [] name = "bang" -> test_bang(Bin(v1))
      [] name = "tmin" -> test_tmin
      [] name = "fitsBits" -> test_fitsBits(Bin(v1), v2)
      [] name = "divpwr2" -> test_divpwr2(Bin(v1), v2)
      [] name = "negate" -> test_negate(Bin(v1))
      [] name = "isPositive" -> test_isPositive(Bin(v1))
      [] name = "isLessOrEqual" -> test_isLessOrEqual(Bin(v1), Bin(v2))
      [] name = "ilog2" -> test_ilog2(Bin(v1))
      [] name = "float_neg" -> test_float_neg(Bin(v1))
      [] name = "float_i2f" -> test_float_i2f(Bin(v1))
      [] name = "float_twice" -> test_float_twice(Bin(v1))

\* No result of the C code is defined for a shift count out of its range, and for
\* fitsBits at the end of its range, where the reference overflows.
Undefined(p, v2) ==
    \/ /\ p.name \in {"getByte", "logicalShift", "fitsBits", "divpwr2"}
       /\ v2 \notin p.ranges[2][1]..p.ranges[2][2]
    \/ p.name = "fitsBits" /\ v2 = W

\* The loop of test_ilog2 finds no bit of 0.
Hangs(name, v1) == name = "ilog2" /\ Bin(v1) = Zero

-----------------------------------------------------------------------------
(* Test values.  An entry of the array is the set of values it may have.   *)

Exactly(s) == [k \in DOMAIN s |-> {s[k]}]

\* random_val: rand() and the rounding of doubles give any value of the range.
random_val(min, max) == min..max

FloatVals(range) ==
    LET smallest_norm == 2^FRAC
        one == Bias * 2^FRAC
        largest_norm == (2^EXP - 2) * 2^FRAC
        inf == (2^EXP - 1) * 2^FRAC
        nan == inf + 2^(FRAC - 1)
        sign == 2^(W - 1)
        n == IF range > 2^FRAC THEN 2^FRAC ELSE range
        around(i) == <<i, sign + i,
                       smallest_norm + i, smallest_norm - i,
                       sign + smallest_norm + i, sign + smallest_norm - i,
                       one + i, one - i, sign + one + i, sign + one - i,
                       largest_norm - i, sign + largest_norm - i>>
    IN Exactly(FlattenSeq([i \in 1..n |-> around(i - 1)]) \o <<inf, sign + inf, nan, sign + nan>>)

MutantZeroAlways(min, max, range) ==
    IF max - MAX_TEST_VALS <= min
    THEN Exactly([k \in 1..max - min + 1 |-> min + k - 1])
    ELSE LET row(i) == Exactly(<<min + i, max - i, i>>)
                           \o Exactly(IF -i \in min..max THEN <<-i>> ELSE <<>>)
                           \o <<random_val(min, max)>>
         IN FlattenSeq([i \in 1..range |-> row(i - 1)])

\* All values of a small range; or else the ones at its ends, around zero, and
\* a random one for each of these.
IntegerVals(min, max, range) ==
    IF max - MAX_TEST_VALS <= min
    THEN Exactly([k \in 1..max - min + 1 |-> min + k - 1])
    ELSE LET row(i) == Exactly(<<min + i, max - i>>)
                           \o Exactly(IF i \in min..max THEN <<i>> ELSE <<>>)
                           \o Exactly(IF -i \in min..max THEN <<-i>> ELSE <<>>)
                           \o <<random_val(min, max)>>
         IN FlattenSeq([i \in 1..range |-> row(i - 1)])

\* The values for argument k of a puzzle.
gen_vals(p, range, k) ==
    IF opt.has_arg[k] THEN <<{opt.argval[k]}>>
    ELSE IF p.ranges[k] = Bits32 THEN FloatVals(range)
    ELSE IntegerVals(p.ranges[k][1], p.ranges[k][2], range)

\* The number of tests is the same for puzzles of one and of two arguments; none
\* of the table has three.
arg_test_range(p) ==
    LET root == CHOOSE r \in 0..TEST_RANGE : r * r <= TEST_RANGE /\ TEST_RANGE < (r + 1) * (r + 1)
    IN IF Args(p) = 1 THEN TEST_RANGE ELSE IF root < 1 THEN 1 ELSE root

-----------------------------------------------------------------------------
(* The options.                                                            *)

Init == /\ argv \in CommandLines
        /\ opt = [named |-> FALSE, test_fname |-> "", global_rating |-> 0, timeout_limit |-> 10,
                  has_arg |-> <<FALSE, FALSE>>, argval |-> <<0, 0>>]
        /\ pc = "getopt" /\ cur = 1 /\ vals = <<>> /\ a = <<1, 1>> /\ verdict = "ok"
        /\ errors = 0 /\ points = 0 /\ max_points = 0
        /\ env = [call |-> 0, masked |-> FALSE] /\ alarm = 0 /\ blocked = FALSE /\ late = 0

\* get_num_val on a text with the value num: a float, or an integer for which
\* the code tests the old value instead of the end of the text.
get_num_val(text, old) ==
    IF text.float THEN text.clean
    ELSE old = 0 /\ text.num \div 2^(W - 1) \in {-1, 0, 1}

\* One option.
Option(o) ==
    CASE o.flag = "f" -> [opt EXCEPT !.named = TRUE, !.test_fname = o.arg]
      [] o.flag = "r" -> [opt EXCEPT !.global_rating = o.arg]
      [] o.flag = "T" -> [opt EXCEPT !.timeout_limit = o.arg]
      [] o.flag = "g" -> opt
      [] o.flag = "val" -> [opt EXCEPT !.has_arg[o.k] = TRUE, !.argval[o.k] = o.arg.num]

\* -h, a negative weight and a bad argument end the program.
Refused(o) == \/ o.flag = "h"
              \/ o.flag = "r" /\ o.arg < 0
              \/ o.flag = "val" /\ ~get_num_val(o.arg, opt.argval[o.k])

GetOpt == /\ pc = "getopt" /\ argv # <<>>
          /\ ~Refused(Head(argv))
          /\ argv' = Tail(argv) /\ opt' = Option(Head(argv))
          /\ UNCHANGED <<pc, cur, vals, a, verdict, score, timer>>

Usage == /\ pc = "getopt" /\ argv # <<>>
         /\ Refused(Head(argv))
         /\ pc' = "exit" /\ argv' = <<>>
         /\ UNCHANGED <<opt, cur, vals, a, verdict, score, timer>>

\* The handler of SIGALRM is installed, and run_tests begins.
RunTests == /\ pc = "getopt" /\ argv = <<>>
            /\ pc' = "next"
            /\ UNCHANGED <<argv, opt, cur, vals, a, verdict, score, timer>>

-----------------------------------------------------------------------------
(* run_tests and test_function.                                            *)

\* The next puzzle that is to be tested, or the end of the table.
NextPuzzle ==
    /\ pc = "next"
    /\ IF cur > Len(test_set) THEN pc' = "done" /\ cur' = cur
       ELSE IF ~opt.named \/ opt.test_fname = test_set[cur].name THEN pc' = "gen" /\ cur' = cur
       ELSE pc' = "next" /\ cur' = cur + 1
    /\ UNCHANGED <<argv, opt, vals, a, verdict, score, timer>>

\* Test values for all arguments; without a time limit the tests begin at once.
GenVals ==
    /\ pc = "gen"
    /\ LET p == test_set[cur]
       IN vals' = [k \in 1..Args(p) |-> gen_vals(p, arg_test_range(p), k)]
    /\ a' = <<1, 1>> /\ verdict' = "ok"
    /\ pc' = IF opt.timeout_limit > 0 THEN "setjmp" ELSE "test"
    /\ UNCHANGED <<argv, opt, cur, score, timer>>

SetJmp == /\ pc = "setjmp"
          /\ env' = [call |-> cur, masked |-> blocked]
          /\ pc' = "alarm"
          /\ UNCHANGED <<argv, opt, cur, vals, a, verdict, score, alarm, blocked, late>>

\* alarm(timeout_limit) replaces a timer that is still pending.
SetAlarm == /\ pc = "alarm"
            /\ alarm' = cur
            /\ pc' = "test"
            /\ UNCHANGED <<argv, opt, cur, vals, a, verdict, score, env, blocked, late>>

\* What argument k of the current test may be; a puzzle without it ignores it.
Values(k) == IF k <= Len(vals) THEN vals[k][a[k]] ELSE {0}

\* What a test of puzzle p with these values can find.
Found(p, v1, v2) ==
    IF Undefined(p, v2) THEN {"ok", "undefined"}
    ELSE IF solution_funct(p.name, v1, v2) = test_funct(p.name, v1, v2) THEN {"ok"}
    ELSE {"wrong"}

\* The tests of the current entries that end.
Results == LET p == test_set[cur]
           IN UNION {Found(p, v1, v2) :
                        v1 \in {v \in Values(1) : ~Hangs(p.name, v)}, v2 \in Values(2)}

\* One pass of the loops over a1 and a2: stop at an error and after the last.
Test(result) ==
    LET last(k) == k > Len(vals) \/ a[k] = Len(vals[k])
    IN /\ verdict' = result
       /\ pc' = IF result # "ok" \/ (last(1) /\ last(2)) THEN "score" ELSE "test"
       /\ a' = IF ~last(2) THEN [a EXCEPT ![2] = @ + 1] ELSE <<a[1] + 1, 1>>
       /\ UNCHANGED <<argv, opt, cur, vals, score, timer>>

MutantScoreForgets ==
    LET rating == IF opt.global_rating # 0 THEN opt.global_rating ELSE test_set[cur].rating
        failed == verdict # "ok"
    IN /\ pc = "score"
       /\ errors' = IF failed THEN errors + 1 ELSE errors
       /\ points' = IF failed THEN points ELSE points + rating
       /\ max_points' = IF failed THEN max_points ELSE max_points + rating
       /\ cur' = cur + 1 /\ pc' = "next"
       /\ UNCHANGED <<argv, opt, vals, a, verdict, timer>>

Score ==
    LET rating == IF opt.global_rating # 0 THEN opt.global_rating ELSE test_set[cur].rating
        failed == verdict # "ok"
    IN /\ pc = "score"
       /\ errors' = IF failed THEN errors + 1 ELSE errors
       /\ points' = IF failed THEN points ELSE points + rating
       /\ max_points' = max_points + rating
       /\ cur' = cur + 1 /\ pc' = "next"
       /\ UNCHANGED <<argv, opt, vals, a, verdict, timer>>

MutantKeepBlocked == /\ verdict' = "timeout" /\ pc' = "score" /\ blocked' = TRUE

\* siglongjmp: back in test_function, which returns 1.  The signal mask is the
\* one sigsetjmp has saved, so SIGALRM, blocked in the handler, is not any more.
Jump == /\ verdict' = "timeout" /\ pc' = "score" /\ blocked' = env.masked

\* The call that envbuf was set in has not returned.
InFrame == env.call = cur /\ pc \in {"alarm", "test"}
Stuck == pc = "test" /\ \E v \in Values(1) : Hangs(test_set[cur].name, v)

\* SIGALRM arrives.  A jump into a call that has returned is undefined.
Timeout ==
    /\ alarm # 0 /\ ~blocked
    /\ pc \notin {"done", "undefined"}
    /\ Stuck \/ late < MaxLate
    /\ IF InFrame THEN Jump ELSE pc' = "undefined" /\ UNCHANGED <<verdict, blocked>>
    /\ alarm' = 0
    /\ late' = IF Stuck THEN late ELSE late + 1
    /\ UNCHANGED <<argv, opt, cur, vals, a, score, env>>

Main == \/ GetOpt \/ Usage \/ RunTests \/ NextPuzzle \/ GenVals \/ SetJmp \/ SetAlarm \/ Score
        \/ pc = "test" /\ \E result \in Results : Test(result)

Next == Main \/ Timeout

\* Where Main is enabled.
Running == pc \notin {"done", "exit", "undefined"} /\ ~Stuck

\* A pending timer goes off, and the program runs on where it can: weak fairness
\* of Main, with Running for ENABLED Main, which would evaluate the puzzles.
Fairness == WF_vars(Timeout) /\ ([]<>~Running \/ []<><<Main>>_vars)

Spec == Init /\ [][Next]_vars /\ Fairness
-----------------------------------------------------------------------------
(* Properties.                                                             *)

\* The integer puzzles of bits.c compute what tests.c says, for every value the
\* harness tests them with (each random value can be any of the range) and for
\* which tests.c says it: an error where C leaves the result open is "undefined".
IntegerPuzzlesRight == pc = "score" /\ verdict = "wrong" => IsFloat(test_set[cur])

\* So do the floating point puzzles: negation, rounding of ints to nearest even,
\* and doubling through denormalized numbers, infinities and NaN.
FloatPuzzlesRight == pc = "score" /\ verdict = "wrong" => ~IsFloat(test_set[cur])

\* gen_vals stays within arg_test_vals, and tests an integer puzzle with values
\* of the range decl.c gives for it only, unless the user asked for another.
ValuesFit ==
    pc \in {"setjmp", "alarm", "test"} =>
        \A k \in DOMAIN vals :
            LET range == test_set[cur].ranges[k]
            IN /\ Len(vals[k]) \in 1..MAX_TEST_VALS
               /\ ~opt.has_arg[k] /\ range # Bits32 =>
                    \A j \in DOMAIN vals[k] : vals[k][j] \subseteq range[1]..range[2]

\* Timeouts and all, each puzzle that was asked for is scored once: the points
\* that are missing from the total are those of the errors.
EveryPuzzleScored ==
    LET asked == {k \in DOMAIN test_set : ~opt.named \/ opt.test_fname = test_set[k].name}
        weight(k) == IF opt.global_rating # 0 THEN opt.global_rating ELSE test_set[k].rating
    IN pc = "done" =>
        /\ max_points = FoldSet(LAMBDA k, sum : sum + weight(k), 0, asked)
        /\ points <= max_points /\ (points = max_points <=> errors = 0)
        /\ opt.global_rating # 0 => max_points - points = errors * opt.global_rating

\* "Handle infinite loops by setting upper limit on execution time": with a time
\* limit the harness always ends, also with a puzzle that hangs after another
\* one has timed out (or jumps to where undefined behaviour begins).
TestsEnd == (pc = "next" /\ opt.timeout_limit > 0) ~> pc \in {"done", "undefined"}

\* The timer is that of the puzzle being tested: "control will reach here if
\* there is a timeout" of the function that is then reported.
TimeoutOfCurrent == [][alarm # 0 /\ alarm' = 0 => pc = "test" /\ alarm = cur]_vars
=============================================================================
