---------------------------- MODULE BTestProofs ----------------------------
(***************************************************************************)
(* Proofs about the harness of the bit puzzles, btest.c, for all widths,   *)
(* test ranges and command lines, with timeouts at any step: its score,    *)
(* the arrays of its test values, and that no puzzle is found wrong.       *)
(***************************************************************************)
EXTENDS BTest, BitsProofs

-----------------------------------------------------------------------------
(***************************************************************************)
(* What the score has to be.                                               *)
(***************************************************************************)
Options == UNION {ToSet(line) : line \in CommandLines}

\* The puzzles that are to be tested, and what they are worth.
Asked == {k \in DOMAIN test_set : ~opt.named \/ opt.test_fname = test_set[k].name}
Weights == [k \in Asked |-> IF opt.global_rating # 0 THEN opt.global_rating ELSE test_set[k].rating]

\* Those that run_tests has done with.
Before == {k \in Asked : k < cur}

OptFields == {"named", "test_fname", "global_rating", "timeout_limit", "has_arg", "argval"}
OptOK == opt = [x \in OptFields |-> opt[x]] /\ opt.global_rating \in Nat

InTest == {"gen", "setjmp", "alarm", "test", "score"}

\* Where the program is in the table.
PlaceOK ==
    /\ cur \in 1..Len(test_set) + 1
    /\ pc = "getopt" => cur = 1
    /\ pc \in InTest => cur \in Asked
    /\ pc = "done" => cur = Len(test_set) + 1

\* The score is that of the puzzles before cur.
ScoreOK ==
    /\ errors \in Nat /\ points \in Nat /\ max_points \in Nat
    /\ max_points = Sums(Asked, Weights)[Before]
    /\ points <= max_points
    /\ points = max_points <=> errors = 0
    /\ opt.global_rating # 0 => max_points - points = errors * opt.global_rating

Inv == argv \in Seq(Options) /\ OptOK /\ PlaceOK /\ ScoreOK

\* The table has numbers for ratings.
LEMMA TestSet == /\ Len(test_set) = 15 /\ DOMAIN test_set = 1..15
                 /\ \A k \in DOMAIN test_set : test_set[k].rating \in Nat \ {0}
  BY DEF test_set, Puzzle

LEMMA AskedPlaces == Asked \in SUBSET (1..15)
  BY TestSet DEF Asked

LEMMA Places == PlaceOK => cur \in 1..16
  BY TestSet DEF PlaceOK

LEMMA AllOptions == \A o \in Options : IsOption(o)
  BY LinesAssumption DEF Options

\* Weights are numbers, of which there are finitely many.
LEMMA WeightsOK == OptOK => /\ IsFiniteSet(Asked) /\ Before \in SUBSET Asked
                            /\ Weights \in [Asked -> Nat \ {0}] /\ Weights \in [Asked -> Nat]
<1> SUFFICES ASSUME OptOK PROVE /\ IsFiniteSet(Asked) /\ Before \in SUBSET Asked
                                /\ Weights \in [Asked -> Nat \ {0}] /\ Weights \in [Asked -> Nat]
  OBVIOUS
<1>1. IsFiniteSet(1..15)
  <2>1. 1 \in Int /\ 15 \in Int
    OBVIOUS
  <2> QED BY ONLY <2>1, FS_Interval
<1>2. Asked \subseteq 1..15
  BY TestSet DEF Asked
<1>3. \A k \in Asked : test_set[k].rating \in Nat \ {0}
  BY TestSet DEF Asked
<1>4. Weights \in [Asked -> Nat \ {0}]
  BY <1>3 DEF Weights, OptOK
<1> QED BY <1>1, <1>2, <1>4, FS_Subset DEF Before

\* The sum of all weights is the one that EveryPuzzleScored speaks of.
LEMMA ScoreIsFold ==
    LET asked == {k \in DOMAIN test_set : ~opt.named \/ opt.test_fname = test_set[k].name}
        weight(k) == IF opt.global_rating # 0 THEN opt.global_rating ELSE test_set[k].rating
    IN FoldSet(LAMBDA k, sum : sum + weight(k), 0, asked) = Sums(Asked, Weights)[Asked]
<1> DEFINE weight(k) == IF opt.global_rating # 0 THEN opt.global_rating ELSE test_set[k].rating
           E(f) == [s \in SUBSET Asked |-> IF s = {} THEN 0
                                           ELSE LET x == CHOOSE y \in s : TRUE
                                                IN  f[s \ {x}] + weight(x)]
           F(f) == [s \in SUBSET Asked |-> IF s = {} THEN 0
                                           ELSE LET x == CHOOSE y \in s : TRUE
                                                IN  f[s \ {x}] + Weights[x]]
<1>1. FoldSet(LAMBDA k, sum : sum + weight(k), 0, Asked) = (CHOOSE f : f = E(f))[Asked]
  BY Zenon DEF FoldSet, MapThenFoldSet
<1>2. Sums(Asked, Weights) = CHOOSE f : f = F(f)
  BY Zenon DEF Sums
<1>3. ASSUME NEW f PROVE E(f) = F(f)
  <2>1. \A s \in SUBSET Asked : s # {} => (CHOOSE y \in s : TRUE) \in Asked
    OBVIOUS
  <2>2. \A x \in Asked : Weights[x] = weight(x)
    BY DEF Weights
  <2> HIDE DEF weight
  <2> QED BY <2>1, <2>2
<1> HIDE DEF E, F
<1>4. (CHOOSE f : f = E(f)) = (CHOOSE f : f = F(f))
  BY <1>3, Zenon
<1>5. FoldSet(LAMBDA k, sum : sum + weight(k), 0, Asked) = Sums(Asked, Weights)[Asked]
  BY <1>1, <1>2, <1>4
<1> QED BY <1>5 DEF Asked

-----------------------------------------------------------------------------
(***************************************************************************)
(* The steps.                                                              *)
(***************************************************************************)

\* At the start nothing is counted.
LEMMA Zeros == OptOK /\ cur = 1 => Sums(Asked, Weights)[Before] = 0
<1> SUFFICES ASSUME OptOK, cur = 1 PROVE Sums(Asked, Weights)[Before] = 0
  OBVIOUS
<1>1. Before = {}
  <2>1. \A k \in Asked : k \in 1..15
    BY TestSet DEF Asked
  <2> QED BY <2>1 DEF Before
<1> QED BY <1>1, WeightsOK, SumsAre

LEMMA ZerosNext == OptOK' /\ cur' = 1 => Sums(Asked', Weights')[Before'] = 0
<1>1. (OptOK /\ cur = 1 => Sums(Asked, Weights)[Before] = 0)'
  BY Zeros, PTL
<1>2. (Sums(Asked, Weights)[Before])' = Sums(Asked', Weights')[Before']
  BY DEF Sums
<1> QED BY <1>1, <1>2

LEMMA InitInv == Init => Inv
<1> SUFFICES ASSUME Init PROVE Inv
  OBVIOUS
<1>1. OptOK
  BY DEF Init, OptOK, OptFields
<1>2. pc = "getopt" /\ cur = 1 /\ errors = 0 /\ points = 0 /\ max_points = 0
  BY DEF Init
<1>3. PlaceOK
  BY <1>2, TestSet DEF PlaceOK, InTest
<1>4. ScoreOK
  <2>1. Sums(Asked, Weights)[Before] = 0
    BY <1>1, <1>2, Zeros
  <2>2. opt.global_rating = 0
    BY DEF Init
  <2> QED BY <1>2, <2>1, <2>2 DEF ScoreOK
<1>5. argv \in Seq(Options)
  <2>1. argv \in CommandLines /\ argv \in Seq(ToSet(argv))
    BY LinesAssumption DEF Init
  <2>2. ToSet(argv) \subseteq Options
    BY <2>1 DEF Options
  <2> QED BY <2>1, <2>2
<1> QED BY <1>1, <1>3, <1>4, <1>5 DEF Inv

\* Steps that leave options, place and score alone.
LEMMA ScoreKept == OptOK /\ ScoreOK /\ UNCHANGED <<opt, cur, errors, points, max_points>> =>
                        /\ OptOK' /\ ScoreOK'
                        /\ Asked' = Asked /\ Weights' = Weights /\ Before' = Before
<1> SUFFICES ASSUME OptOK, ScoreOK, UNCHANGED <<opt, cur, errors, points, max_points>>
             PROVE  /\ OptOK' /\ ScoreOK'
                    /\ Asked' = Asked /\ Weights' = Weights /\ Before' = Before
  OBVIOUS
<1>1. Asked' = Asked
  BY DEF Asked
<1>2. Weights' = Weights /\ Before' = Before
  BY <1>1 DEF Weights, Before
<1> QED BY <1>1, <1>2 DEF OptOK, ScoreOK

\* Options change before anything is counted.
LEMMA GetOptStep == Inv /\ GetOpt => Inv'
<1> SUFFICES ASSUME Inv, GetOpt PROVE Inv'
  OBVIOUS
<1> USE DEF GetOpt
<1> DEFINE o == Head(argv)
<1>1. argv' \in Seq(Options) /\ o \in Options
  BY DEF Inv
<1>2. IsOption(o)
  BY <1>1, AllOptions
<1>3. opt' = Option(o) /\ ~Refused(o)
  OBVIOUS
<1> HIDE DEF o
<1>4. OptOK'
  <2> USE DEF Inv, OptOK, OptFields, Option
  <2>1. CASE o.flag = "f"
    BY <1>3, <2>1
  <2>2. CASE o.flag = "r"
    <3>1. o.arg \in Nat
      BY <1>2, <1>3, <2>2 DEF IsOption, Refused
    <3> QED BY <1>3, <2>2, <3>1
  <2>3. CASE o.flag = "T"
    BY <1>3, <2>3
  <2>4. CASE o.flag \in {"g", "h"}
    BY <1>3, <2>4 DEF Refused
  <2>5. CASE o.flag = "val"
    BY <1>3, <2>5
  <2> QED BY <1>2, <2>1, <2>2, <2>3, <2>4, <2>5 DEF IsOption
<1>5. cur' = 1 /\ pc' = "getopt" /\ errors' = errors /\ points' = points /\ max_points' = max_points
  BY DEF Inv, PlaceOK, score
<1>6. PlaceOK'
  BY <1>5, TestSet DEF PlaceOK, InTest
<1>7. errors = 0 /\ points = 0 /\ max_points = 0
  <2>1. Sums(Asked, Weights)[Before] = 0
    BY Zeros DEF Inv, PlaceOK
  <2> QED BY <2>1 DEF Inv, ScoreOK
<1>8. ScoreOK'
  <2>1. Sums(Asked', Weights')[Before'] = 0
    BY <1>4, <1>5, ZerosNext
  <2>2. opt'.global_rating \in Nat
    BY <1>4 DEF OptOK
  <2> QED BY <1>5, <1>7, <2>1, <2>2 DEF ScoreOK
<1> QED BY <1>1, <1>4, <1>6, <1>8 DEF Inv

\* The next puzzle that was asked for is found, and no other one is counted.
LEMMA NextPuzzleStep == Inv /\ NextPuzzle => Inv'
<1> SUFFICES ASSUME Inv, NextPuzzle PROVE Inv'
  OBVIOUS
<1>1. /\ argv' \in Seq(Options) /\ OptOK' /\ opt' = opt
      /\ errors' = errors /\ points' = points /\ max_points' = max_points
  BY DEF Inv, OptOK, NextPuzzle, score
<1>2. Asked' = Asked
  BY <1>1 DEF Asked
<1>3. Weights' = Weights
  BY <1>1, <1>2 DEF Weights
<1>4. cur \in 1..16 /\ \A k \in Asked : k \in 1..15
  BY Places, AskedPlaces DEF Inv
<1>5. cur \in Asked <=> cur <= 15 /\ (~opt.named \/ opt.test_fname = test_set[cur].name)
  <2>1. cur <= 15 <=> cur \in DOMAIN test_set
    BY ONLY <1>4, TestSet
  <2> QED BY <2>1 DEF Asked
<1>6. \/ pc' = "done" /\ cur' = cur /\ cur = 16
      \/ pc' = "gen" /\ cur' = cur /\ cur \in Asked
      \/ pc' = "next" /\ cur' = cur + 1 /\ cur <= 15 /\ cur \notin Asked
  <2>1. cur > Len(test_set) <=> cur = 16
    BY ONLY <1>4, TestSet
  <2>2. cur # 16 <=> cur <= 15
    BY <1>4
  <2> QED BY <1>5, <2>1, <2>2 DEF NextPuzzle
<1>7. PlaceOK'
  <2>1. cur' \in 1..16 /\ pc' \in {"done", "gen", "next"}
        /\ (pc' = "gen" => cur' \in Asked) /\ (pc' = "done" => cur' = 16)
    BY ONLY <1>4, <1>6
  <2> QED BY ONLY <1>2, <2>1, TestSet DEF PlaceOK, InTest
<1>8. Before' = Before
  <2>1. ASSUME NEW k \in Asked PROVE k < cur' <=> k < cur
    <3>1. k \in Nat /\ cur \in Nat /\ (cur' = cur \/ (cur' = cur + 1 /\ k # cur))
      BY <1>4, <1>6
    <3> QED BY ONLY <3>1
  <2>2. Before' = {k \in Asked : k < cur'} /\ Before = {k \in Asked : k < cur}
    BY <1>2 DEF Before
  <2> QED BY ONLY <2>1, <2>2
<1>9. ScoreOK'
  BY <1>1, <1>2, <1>3, <1>8 DEF Inv, ScoreOK
<1> QED BY <1>1, <1>7, <1>9 DEF Inv

\* A puzzle is scored: its weight goes to both sums, or to one and an error.
LEMMA ScoreStep == Inv /\ Score => Inv'
<1> SUFFICES ASSUME Inv, Score PROVE Inv'
  OBVIOUS
<1> DEFINE rating == Weights[cur]
           failed == verdict # "ok"
<1>1. /\ argv' \in Seq(Options) /\ OptOK' /\ opt' = opt
      /\ cur' = cur + 1 /\ pc' = "next"
  BY DEF Inv, OptOK, Score
<1>2. Asked' = Asked
  BY <1>1 DEF Asked
<1>3. Weights' = Weights
  BY <1>1, <1>2 DEF Weights
<1>4. cur \in Asked /\ cur \in 1..15 /\ \A k \in Asked : k \in 1..15
  BY AskedPlaces DEF Inv, PlaceOK, InTest, Score
<1>5. PlaceOK'
  BY <1>1, <1>4, TestSet DEF PlaceOK, InTest
<1>6. rating \in Nat \ {0} /\ (opt.global_rating # 0 => rating = opt.global_rating)
  BY <1>4, WeightsOK DEF Inv, Weights
<1>7. /\ errors' = IF failed THEN errors + 1 ELSE errors
      /\ points' = IF failed THEN points ELSE points + rating
      /\ max_points' = max_points + rating
  BY <1>4 DEF Score, Weights
<1>8. Sums(Asked, Weights)[Before'] = Sums(Asked, Weights)[Before] + rating
  <2>1. Before' \in SUBSET Asked /\ cur \in Before' /\ Before' \ {cur} = Before
    <3>1. ASSUME NEW k \in Asked PROVE (k < cur' /\ k # cur) <=> k < cur
      <4>1. k \in Nat /\ cur \in Nat /\ cur' = cur + 1
        BY <1>1, <1>4
      <4> QED BY ONLY <4>1
    <3>2. cur < cur' /\ cur \in Asked /\ ~(cur < cur)
      BY <1>1, <1>4
    <3>3. Before' = {k \in Asked : k < cur'} /\ Before = {k \in Asked : k < cur}
      BY <1>2 DEF Before
    <3> HIDE DEF Before, Asked
    <3> QED BY ONLY <3>1, <3>2, <3>3
  <2> QED BY <2>1, WeightsOK, SumTakes DEF Inv
<1> HIDE DEF rating, failed
<1>9. ScoreOK'
  <2>1. opt.global_rating \in Nat
    BY DEF Inv, OptOK
  <2>2. /\ errors \in Nat /\ points \in Nat /\ max_points \in Nat
        /\ max_points = Sums(Asked, Weights)[Before]
        /\ points <= max_points
        /\ points = max_points <=> errors = 0
        /\ opt.global_rating # 0 => max_points - points = errors * opt.global_rating
    BY DEF Inv, ScoreOK
  <2>3. /\ errors' \in Nat /\ points' \in Nat /\ max_points' \in Nat
        /\ points' <= max_points'
        /\ points' = max_points' <=> errors' = 0
    BY ONLY <1>6, <1>7, <2>2
  <2>4. ASSUME opt.global_rating # 0 PROVE max_points' - points' = errors' * opt.global_rating
    <3>1. \A e, g \in Nat : (e + 1) * g = e * g + g /\ e * g \in Nat
      OBVIOUS
    <3>2. (errors + 1) * opt.global_rating = errors * opt.global_rating + opt.global_rating
      BY <2>1, <2>2, <3>1
    <3>3. max_points - points = errors * opt.global_rating /\ rating = opt.global_rating
      BY <1>6, <2>2, <2>4
    <3>4. CASE failed
      <4>1. errors' = errors + 1 /\ max_points' - points' = (max_points - points) + rating
        BY <1>6, <1>7, <2>2, <3>4
      <4> QED BY <3>2, <3>3, <4>1
    <3>5. CASE ~failed
      BY <1>6, <1>7, <2>2, <3>3, <3>5
    <3> QED BY <3>4, <3>5
  <2>5. max_points' = Sums(Asked', Weights')[Before']
    BY <1>2, <1>3, <1>7, <1>8, <2>2
  <2> QED BY <1>1, <2>3, <2>4, <2>5 DEF ScoreOK
<1> QED BY <1>1, <1>5, <1>9 DEF Inv

\* The other steps: a test and a timer leave the score alone, and a timeout
\* leads on to the scoring of the current puzzle or into undefined behaviour.
LEMMA OtherStep ==
    ASSUME Inv, UNCHANGED <<opt, cur, errors, points, max_points>>, argv' \in Seq(Options),
           pc' \in {"next", "exit", "undefined"} \/ (pc \in InTest /\ pc' \in InTest)
    PROVE  Inv'
<1>1. OptOK' /\ ScoreOK' /\ Asked' = Asked
  BY ScoreKept DEF Inv
<1>2. PlaceOK'
  BY <1>1 DEF Inv, PlaceOK, InTest
<1> QED BY <1>1, <1>2 DEF Inv

LEMMA StepInv == Inv /\ [Next]_vars => Inv'
<1> SUFFICES ASSUME Inv, [Next]_vars PROVE Inv'
  OBVIOUS
<1>1. argv \in Seq(Options)
  BY DEF Inv
<1>2. CASE GetOpt
  BY <1>2, GetOptStep
<1>3. CASE Usage
  BY <1>1, <1>3, OtherStep DEF Usage, score
<1>4. CASE RunTests
  BY <1>1, <1>4, OtherStep DEF RunTests, score
<1>5. CASE NextPuzzle
  BY <1>5, NextPuzzleStep
<1>6. CASE GenVals
  BY <1>1, <1>6, OtherStep DEF GenVals, score, InTest
<1>7. CASE SetJmp
  BY <1>1, <1>7, OtherStep DEF SetJmp, score, InTest
<1>8. CASE SetAlarm
  BY <1>1, <1>8, OtherStep DEF SetAlarm, score, InTest
<1>9. CASE Score
  BY <1>9, ScoreStep
<1>10. ASSUME pc = "test", NEW result \in Results, Test(result) PROVE Inv'
  BY <1>1, <1>10, OtherStep DEF Test, score, InTest
<1>11. CASE Timeout
  <2>1. UNCHANGED <<opt, cur, errors, points, max_points>> /\ argv' = argv
    BY <1>11 DEF Timeout, score
  <2>2. CASE InFrame
    <3>1. pc \in InTest /\ pc' \in InTest
      BY <1>11, <2>2 DEF Timeout, InFrame, Jump, InTest
    <3> QED BY <1>1, <2>1, <3>1, OtherStep
  <2>3. CASE ~InFrame
    <3>1. pc' = "undefined"
      BY <1>11, <2>3 DEF Timeout
    <3> QED BY <1>1, <2>1, <3>1, OtherStep
  <2> QED BY <2>2, <2>3
<1>12. CASE UNCHANGED vars
  <2>1. OptOK' /\ ScoreOK' /\ Asked' = Asked
    BY <1>12, ScoreKept DEF Inv, vars, score
  <2>2. PlaceOK'
    BY <1>12, <2>1 DEF Inv, PlaceOK, vars
  <2> QED BY <1>1, <1>12, <2>1, <2>2 DEF Inv, vars
<1> QED BY <1>2, <1>3, <1>4, <1>5, <1>6, <1>7, <1>8, <1>9, <1>10, <1>11, <1>12 DEF Next, Main

\* At the end all that was asked for is counted.
LEMMA AllCounted == Inv => EveryPuzzleScored
<1> SUFFICES ASSUME Inv, pc = "done" PROVE EveryPuzzleScored
  BY DEF EveryPuzzleScored
<1>1. Before = Asked
  <2>1. cur = 16 /\ \A k \in Asked : k \in 1..15
    BY TestSet, AskedPlaces DEF Inv, PlaceOK
  <2> QED BY <2>1 DEF Before
<1>2. max_points = Sums(Asked, Weights)[Asked]
  BY <1>1 DEF Inv, ScoreOK
<1> QED BY <1>2, ScoreIsFold DEF EveryPuzzleScored, Inv, ScoreOK

\* Timeouts and all, run_tests scores each puzzle that was asked for once, and
\* the points that are missing from the total are those of the errors.
THEOREM PuzzlesScored == Spec => []EveryPuzzleScored
<1>1. Spec => []Inv
  BY InitInv, StepInv, PTL DEF Spec
<1> QED BY <1>1, AllCounted, PTL

-----------------------------------------------------------------------------
(***************************************************************************)
(* Arrays that are made up of rows (FlattenSeq).                           *)
(***************************************************************************)
\* f has the first m of the sequences of s, one behind the other.
FlatUpTo(f, s, X, m) ==
    /\ f \in [1..Len(s) -> Seq(X)]
    /\ \A i \in 1..Len(s) : i <= m => f[i] = IF i = 1 THEN s[i] ELSE f[i - 1] \o s[i]

LEMMA FlatExists == ASSUME NEW X, NEW s \in Seq(Seq(X)) PROVE \E f : FlatUpTo(f, s, X, Len(s))
<1> DEFINE A == {m \in Nat : \E f : FlatUpTo(f, s, X, m)}
           n == Len(s)
<1>1. n \in Nat /\ \A i \in 1..n : s[i] \in Seq(X)
  OBVIOUS
<1> HIDE DEF n
<1>2. 0 \in A
  <2>1. FlatUpTo([i \in 1..n |-> <<>>], s, X, 0)
    <3>1. [i \in 1..n |-> <<>>] \in [1..n -> Seq(X)]
      OBVIOUS
    <3>2. \A i \in 1..n : ~(i <= 0)
      BY <1>1
    <3> QED BY <3>1, <3>2 DEF FlatUpTo, n
  <2> QED BY <2>1
<1>3. ASSUME NEW m \in A PROVE m + 1 \in A
  <2>1. PICK f : FlatUpTo(f, s, X, m)
    OBVIOUS
  <2>2. f \in [1..n -> Seq(X)] /\ \A i \in 1..n : i <= m => f[i] = IF i = 1 THEN s[i] ELSE f[i - 1] \o s[i]
    BY <2>1 DEF FlatUpTo, n
  <2> DEFINE g == [i \in 1..n |-> IF i <= m THEN f[i] ELSE IF i = 1 THEN s[i] ELSE f[i - 1] \o s[i]]
  <2>3. ASSUME NEW i \in 1..n PROVE g[i] \in Seq(X)
    <3>1. CASE i <= m \/ i = 1
      BY <1>1, <2>2, <3>1
    <3>2. CASE ~(i <= m \/ i = 1)
      <4>1. i - 1 \in 1..n
        BY <1>1, <3>2
      <4>2. f[i - 1] \in Seq(X) /\ s[i] \in Seq(X)
        BY <1>1, <2>2, <4>1
      <4>3. f[i - 1] \o s[i] \in Seq(X)
        BY ONLY <4>2
      <4> QED BY <3>2, <4>3
    <3> QED BY <3>1, <3>2
  <2>4. g \in [1..n -> Seq(X)]
    BY <2>3
  <2>5. ASSUME NEW i \in 1..n, i <= m + 1 PROVE g[i] = IF i = 1 THEN s[i] ELSE g[i - 1] \o s[i]
    <3>1. CASE i = 1
      BY <2>2, <3>1
    <3>2. CASE i # 1
      <4>1. i - 1 \in 1..n /\ i - 1 <= m
        BY <1>1, <2>5, <3>2
      <4>2. g[i - 1] = f[i - 1]
        BY <4>1
      <4>3. g[i] = f[i - 1] \o s[i]
        BY <2>2, <3>2
      <4> QED BY <3>2, <4>2, <4>3
    <3> QED BY <3>1, <3>2
  <2> HIDE DEF g
  <2>6. FlatUpTo(g, s, X, m + 1)
    BY <2>4, <2>5 DEF FlatUpTo, n
  <2> QED BY <2>6
<1>4. A = Nat
  <2> HIDE DEF A
  <2>1. A \in SUBSET Nat
    BY DEF A
  <2> QED BY <1>2, <1>3, <2>1, AllNumbers
<1>5. n \in A
  BY <1>1, <1>4
<1> QED BY <1>5 DEF n

\* The array that the rows of values make up, and the bounds of its length.
LEMMA FlatBounds ==
    ASSUME NEW X, NEW s \in Seq(Seq(X)), Len(s) > 0, NEW low \in Nat, NEW high \in Nat,
           \A i \in 1..Len(s) : low <= Len(s[i]) /\ Len(s[i]) <= high
    PROVE  /\ FlattenSeq(s) \in Seq(X)
           /\ low * Len(s) <= Len(FlattenSeq(s)) /\ Len(FlattenSeq(s)) <= high * Len(s)
<1> DEFINE E(f) == [i \in 1..Len(s) |-> IF i = 1 THEN s[i] ELSE f[i - 1] \o s[i]]
           F == CHOOSE f : f = E(f)
<1>1. FlattenSeq(s) = F[Len(s)]
  <2>1. Len(s) # 0
    OBVIOUS
  <2> QED BY <2>1, Zenon DEF FlattenSeq
<1>2. F = E(F)
  <2>1. PICK f : FlatUpTo(f, s, X, Len(s))
    BY FlatExists
  <2>2. f = [i \in 1..Len(s) |-> f[i]]
    BY <2>1 DEF FlatUpTo
  <2>3. \A i \in 1..Len(s) : f[i] = IF i = 1 THEN s[i] ELSE f[i - 1] \o s[i]
    <3>1. \A i \in 1..Len(s) : i <= Len(s)
      OBVIOUS
    <3> QED BY <2>1, <3>1 DEF FlatUpTo
  <2>4. f = E(f)
    BY <2>2, <2>3
  <2> HIDE DEF E
  <2> QED BY <2>4, Zenon
<1>3. \A i \in 1..Len(s) : F[i] = IF i = 1 THEN s[i] ELSE F[i - 1] \o s[i]
  <2> DEFINE G == F
  <2>1. G = [i \in 1..Len(s) |-> IF i = 1 THEN s[i] ELSE G[i - 1] \o s[i]]
    BY <1>2
  <2> HIDE DEF G
  <2>2. \A i \in 1..Len(s) : G[i] = IF i = 1 THEN s[i] ELSE G[i - 1] \o s[i]
    BY <2>1
  <2> QED BY <2>2 DEF G
<1> HIDE DEF E, F
<1> DEFINE A == {m \in Nat : m + 1 \in 1..Len(s) =>
                    /\ F[m + 1] \in Seq(X)
                    /\ low * (m + 1) <= Len(F[m + 1]) /\ Len(F[m + 1]) <= high * (m + 1)}
<1>4. Len(s) \in Nat /\ \A i \in 1..Len(s) : s[i] \in Seq(X) /\ Len(s[i]) \in Nat
  OBVIOUS
<1>5. 0 \in A
  <2>1. 1 \in 1..Len(s)
    BY <1>4
  <2>2. F[1] = s[1] /\ F[1] \in Seq(X) /\ low <= Len(F[1]) /\ Len(F[1]) <= high
    BY <1>3, <1>4, <2>1
  <2>3. low * (0 + 1) = low /\ high * (0 + 1) = high /\ 0 + 1 = 1
    OBVIOUS
  <2> QED BY <2>2, <2>3
<1>6. ASSUME NEW m \in A, (m + 1) + 1 \in 1..Len(s)
      PROVE  /\ F[(m + 1) + 1] \in Seq(X)
             /\ low * ((m + 1) + 1) <= Len(F[(m + 1) + 1]) /\ Len(F[(m + 1) + 1]) <= high * ((m + 1) + 1)
  <2> DEFINE k == m + 1
  <2>1. k \in Nat /\ k \in 1..Len(s) /\ k + 1 \in 1..Len(s) /\ (k + 1) - 1 = k /\ k + 1 # 1
    BY <1>4, <1>6
  <2>2. F[k] \in Seq(X) /\ low * k <= Len(F[k]) /\ Len(F[k]) <= high * k
    BY <2>1
  <2> HIDE DEF k
  <2>3. F[k + 1] = F[k] \o s[k + 1]
    BY <1>3, <2>1
  <2>4. s[k + 1] \in Seq(X) /\ low <= Len(s[k + 1]) /\ Len(s[k + 1]) <= high
    BY <1>4, <2>1
  <2>5. F[k + 1] \in Seq(X) /\ Len(F[k + 1]) = Len(F[k]) + Len(s[k + 1])
    BY ONLY <2>2, <2>3, <2>4
  <2>6. low * (k + 1) = low * k + low /\ high * (k + 1) = high * k + high
        /\ low * k \in Nat /\ high * k \in Nat
    <3>1. \A x, y \in Nat : x * (y + 1) = x * y + x /\ x * y \in Nat
      OBVIOUS
    <3> QED BY <2>1, <3>1
  <2>7. low * (k + 1) <= Len(F[k + 1]) /\ Len(F[k + 1]) <= high * (k + 1)
    <3> DEFINE p == Len(F[k])  q == Len(s[k + 1])
    <3>1. p \in Nat /\ q \in Nat
      BY <2>2, <2>4
    <3>2. /\ low * k <= p /\ p <= high * k /\ low <= q /\ q <= high
          /\ Len(F[k + 1]) = p + q
      BY <2>2, <2>4, <2>5
    <3> HIDE DEF p, q
    <3>3. low * k + low <= p + q /\ p + q <= high * k + high
      BY <2>6, <3>1, <3>2
    <3> QED BY <2>6, <3>2, <3>3
  <2> QED BY <2>5, <2>7 DEF k
<1>7. A = Nat
  <2>1. \A m \in A : m + 1 \in A
    BY <1>6
  <2> HIDE DEF A
  <2>2. A \in SUBSET Nat
    BY DEF A
  <2> QED BY <1>5, <2>1, <2>2, AllNumbers
<1>8. Len(s) - 1 \in A /\ (Len(s) - 1) + 1 = Len(s) /\ Len(s) \in 1..Len(s)
  <2>1. Len(s) - 1 \in Nat /\ (Len(s) - 1) + 1 = Len(s) /\ Len(s) \in 1..Len(s)
    BY <1>4
  <2> HIDE DEF A
  <2> QED BY <1>7, <2>1
<1>9. F[Len(s)] \in Seq(X) /\ low * Len(s) <= Len(F[Len(s)]) /\ Len(F[Len(s)]) <= high * Len(s)
  BY <1>8
<1> QED BY <1>1, <1>9

-----------------------------------------------------------------------------
(***************************************************************************)
(* Numbers.                                                                *)
(***************************************************************************)

\* The prover knows each of these powers, and none of those of a variable.
LEMMA Powers == ASSUME NEW k \in 2..29 PROVE 2^k \in Nat \ {0}
<1> DEFINE p(j) == 2^j \in Nat \ {0}
<1>1. /\ p(2) /\ p(3) /\ p(4) /\ p(5) /\ p(6) /\ p(7) /\ p(8) /\ p(9) /\ p(10) /\ p(11) /\ p(12)
      /\ p(13) /\ p(14) /\ p(15) /\ p(16) /\ p(17) /\ p(18) /\ p(19) /\ p(20) /\ p(21) /\ p(22)
      /\ p(23) /\ p(24) /\ p(25) /\ p(26) /\ p(27) /\ p(28) /\ p(29)
  OBVIOUS
<1>2. \/ k = 2 \/ k = 3 \/ k = 4 \/ k = 5 \/ k = 6 \/ k = 7 \/ k = 8 \/ k = 9 \/ k = 10 \/ k = 11
      \/ k = 12 \/ k = 13 \/ k = 14 \/ k = 15 \/ k = 16 \/ k = 17 \/ k = 18 \/ k = 19 \/ k = 20
      \/ k = 21 \/ k = 22 \/ k = 23 \/ k = 24 \/ k = 25 \/ k = 26 \/ k = 27 \/ k = 28 \/ k = 29
  OBVIOUS
<1> HIDE DEF p
<1>3. p(k)
  BY <1>1, <1>2
<1> QED BY <1>3 DEF p

LEMMA FracNumber == 2^FRAC \in Nat \ {0}
<1>1. FRAC \in 2..29
  BY WidthAssumption, ExpAssumption DEF FRAC
<1> HIDE DEF FRAC
<1> QED BY <1>1, Powers

LEMMA TestRange == TEST_RANGE \in Nat /\ TEST_RANGE >= 4 /\ MAX_TEST_VALS = 13 * TEST_RANGE
  BY RangeAssumption DEF MAX_TEST_VALS

\* The number of test values for an argument.
LEMMA ArgTestRange == ASSUME NEW p PROVE arg_test_range(p) \in 1..TEST_RANGE
<1> DEFINE root(r) == r * r <= TEST_RANGE /\ TEST_RANGE < (r + 1) * (r + 1)
           above == {r \in Nat : TEST_RANGE < (r + 1) * (r + 1)}
<1>1. TEST_RANGE \in above
  <2>1. \A t \in Nat : t < (t + 1) * (t + 1)
    OBVIOUS
  <2> QED BY <2>1, TestRange
<1>2. PICK r \in above : \A q \in above : r <= q
  <2>1. above \in SUBSET Nat /\ above # {}
    BY <1>1
  <2> HIDE DEF above
  <2> QED BY <2>1, LeastNumber
<1>3. r * r <= TEST_RANGE
  <2>1. CASE r = 0
    BY <2>1, TestRange
  <2>2. CASE r # 0
    <3>1. r - 1 \in Nat /\ r - 1 \notin above /\ (r - 1) + 1 = r /\ r * r \in Nat
      BY <1>2, <2>2
    <3> QED BY <3>1, TestRange
  <2> QED BY <2>1, <2>2
<1>4. r \in 0..TEST_RANGE /\ root(r)
  <2>1. \A q \in Nat : q <= q * q
    OBVIOUS
  <2>2. r \in Nat /\ r <= r * r /\ r * r \in Nat
    BY <2>1
  <2> QED BY <1>3, <2>2, TestRange
<1>5. (CHOOSE q \in 0..TEST_RANGE : root(q)) \in 0..TEST_RANGE
  BY <1>4
<1>6. \A q \in 0..TEST_RANGE : (IF q < 1 THEN 1 ELSE q) \in 1..TEST_RANGE
  BY TestRange
<1> QED BY <1>5, <1>6, TestRange DEF arg_test_range

\* No range of the table has just one value more than the array has room for.
LEMMA IntRanges ==
    ASSUME NEW r \in {Int32, <<0, 3>>, <<0, W - 1>>, <<1, W>>, <<0, W - 2>>, <<1, TMax>>}
    PROVE  r[1] \in Int /\ r[2] \in Int /\ r[1] <= r[2] /\ r[2] - r[1] # MAX_TEST_VALS
<1>1. CASE W = 8
  <2>1. W - 1 = 7 /\ 2^7 = 128
    BY <1>1
  <2> QED BY <1>1, <2>1, TestRange DEF Int32, TMin, TMax
<1>2. CASE W = 16
  <2>1. W - 1 = 15 /\ 2^15 = 32768
    BY <1>2
  <2> QED BY <1>2, <2>1, TestRange DEF Int32, TMin, TMax
<1>3. CASE W = 32
  <2>1. W - 1 = 31 /\ 2^31 = 2147483648
    BY <1>3
  <2> QED BY <1>3, <2>1, TestRange DEF Int32, TMin, TMax
<1> QED BY <1>1, <1>2, <1>3, WidthAssumption

LEMMA TableRanges ==
    ASSUME NEW k \in 1..15, NEW j \in 1..Args(test_set[k])
    PROVE  test_set[k].ranges[j] \in {Int32, <<0, 3>>, <<0, W - 1>>, <<1, W>>, <<0, W - 2>>, <<1, TMax>>, Bits32}
<1> DEFINE R == {Int32, <<0, 3>>, <<0, W - 1>>, <<1, W>>, <<0, W - 2>>, <<1, TMax>>, Bits32}
           T == {<<>>} \cup {<<q>> : q \in R} \cup {<<q, r>> : q, r \in R}
<1>1. test_set[k].ranges \in T
  <2>1. /\ Int32 \in R /\ <<0, 3>> \in R /\ <<0, W - 1>> \in R /\ <<1, W>> \in R
        /\ <<0, W - 2>> \in R /\ <<1, TMax>> \in R /\ Bits32 \in R
    OBVIOUS
  <2> HIDE DEF R
  <2>2. /\ <<>> \in T /\ <<Int32, Int32>> \in T /\ <<Int32, <<0, 3>>>> \in T /\ <<Int32, <<0, W - 1>>>> \in T
        /\ <<Int32>> \in T /\ <<Int32, <<1, W>>>> \in T /\ <<Int32, <<0, W - 2>>>> \in T
        /\ <<<<1, TMax>>>> \in T /\ <<Bits32>> \in T
    BY <2>1
  <2> HIDE DEF T
  <2>3. /\ test_set[1].ranges \in T /\ test_set[2].ranges \in T /\ test_set[3].ranges \in T
        /\ test_set[4].ranges \in T /\ test_set[5].ranges \in T /\ test_set[6].ranges \in T
        /\ test_set[7].ranges \in T /\ test_set[8].ranges \in T /\ test_set[9].ranges \in T
        /\ test_set[10].ranges \in T /\ test_set[11].ranges \in T /\ test_set[12].ranges \in T
        /\ test_set[13].ranges \in T /\ test_set[14].ranges \in T /\ test_set[15].ranges \in T
    BY <2>2 DEF test_set, Puzzle
  <2>4. \/ k = 1 \/ k = 2 \/ k = 3 \/ k = 4 \/ k = 5 \/ k = 6 \/ k = 7 \/ k = 8 \/ k = 9
        \/ k = 10 \/ k = 11 \/ k = 12 \/ k = 13 \/ k = 14 \/ k = 15
    OBVIOUS
  <2> QED BY <2>3, <2>4
<1> HIDE DEF R
<1>2. \A t \in T : \A i \in 1..Len(t) : t[i] \in R
  OBVIOUS
<1> HIDE DEF T
<1> QED BY <1>1, <1>2 DEF R, Args

-----------------------------------------------------------------------------
(***************************************************************************)
(* The arrays of test values.                                              *)
(***************************************************************************)
LEMMA ExactlySeq ==
    ASSUME NEW X, NEW s \in Seq(X)
    PROVE  Exactly(s) \in Seq({{x} : x \in X}) /\ Len(Exactly(s)) = Len(s)
<1>1. Len(s) \in Nat /\ DOMAIN s = 1..Len(s) /\ \A j \in 1..Len(s) : s[j] \in X
  OBVIOUS
<1>2. Exactly(s) = [j \in 1..Len(s) |-> {s[j]}]
  BY <1>1 DEF Exactly
<1>3. \A j \in 1..Len(s) : {s[j]} \in {{x} : x \in X}
  BY <1>1
<1> QED BY <1>1, <1>2, <1>3

LEMMA Tuples == ASSUME NEW X, NEW n \in Nat, NEW t \in [1..n -> X] PROVE t \in Seq(X) /\ Len(t) = n
OBVIOUS

LEMMA Joined ==
    ASSUME NEW X, NEW p \in Seq(X), NEW q \in Seq(X)
    PROVE  p \o q \in Seq(X) /\ Len(p \o q) = Len(p) + Len(q) /\ Len(p) \in Nat
OBVIOUS

LEMMA OneOrNone ==
    ASSUME NEW S, NEW v
    PROVE  LET t == Exactly(IF v \in S THEN <<v>> ELSE <<>>)
           IN  t \in Seq(SUBSET S) /\ Len(t) \in 0..1
<1> DEFINE u == IF v \in S THEN <<v>> ELSE <<>>
<1>1. u \in Seq(S) /\ Len(u) \in 0..1
  BY DEF u
<1> HIDE DEF u
<1>2. Exactly(u) \in Seq({{x} : x \in S}) /\ Len(Exactly(u)) = Len(u)
  BY <1>1, ExactlySeq
<1>3. Exactly(u) \in Seq(SUBSET S)
  <2>1. {{x} : x \in S} \subseteq SUBSET S
    OBVIOUS
  <2> QED BY <1>2, <2>1
<1>4. Exactly(u) \in Seq(SUBSET S) /\ Len(Exactly(u)) \in 0..1
  BY <1>1, <1>2, <1>3
<1> QED BY <1>4 DEF u

\* Integers: the values are in the range, and no more than fit into the array.
LEMMA IntegersFit ==
    ASSUME NEW min \in Int, NEW max \in Int, min <= max, max - min # MAX_TEST_VALS,
           NEW range \in 1..TEST_RANGE
    PROVE  /\ IntegerVals(min, max, range) \in Seq(SUBSET (min..max))
           /\ Len(IntegerVals(min, max, range)) \in 1..MAX_TEST_VALS
<1> DEFINE X == SUBSET (min..max)
<1>1. CASE max - MAX_TEST_VALS <= min
  <2> DEFINE n == max - min + 1
             s == [k \in 1..n |-> min + k - 1]
  <2>1. n \in Nat /\ n \in 1..MAX_TEST_VALS
    BY <1>1, TestRange
  <2>2. ASSUME NEW k \in 1..n PROVE min + k - 1 \in min..max
    BY <2>1
  <2>3. s \in Seq(min..max) /\ Len(s) = n
    <3> HIDE DEF n
    <3> QED BY <2>1, <2>2
  <2>4. IntegerVals(min, max, range) = Exactly(s)
    BY <1>1 DEF IntegerVals
  <2> HIDE DEF s, n
  <2>5. Exactly(s) \in Seq({{x} : x \in min..max}) /\ Len(Exactly(s)) = n
    BY <2>3, ExactlySeq
  <2>6. Exactly(s) \in Seq(X)
    <3>1. {{x} : x \in min..max} \subseteq X
      OBVIOUS
    <3> HIDE DEF X
    <3> QED BY <2>5, <3>1
  <2> QED BY <2>1, <2>4, <2>5, <2>6
<1>2. CASE ~(max - MAX_TEST_VALS <= min)
  <2> DEFINE row(i) == Exactly(<<min + i, max - i>>)
                           \o Exactly(IF i \in min..max THEN <<i>> ELSE <<>>)
                           \o Exactly(IF -i \in min..max THEN <<-i>> ELSE <<>>)
                           \o <<random_val(min, max)>>
             s == [i \in 1..range |-> row(i - 1)]
  <2>1. IntegerVals(min, max, range) = FlattenSeq(s)
    BY <1>2 DEF IntegerVals
  <2>2. ASSUME NEW i \in 1..range PROVE row(i - 1) \in Seq(X) /\ Len(row(i - 1)) \in 3..5
    <3> DEFINE j == i - 1
               p == Exactly(<<min + j, max - j>>)
               q == Exactly(IF j \in min..max THEN <<j>> ELSE <<>>)
               r == Exactly(IF -j \in min..max THEN <<-j>> ELSE <<>>)
               u == <<random_val(min, max)>>
    <3>1. j \in Int /\ min + j \in min..max /\ max - j \in min..max
      BY <1>2, TestRange
    <3> HIDE DEF j
    <3>2. p = <<{min + j}, {max - j}>>
      BY DEF Exactly
    <3>3. p \in Seq(X) /\ Len(p) = 2
      <4>1. {min + j} \in X /\ {max - j} \in X
        BY <3>1
      <4> HIDE DEF p, X
      <4> QED BY <3>2, <4>1
    <3>4. \A v : LET t == Exactly(IF v \in min..max THEN <<v>> ELSE <<>>)
                 IN  t \in Seq(X) /\ Len(t) \in 0..1
      BY OneOrNone
    <3>5. q \in Seq(X) /\ Len(q) \in 0..1 /\ r \in Seq(X) /\ Len(r) \in 0..1
      BY <3>4
    <3>6. u \in Seq(X) /\ Len(u) = 1
      BY DEF random_val
    <3>7. row(i - 1) = p \o q \o r \o u
      BY DEF j
    <3> HIDE DEF p, q, r, u, X, row
    <3>8. p \o q \in Seq(X) /\ Len(p \o q) = 2 + Len(q)
      BY <3>3, <3>5, Joined
    <3>9. (p \o q) \o r \in Seq(X) /\ Len((p \o q) \o r) = 2 + Len(q) + Len(r)
      <4>1. Len((p \o q) \o r) = Len(p \o q) + Len(r) /\ (p \o q) \o r \in Seq(X)
        BY <3>5, <3>8, Joined
      <4> QED BY <3>8, <4>1
    <3>10. ((p \o q) \o r) \o u \in Seq(X) /\ Len(((p \o q) \o r) \o u) = 2 + Len(q) + Len(r) + 1
      <4>1. Len(((p \o q) \o r) \o u) = Len((p \o q) \o r) + Len(u) /\ ((p \o q) \o r) \o u \in Seq(X)
        BY <3>6, <3>9, Joined
      <4> QED BY <3>6, <3>9, <4>1
    <3>11. 2 + Len(q) + Len(r) + 1 \in 3..5
      <4>1. \A x, y \in 0..1 : 2 + x + y + 1 \in 3..5
        OBVIOUS
      <4> QED BY <3>5, <4>1
    <3> QED BY <3>7, <3>10, <3>11
  <2>3. range \in Nat /\ range > 0
    BY TestRange
  <2> HIDE DEF row, X
  <2>4. s \in Seq(Seq(X)) /\ Len(s) = range
    BY <2>2, <2>3
  <2>5. \A i \in 1..range : 3 <= Len(s[i]) /\ Len(s[i]) <= 5
    <3>1. ASSUME NEW i \in 1..range PROVE 3 <= Len(s[i]) /\ Len(s[i]) <= 5
      <4>1. s[i] = row(i - 1)
        OBVIOUS
      <4>2. Len(row(i - 1)) \in 3..5
        BY <2>2
      <4>3. \A x \in 3..5 : 3 <= x /\ x <= 5
        OBVIOUS
      <4> QED BY <4>1, <4>2, <4>3
    <3> QED BY <3>1
  <2> HIDE DEF s
  <2>6. FlattenSeq(s) \in Seq(X) /\ 3 * range <= Len(FlattenSeq(s)) /\ Len(FlattenSeq(s)) <= 5 * range
    <3>1. 3 \in Nat /\ 5 \in Nat
      OBVIOUS
    <3> QED BY ONLY <2>3, <2>4, <2>5, <3>1, FlatBounds
  <2>7. Len(FlattenSeq(s)) \in 1..MAX_TEST_VALS
    <3>1. Len(FlattenSeq(s)) \in Nat
      BY <2>6
    <3> QED BY <2>3, <2>6, <3>1, TestRange
  <2> QED BY <2>1, <2>6, <2>7 DEF X
<1> QED BY <1>1, <1>2

\* Floats: twelve values for each step away from a boundary, and four more.
LEMMA FloatsFit ==
    ASSUME NEW range \in 1..TEST_RANGE PROVE Len(FloatVals(range)) \in 1..MAX_TEST_VALS
<1> DEFINE smallest_norm == 2^FRAC
           one == Bias * 2^FRAC
           largest_norm == (2^EXP - 2) * 2^FRAC
           inf == (2^EXP - 1) * 2^FRAC
           nan == inf + 2^(FRAC - 1)
           sign == 2^(W - 1)
           n == IF range > 2^FRAC THEN 2^FRAC ELSE range
           around(i) == <<i, sign + i,
                          smallest_norm + i, smallest_norm - i,
                          sign + smallest_norm + i, sign + smallest_norm - i,
                          one + i, one - i, sign + one + i, sign + one - i,
                          largest_norm - i, sign + largest_norm - i>>
           s == [i \in 1..n |-> around(i - 1)]
           last == <<inf, sign + inf, nan, sign + nan>>
           X == (UNION {{around(i - 1)[j] : j \in 1..12} : i \in 1..n}) \cup {last[j] : j \in 1..4}
<1>1. FloatVals(range) = Exactly(FlattenSeq(s) \o last)
  BY DEF FloatVals
<1>2. n \in Nat /\ n > 0 /\ n <= TEST_RANGE
  BY FracNumber, TestRange
<1> HIDE DEF smallest_norm, one, largest_norm, inf, nan, sign
<1>3. /\ \A i : around(i) \in [1..12 -> {around(i)[j] : j \in 1..12}]
      /\ last \in [1..4 -> {last[j] : j \in 1..4}]
  <2>1. ASSUME NEW i PROVE DOMAIN around(i) = 1..12 /\ around(i) = [j \in 1..12 |-> around(i)[j]]
    OBVIOUS
  <2>2. DOMAIN last = 1..4 /\ last = [j \in 1..4 |-> last[j]]
    OBVIOUS
  <2> HIDE DEF around, last
  <2> QED BY <2>1, <2>2
<1> HIDE DEF n, around, last
<1>4. ASSUME NEW i \in 1..n PROVE around(i - 1) \in Seq(X) /\ Len(around(i - 1)) = 12
  <2>1. {around(i - 1)[j] : j \in 1..12} \subseteq X
    OBVIOUS
  <2> HIDE DEF X
  <2>2. around(i - 1) \in [1..12 -> X] /\ 12 \in Nat
    BY <1>3, <2>1
  <2> QED BY ONLY <2>2, Tuples
<1>5. last \in Seq(X) /\ Len(last) = 4
  <2>1. {last[j] : j \in 1..4} \subseteq X
    OBVIOUS
  <2> HIDE DEF X
  <2>2. last \in [1..4 -> X] /\ 4 \in Nat
    BY <1>3, <2>1
  <2> QED BY ONLY <2>2, Tuples
<1> HIDE DEF X
<1>6. s \in Seq(Seq(X)) /\ Len(s) = n
  BY <1>2, <1>4
<1>7. \A i \in 1..Len(s) : 12 <= Len(s[i]) /\ Len(s[i]) <= 12
  <2>1. ASSUME NEW i \in 1..n PROVE Len(s[i]) = 12
    <3>1. s[i] = around(i - 1) /\ Len(around(i - 1)) = 12
      BY <1>4
    <3> QED BY ONLY <3>1
  <2>2. \A i \in 1..n : 12 <= Len(s[i]) /\ Len(s[i]) <= 12
    <3>1. 12 <= 12
      OBVIOUS
    <3> HIDE DEF s
    <3> QED BY <2>1, <3>1
  <2> HIDE DEF s
  <2> QED BY ONLY <1>6, <2>2
<1> HIDE DEF s
<1>8. FlattenSeq(s) \in Seq(X) /\ 12 * n <= Len(FlattenSeq(s)) /\ Len(FlattenSeq(s)) <= 12 * n
  <2>1. 12 \in Nat
    OBVIOUS
  <2> QED BY ONLY <1>2, <1>6, <1>7, <2>1, FlatBounds
<1>9. FlattenSeq(s) \o last \in Seq(X) /\ Len(FlattenSeq(s) \o last) = 12 * n + 4
  <2>1. Len(FlattenSeq(s)) = 12 * n
    BY <1>2, <1>8
  <2>2. FlattenSeq(s) \in Seq(X)
    BY <1>8
  <2>3. FlattenSeq(s) \o last \in Seq(X) /\ Len(FlattenSeq(s) \o last) = Len(FlattenSeq(s)) + Len(last)
    BY ONLY <1>5, <2>2, Joined
  <2> QED BY <1>5, <2>1, <2>3
<1>10. Len(Exactly(FlattenSeq(s) \o last)) = 12 * n + 4
  BY <1>9, ExactlySeq
<1> QED BY <1>1, <1>2, <1>10, TestRange

\* What gen_vals makes for an argument fits, and is in its range.
LEMMA ArgumentFits ==
    ASSUME NEW c \in 1..15, NEW k \in 1..Args(test_set[c])
    PROVE  LET p == test_set[c]
               v == gen_vals(p, arg_test_range(p), k)
           IN /\ Len(v) \in 1..MAX_TEST_VALS
              /\ ~opt.has_arg[k] /\ p.ranges[k] # Bits32 =>
                    v \in Seq(SUBSET (p.ranges[k][1]..p.ranges[k][2]))
<1> DEFINE p == test_set[c]
           n == arg_test_range(p)
           r == p.ranges[k]
           v == gen_vals(p, n, k)
<1>1. n \in 1..TEST_RANGE
  BY ArgTestRange
<1>2. r \in {Int32, <<0, 3>>, <<0, W - 1>>, <<1, W>>, <<0, W - 2>>, <<1, TMax>>, Bits32}
  BY TableRanges
<1> HIDE DEF n
<1>3. CASE opt.has_arg[k]
  <2>1. v = <<{opt.argval[k]}>>
    BY <1>3 DEF gen_vals
  <2>2. Len(v) = 1
    BY <2>1
  <2>3. 1 \in 1..MAX_TEST_VALS
    BY TestRange
  <2> QED BY <1>3, <2>2, <2>3 DEF n
<1>4. CASE ~opt.has_arg[k] /\ r = Bits32
  <2>1. v = FloatVals(n)
    BY <1>4 DEF gen_vals
  <2> QED BY <1>1, <1>4, <2>1, FloatsFit DEF n
<1>5. CASE ~opt.has_arg[k] /\ r # Bits32
  <2>1. v = IntegerVals(r[1], r[2], n)
    BY <1>5 DEF gen_vals
  <2> HIDE DEF r, v
  <2>2. r[1] \in Int /\ r[2] \in Int /\ r[1] <= r[2] /\ r[2] - r[1] # MAX_TEST_VALS
    BY <1>2, <1>5, IntRanges
  <2>3. v \in Seq(SUBSET (r[1]..r[2])) /\ Len(v) \in 1..MAX_TEST_VALS
    BY <1>1, <2>1, <2>2, IntegersFit
  <2> QED BY <2>3 DEF r, v, n
<1> QED BY <1>3, <1>4, <1>5

-----------------------------------------------------------------------------
(***************************************************************************)
(* While a puzzle is tested its arrays are those that gen_vals has made.   *)
(***************************************************************************)
Generated == LET p == test_set[cur]
             IN [k \in 1..Args(p) |-> gen_vals(p, arg_test_range(p), k)]

ValsOK == pc \in {"setjmp", "alarm", "test"} => vals = Generated

LEMMA GeneratedKept == UNCHANGED <<opt, cur>> => Generated' = Generated
  BY DEF Generated, gen_vals

LEMMA StepVals == ValsOK /\ [Next]_vars => ValsOK'
<1> SUFFICES ASSUME ValsOK, [Next]_vars PROVE ValsOK'
  OBVIOUS
<1>1. CASE GetOpt \/ Usage \/ RunTests \/ NextPuzzle \/ Score
  <2>1. pc' \notin {"setjmp", "alarm", "test"}
    BY <1>1 DEF GetOpt, Usage, RunTests, NextPuzzle, Score
  <2> QED BY <2>1 DEF ValsOK
<1>2. CASE GenVals
  <2>1. vals' = Generated /\ Generated' = Generated
    BY <1>2, GeneratedKept DEF GenVals, Generated
  <2> QED BY <2>1 DEF ValsOK
<1>3. ASSUME pc \in {"setjmp", "alarm", "test"} \/ UNCHANGED pc, UNCHANGED <<opt, cur, vals>> PROVE ValsOK'
  <2>1. Generated' = Generated
    BY <1>3, GeneratedKept
  <2> QED BY <1>3, <2>1 DEF ValsOK
<1>4. CASE SetJmp \/ SetAlarm \/ \E result \in Results : pc = "test" /\ Test(result)
  BY <1>3, <1>4 DEF SetJmp, SetAlarm, Test
<1>5. CASE Timeout
  <2>1. pc' \in {"score", "undefined"}
    BY <1>5 DEF Timeout, Jump
  <2> QED BY <2>1 DEF ValsOK
<1>6. CASE UNCHANGED vars
  BY <1>3, <1>6 DEF vars
<1> QED BY <1>1, <1>2, <1>4, <1>5, <1>6 DEF Next, Main

LEMMA ValuesAre == Inv /\ ValsOK => ValuesFit
<1> SUFFICES ASSUME Inv, ValsOK, pc \in {"setjmp", "alarm", "test"}, NEW k \in DOMAIN vals
             PROVE  LET range == test_set[cur].ranges[k]
                    IN /\ Len(vals[k]) \in 1..MAX_TEST_VALS
                       /\ ~opt.has_arg[k] /\ range # Bits32 =>
                            \A j \in DOMAIN vals[k] : vals[k][j] \subseteq range[1]..range[2]
  BY DEF ValuesFit
<1>1. cur \in 1..15
  BY AskedPlaces DEF Inv, PlaceOK, InTest
<1>2. k \in 1..Args(test_set[cur])
      /\ vals[k] = gen_vals(test_set[cur], arg_test_range(test_set[cur]), k)
  BY DEF ValsOK, Generated
<1>3. /\ Len(vals[k]) \in 1..MAX_TEST_VALS
      /\ ~opt.has_arg[k] /\ test_set[cur].ranges[k] # Bits32 =>
            vals[k] \in Seq(SUBSET (test_set[cur].ranges[k][1]..test_set[cur].ranges[k][2]))
  BY <1>1, <1>2, ArgumentFits
<1>4. \A S : \A v \in Seq(SUBSET S) : \A j \in DOMAIN v : v[j] \subseteq S
  OBVIOUS
<1> QED BY <1>3, <1>4

\* For every width and every TEST_RANGE the values of a puzzle stay inside
\* arg_test_vals, and those of an integer argument in the range decl.c gives.
THEOREM ArraysFit == Spec => []ValuesFit
<1>1. Init => ValsOK
  BY DEF Init, ValsOK
<1>2. Spec => [](Inv /\ ValsOK)
  BY <1>1, InitInv, StepInv, StepVals, PTL DEF Spec
<1> QED BY <1>2, ValuesAre, PTL

-----------------------------------------------------------------------------
(***************************************************************************)
(* The puzzles are right whenever the harness tests them.                  *)
(***************************************************************************)

\* The numbers that the user gives, and the places of the two loops.
GivenOK == opt.argval \in [1..2 -> Int]
LoopOK == pc \in {"setjmp", "alarm", "test"} =>
            /\ Len(vals) = Args(test_set[cur])
            /\ a \in [1..2 -> Nat]
            /\ \A k \in 1..Len(vals) : Len(vals[k]) \in Nat /\ a[k] \in 1..Len(vals[k])

\* The table, one entry after the other.
LEMMA Table ==
    /\ test_set[1] = Puzzle("bitAnd", 1, <<Int32, Int32>>)
    /\ test_set[2] = Puzzle("getByte", 2, <<Int32, <<0, 3>>>>)
    /\ test_set[3] = Puzzle("logicalShift", 3, <<Int32, <<0, W - 1>>>>)
    /\ test_set[4] = Puzzle("bitCount", 4, <<Int32>>)
    /\ test_set[5] = Puzzle("bang", 4, <<Int32>>)
    /\ test_set[6] = Puzzle("tmin", 1, <<>>)
    /\ test_set[7] = Puzzle("fitsBits", 2, <<Int32, <<1, W>>>>)
    /\ test_set[8] = Puzzle("divpwr2", 2, <<Int32, <<0, W - 2>>>>)
    /\ test_set[9] = Puzzle("negate", 2, <<Int32>>)
    /\ test_set[10] = Puzzle("isPositive", 3, <<Int32>>)
    /\ test_set[11] = Puzzle("isLessOrEqual", 3, <<Int32, Int32>>)
    /\ test_set[12] = Puzzle("ilog2", 4, <<<<1, TMax>>>>)
    /\ test_set[13] = Puzzle("float_neg", 2, <<Bits32>>)
    /\ test_set[14] = Puzzle("float_i2f", 4, <<Bits32>>)
    /\ test_set[15] = Puzzle("float_twice", 4, <<Bits32>>)
BY DEF test_set

\* The ranges of the integer puzzles.
IntegerRanges ==
    {<<>>, <<Int32>>, <<<<1, TMax>>>>, <<Int32, Int32>>, <<Int32, <<0, 3>>>>, <<Int32, <<0, W - 1>>>>,
     <<Int32, <<1, W>>>>, <<Int32, <<0, W - 2>>>>}

LEMMA RangesOf == \A c \in 1..12 : test_set[c].ranges \in IntegerRanges
<1> SUFFICES ASSUME NEW c \in 1..12 PROVE test_set[c].ranges \in IntegerRanges
  OBVIOUS
<1>1. /\ <<>> \in IntegerRanges /\ <<Int32>> \in IntegerRanges /\ <<<<1, TMax>>>> \in IntegerRanges
      /\ <<Int32, Int32>> \in IntegerRanges /\ <<Int32, <<0, 3>>>> \in IntegerRanges
      /\ <<Int32, <<0, W - 1>>>> \in IntegerRanges /\ <<Int32, <<1, W>>>> \in IntegerRanges
      /\ <<Int32, <<0, W - 2>>>> \in IntegerRanges
  BY DEF IntegerRanges
<1> DEFINE T == IntegerRanges
<1>2. /\ test_set[1].ranges \in T /\ test_set[2].ranges \in T /\ test_set[3].ranges \in T
      /\ test_set[4].ranges \in T /\ test_set[5].ranges \in T /\ test_set[6].ranges \in T
      /\ test_set[7].ranges \in T /\ test_set[8].ranges \in T /\ test_set[9].ranges \in T
      /\ test_set[10].ranges \in T /\ test_set[11].ranges \in T /\ test_set[12].ranges \in T
  BY <1>1, Table DEF Puzzle
<1>3. \/ c = 1 \/ c = 2 \/ c = 3 \/ c = 4 \/ c = 5 \/ c = 6
      \/ c = 7 \/ c = 8 \/ c = 9 \/ c = 10 \/ c = 11 \/ c = 12
  OBVIOUS
<1> QED BY <1>2, <1>3

\* None of them is the mark of a float, which has no numbers between its ends
\* that an integer puzzle is for.
LEMMA NoBits == \A r \in IntegerRanges : \A i \in 1..Len(r) : r[i] # Bits32
<1>1. Bits32 # Int32 /\ Bits32 # <<1, TMax>> /\ Bits32 # <<0, 3>> /\ Bits32 # <<0, W - 1>>
      /\ Bits32 # <<1, W>> /\ Bits32 # <<0, W - 2>>
  <2>1. TMin # 1 /\ TMax # 1
    <3>1. TMin = -HalfSize /\ TMax = HalfSize - 1 /\ HalfSize \in Nat /\ HalfSize >= 64
      <4>1. W - 1 \in 6..W /\ 6 \in 0..W /\ 2^6 = 64
        BY Width
      <4>2. 2^6 <= 2^(W - 1)
        BY ONLY <4>1, PowerOrder
      <4> QED BY <4>1, <4>2, Sizes DEF HalfSize, TMin, TMax
    <3> QED BY <3>1
  <2>2. Bits32[1] = 1 /\ Bits32[2] = 1 /\ Int32[1] = TMin
    BY DEF Bits32, Int32
  <2>3. \A r, s : <<r, s>>[1] = r /\ <<r, s>>[2] = s
    OBVIOUS
  <2>4. W # 1 /\ 0 # 1
    BY Width
  <2> QED BY ONLY <2>1, <2>2, <2>3, <2>4
<1>2. \A r \in IntegerRanges :
         \A i \in 1..Len(r) : r[i] \in {Int32, <<1, TMax>>, <<0, 3>>, <<0, W - 1>>, <<1, W>>, <<0, W - 2>>}
  BY DEF IntegerRanges
<1> QED BY <1>1, <1>2

\* Where the result is defined, a shift count is in its range.
LEMMA DefinedCounts ==
    ASSUME NEW c \in 1..12, NEW v2 \in Int, ~Undefined(test_set[c], v2)
    PROVE  /\ c = 2 => v2 \in 0..3
           /\ c = 3 => v2 \in 0..W - 1
           /\ c = 7 => v2 \in 1..W - 1
           /\ c = 8 => v2 \in 0..W - 2
<1> DEFINE p == test_set[c]
           Counts == {"getByte", "logicalShift", "fitsBits", "divpwr2"}
<1>1. ASSUME NEW n, NEW r, NEW lo, NEW hi, p = Puzzle(n, r, <<Int32, <<lo, hi>>>>), n \in Counts
      PROVE  v2 \in lo..hi
  <2>1. p.name = n /\ p.ranges[2][1] = lo /\ p.ranges[2][2] = hi
    BY <1>1 DEF Puzzle
  <2> QED BY <1>1, <2>1 DEF Undefined
<1>2. c = 7 => v2 # W
  <2>1. c = 7 => p.name = "fitsBits"
    BY Table DEF Puzzle
  <2> QED BY <2>1 DEF Undefined
<1>3. W \in Int
  BY Width
<1>4. c = 2 => v2 \in 0..3
  BY <1>1, Table
<1>5. c = 3 => v2 \in 0..W - 1
  BY <1>1, Table
<1>6. c = 7 => v2 \in 1..W
  BY <1>1, Table
<1>7. c = 8 => v2 \in 0..W - 2
  BY <1>1, Table
<1> HIDE DEF p
<1> QED BY <1>2, <1>3, <1>4, <1>5, <1>6, <1>7

\* A solution that returns agrees with its reference value.
LEMMA SolutionRight ==
    ASSUME NEW c \in 1..12, NEW v1 \in Int, NEW v2 \in Int, ~Hangs(test_set[c].name, v1),
           c = 2 => v2 \in 0..3, c = 3 => v2 \in 0..W - 1, c = 7 => v2 \in 1..W - 1, c = 8 => v2 \in 0..W - 2
    PROVE  solution_funct(test_set[c].name, v1, v2) = test_funct(test_set[c].name, v1, v2)
<1> DEFINE x == Bin(v1)
           y == Bin(v2)
           n == test_set[c].name
<1>1. x \in Word /\ y \in Word
  BY WordNumbers
<1> HIDE DEF x, y
<1>2. CASE c = 1
  <2>1. n = "bitAnd"
    BY <1>2, Table DEF Puzzle
  <2>2. solution_funct(n, v1, v2) = bitAnd(x, y) /\ test_funct(n, v1, v2) = test_bitAnd(x, y)
    BY <2>1 DEF solution_funct, test_funct, x, y
  <2> QED BY <1>1, <2>2, BitAndRight
<1>3. CASE c = 2
  <2>1. n = "getByte"
    BY <1>3, Table DEF Puzzle
  <2>2. solution_funct(n, v1, v2) = getByte(x, v2) /\ test_funct(n, v1, v2) = test_getByte(x, v2)
    BY <2>1 DEF solution_funct, test_funct, x
  <2> QED BY <1>1, <1>3, <2>2, GetByteRight
<1>4. CASE c = 3
  <2>1. n = "logicalShift"
    BY <1>4, Table DEF Puzzle
  <2>2. solution_funct(n, v1, v2) = logicalShift(x, v2) /\ test_funct(n, v1, v2) = test_logicalShift(x, v2)
    BY <2>1 DEF solution_funct, test_funct, x
  <2> QED BY <1>1, <1>4, <2>2, LogicalShiftRight
<1>5. CASE c = 4
  <2>1. n = "bitCount"
    BY <1>5, Table DEF Puzzle
  <2>2. solution_funct(n, v1, v2) = bitCount(x) /\ test_funct(n, v1, v2) = test_bitCount(x)
    BY <2>1 DEF solution_funct, test_funct, x
  <2> QED BY <1>1, <2>2, BitCountRight
<1>6. CASE c = 5
  <2>1. n = "bang"
    BY <1>6, Table DEF Puzzle
  <2>2. solution_funct(n, v1, v2) = bang(x) /\ test_funct(n, v1, v2) = test_bang(x)
    BY <2>1 DEF solution_funct, test_funct, x
  <2> QED BY <1>1, <2>2, BangRight
<1>7. CASE c = 6
  <2>1. n = "tmin"
    BY <1>7, Table DEF Puzzle
  <2>2. solution_funct(n, v1, v2) = tmin /\ test_funct(n, v1, v2) = test_tmin
    BY <2>1 DEF solution_funct, test_funct
  <2> QED BY <2>2, TminRight
<1>8. CASE c = 7
  <2>1. n = "fitsBits"
    BY <1>8, Table DEF Puzzle
  <2>2. solution_funct(n, v1, v2) = fitsBits(x, v2) /\ test_funct(n, v1, v2) = test_fitsBits(x, v2)
    BY <2>1 DEF solution_funct, test_funct, x
  <2> QED BY <1>1, <1>8, <2>2, FitsBitsRight
<1>9. CASE c = 8
  <2>1. n = "divpwr2"
    BY <1>9, Table DEF Puzzle
  <2>2. solution_funct(n, v1, v2) = divpwr2(x, v2) /\ test_funct(n, v1, v2) = test_divpwr2(x, v2)
    BY <2>1 DEF solution_funct, test_funct, x
  <2> QED BY <1>1, <1>9, <2>2, Divpwr2Right
<1>10. CASE c = 9
  <2>1. n = "negate"
    BY <1>10, Table DEF Puzzle
  <2>2. solution_funct(n, v1, v2) = negate(x) /\ test_funct(n, v1, v2) = test_negate(x)
    BY <2>1 DEF solution_funct, test_funct, x
  <2> QED BY <1>1, <2>2, NegateRight
<1>11. CASE c = 10
  <2>1. n = "isPositive"
    BY <1>11, Table DEF Puzzle
  <2>2. solution_funct(n, v1, v2) = isPositive(x) /\ test_funct(n, v1, v2) = test_isPositive(x)
    BY <2>1 DEF solution_funct, test_funct, x
  <2> QED BY <1>1, <2>2, IsPositiveRight
<1>12. CASE c = 11
  <2>1. n = "isLessOrEqual"
    BY <1>12, Table DEF Puzzle
  <2>2. solution_funct(n, v1, v2) = isLessOrEqual(x, y) /\ test_funct(n, v1, v2) = test_isLessOrEqual(x, y)
    BY <2>1 DEF solution_funct, test_funct, x, y
  <2> QED BY <1>1, <2>2, IsLessOrEqualRight
<1>13. CASE c = 12
  <2>1. n = "ilog2"
    BY <1>13, Table DEF Puzzle
  <2>2. solution_funct(n, v1, v2) = ilog2(x) /\ test_funct(n, v1, v2) = test_ilog2(x)
    BY <2>1 DEF solution_funct, test_funct, x
  <2>3. x # Zero
    BY <2>1 DEF Hangs, x
  <2> QED BY <1>1, <2>2, <2>3, Ilog2Right
<1>14. \/ c = 1 \/ c = 2 \/ c = 3 \/ c = 4 \/ c = 5 \/ c = 6 \/ c = 7 \/ c = 8
       \/ c = 9 \/ c = 10 \/ c = 11 \/ c = 12
  OBVIOUS
<1> HIDE DEF n
<1>15. solution_funct(n, v1, v2) = test_funct(n, v1, v2)
  BY <1>2, <1>3, <1>4, <1>5, <1>6, <1>7, <1>8, <1>9, <1>10, <1>11, <1>12, <1>13, <1>14 DEF n
<1> QED BY <1>15 DEF n

\* The values that the current test is about.
LEMMA CurrentValues ==
    ASSUME Inv, ValsOK, ValuesFit, GivenOK, LoopOK, pc = "test", cur \in 1..12,
           NEW v1 \in Values(1), NEW v2 \in Values(2)
    PROVE  v1 \in Int /\ v2 \in Int
<1> DEFINE ranges == test_set[cur].ranges
           n == Len(ranges)
<1>1. ranges \in IntegerRanges
  BY RangesOf
<1>2. n \in 0..2
  <2> HIDE DEF ranges
  <2>1. \A r \in IntegerRanges : Len(r) \in 0..2
    BY DEF IntegerRanges
  <2> QED BY <1>1, <2>1
<1>3. Len(vals) = n /\ DOMAIN vals = 1..n
  <2>1. Len(vals) = n
    BY DEF LoopOK, Args
  <2>2. vals = Generated /\ DOMAIN Generated = 1..n
    BY DEF ValsOK, Generated, Args
  <2> QED BY <2>1, <2>2
<1>4. ASSUME NEW k \in 1..n, NEW v \in Values(k)
      PROVE  /\ opt.has_arg[k] => v = opt.argval[k] /\ v \in Int
             /\ ~opt.has_arg[k] => v \in ranges[k][1]..ranges[k][2]
  <2>1. v \in vals[k][a[k]] /\ k \in 1..2 /\ k \in DOMAIN vals /\ a[k] \in 1..Len(vals[k])
    <3>1. k \in 1..2 /\ k <= Len(vals) /\ k \in 1..Len(vals)
      <4> HIDE DEF n
      <4> QED BY <1>2, <1>3
    <3>2. Values(k) = vals[k][a[k]]
      BY <3>1 DEF Values
    <3>3. a[k] \in 1..Len(vals[k])
      BY <3>1 DEF LoopOK
    <3> QED BY <1>3, <1>4, <3>1, <3>2, <3>3
  <2>2. vals[k] = gen_vals(test_set[cur], arg_test_range(test_set[cur]), k)
    BY DEF ValsOK, Generated, Args
  <2>3. CASE opt.has_arg[k]
    <3>1. vals[k] = <<{opt.argval[k]}>>
      BY <2>2, <2>3 DEF gen_vals
    <3>2. a[k] = 1
      BY <2>1, <3>1
    <3>3. v = opt.argval[k]
      BY <2>1, <3>1, <3>2
    <3> QED BY <2>1, <2>3, <3>3 DEF GivenOK
  <2>4. CASE ~opt.has_arg[k]
    <3>1. ranges[k] # Bits32
      <4> HIDE DEF ranges
      <4> QED BY <1>1, NoBits
    <3>2. \A j \in DOMAIN vals[k] : vals[k][j] \subseteq ranges[k][1]..ranges[k][2]
      BY <2>1, <2>4, <3>1 DEF ValuesFit
    <3>3. Len(vals[k]) \in Nat /\ a[k] \in DOMAIN vals[k]
      <4>1. /\ Len(vals[k]) \in 1..MAX_TEST_VALS
            /\ vals[k] \in Seq(SUBSET (ranges[k][1]..ranges[k][2]))
        <5>1. cur \in 1..15 /\ k \in 1..Args(test_set[cur])
          BY DEF Args
        <5> QED BY <2>2, <2>4, <3>1, <5>1, ArgumentFits
      <4> HIDE DEF ranges
      <4>2. DOMAIN vals[k] = 1..Len(vals[k])
        BY <4>1
      <4> QED BY <2>1, <4>1, <4>2
    <3> QED BY <2>1, <2>4, <3>2, <3>3
  <2> QED BY <2>3, <2>4
<1>5. \A i : i > n /\ i \in 1..2 => Values(i) = {0}
  BY <1>3 DEF Values
<1>6. v1 \in Int
  <2>1. CASE 1 \in 1..n
    <3>1. \A r, s \in Int : \A v \in r..s : v \in Int
      OBVIOUS
    <3> QED BY <1>4, <2>1
  <2>2. CASE 1 \notin 1..n
    BY <1>2, <1>5, <2>2
  <2> QED BY <2>1, <2>2
<1>7. v2 \in Int
  <2>1. CASE 2 \in 1..n
    BY <1>4, <2>1
  <2>2. CASE 2 \notin 1..n
    BY <1>2, <1>5, <2>2
  <2> QED BY <2>1, <2>2
<1> QED BY <1>6, <1>7

\* So no integer puzzle is found wrong.
LEMMA NoErrors ==
    ASSUME Inv, ValsOK, ValuesFit, GivenOK, LoopOK, pc = "test", ~IsFloat(test_set[cur])
    PROVE  "wrong" \notin Results
<1> DEFINE p == test_set[cur]
           S == {v \in Values(1) : ~Hangs(p.name, v)}
           T == Values(2)
<1>1. cur \in 1..12
  <2>1. cur \in 1..15
    BY AskedPlaces DEF Inv, PlaceOK, InTest
  <2>2. ASSUME NEW s, s = <<Bits32>> PROVE Bits32 \in ToSet(s)
    <3>1. 1 \in DOMAIN s /\ s[1] = Bits32
      BY <2>2
    <3> QED BY <3>1 DEF ToSet
  <2>3. IsFloat(test_set[13]) /\ IsFloat(test_set[14]) /\ IsFloat(test_set[15])
    BY <2>2, Table DEF IsFloat, Puzzle
  <2> QED BY <2>1, <2>3
<1>2. ASSUME NEW v1 \in S, NEW v2 \in T PROVE "wrong" \notin Found(p, v1, v2)
  <2>1. v1 \in Int /\ v2 \in Int
    BY <1>1, CurrentValues
  <2>2. CASE Undefined(p, v2)
    BY <2>2 DEF Found
  <2>3. CASE ~Undefined(p, v2)
    <3>1. /\ cur = 2 => v2 \in 0..3
          /\ cur = 3 => v2 \in 0..W - 1
          /\ cur = 7 => v2 \in 1..W - 1
          /\ cur = 8 => v2 \in 0..W - 2
      BY <1>1, <2>1, <2>3, DefinedCounts
    <3>2. solution_funct(p.name, v1, v2) = test_funct(p.name, v1, v2)
      BY <1>1, <2>1, <3>1, SolutionRight
    <3> QED BY <2>3, <3>2 DEF Found
  <2> QED BY <2>2, <2>3
<1>3. Results = UNION {Found(p, v1, v2) : v1 \in S, v2 \in T}
  BY DEF Results
<1> HIDE DEF p, S, T
<1> QED BY <1>2, <1>3

\* Nor does a floating point puzzle, whatever it is tested with.
LEMMA FloatSolutionRight ==
    ASSUME NEW c \in 13..15, NEW v1, NEW v2
    PROVE  solution_funct(test_set[c].name, v1, v2) = test_funct(test_set[c].name, v1, v2)
<1> DEFINE x == Bin(v1)
           n == test_set[c].name
<1>1. x \in Word
  BY DEF Bin, Word
<1> HIDE DEF x
<1>2. CASE c = 13
  <2>1. n = "float_neg"
    BY <1>2, Table DEF Puzzle
  <2>2. solution_funct(n, v1, v2) = float_neg(x) /\ test_funct(n, v1, v2) = test_float_neg(x)
    BY <2>1 DEF solution_funct, test_funct, x
  <2> QED BY <1>1, <2>2, FloatNegRight
<1>3. CASE c = 14
  <2>1. n = "float_i2f"
    BY <1>3, Table DEF Puzzle
  <2>2. solution_funct(n, v1, v2) = float_i2f(x) /\ test_funct(n, v1, v2) = test_float_i2f(x)
    BY <2>1 DEF solution_funct, test_funct, x
  <2> QED BY <1>1, <2>2, FloatI2fRight
<1>4. CASE c = 15
  <2>1. n = "float_twice"
    BY <1>4, Table DEF Puzzle
  <2>2. solution_funct(n, v1, v2) = float_twice(x) /\ test_funct(n, v1, v2) = test_float_twice(x)
    BY <2>1 DEF solution_funct, test_funct, x
  <2> QED BY <1>1, <2>2, FloatTwiceRight
<1>5. \/ c = 13
      \/ c = 14
      \/ c = 15
  OBVIOUS
<1> QED BY <1>2, <1>3, <1>4, <1>5 DEF n

LEMMA NoFloatErrors == ASSUME cur \in 1..15, IsFloat(test_set[cur]) PROVE "wrong" \notin Results
<1> DEFINE p == test_set[cur]
           S == {v \in Values(1) : ~Hangs(p.name, v)}
           T == Values(2)
<1>1. cur \in 13..15
  <2>1. ASSUME NEW c \in 1..12 PROVE ~IsFloat(test_set[c])
    <3> DEFINE r == test_set[c].ranges
    <3>1. r \in IntegerRanges
      BY RangesOf
    <3> HIDE DEF r
    <3>2. \A i \in 1..Len(r) : r[i] # Bits32
      BY <3>1, NoBits
    <3>3. DOMAIN r = 1..Len(r)
      BY <3>1 DEF IntegerRanges
    <3>4. Bits32 \notin ToSet(r)
      BY <3>2, <3>3 DEF ToSet
    <3> QED BY <3>4 DEF r, IsFloat
  <2> QED BY <2>1
<1>2. ASSUME NEW v1 \in S, NEW v2 \in T PROVE "wrong" \notin Found(p, v1, v2)
  <2>1. solution_funct(p.name, v1, v2) = test_funct(p.name, v1, v2)
    BY <1>1, FloatSolutionRight
  <2> QED BY <2>1 DEF Found
<1>3. Results = UNION {Found(p, v1, v2) : v1 \in S, v2 \in T}
  BY DEF Results
<1> HIDE DEF p, S, T
<1> QED BY <1>2, <1>3

\* The options give numbers only.
LEMMA StepGiven == Inv /\ GivenOK /\ [Next]_vars => GivenOK'
<1> SUFFICES ASSUME Inv, GivenOK, [Next]_vars PROVE GivenOK'
  OBVIOUS
<1>1. CASE GetOpt
  <2> DEFINE o == Head(argv)
  <2>1. o \in Options /\ opt' = Option(o) /\ ~Refused(o)
    BY <1>1 DEF Inv, GetOpt
  <2> HIDE DEF o
  <2>2. IsOption(o)
    BY <2>1, AllOptions
  <2> USE DEF Inv, OptOK, OptFields, Option, GivenOK
  <2>3. CASE o.flag \in {"f", "r", "T", "g", "h"}
    BY <2>1, <2>3 DEF Refused
  <2>4. CASE o.flag = "val"
    <3>1. o.k \in 1..2 /\ o.arg.num \in Int
      BY <2>2, <2>4 DEF IsOption
    <3>2. opt' = [opt EXCEPT !.has_arg[o.k] = TRUE, !.argval[o.k] = o.arg.num]
      BY <2>1, <2>4
    <3>3. opt'.argval = [opt.argval EXCEPT ![o.k] = o.arg.num]
      BY <3>2
    <3> QED BY <3>1, <3>3
  <2> QED BY <2>2, <2>3, <2>4 DEF IsOption
<1>2. CASE UNCHANGED opt
  BY <1>2 DEF GivenOK
<1>3. GetOpt \/ UNCHANGED opt
  BY DEF Next, Main, Usage, RunTests, NextPuzzle, GenVals, SetJmp, SetAlarm, Test, Score, Timeout, vars
<1> QED BY <1>1, <1>2, <1>3

LEMMA ArgsOfTable == \A c \in 1..15 : Args(test_set[c]) \in 0..2
<1> SUFFICES ASSUME NEW c \in 1..15 PROVE Args(test_set[c]) \in 0..2
  OBVIOUS
<1>1. /\ Args(test_set[1]) = 2 /\ Args(test_set[2]) = 2 /\ Args(test_set[3]) = 2
      /\ Args(test_set[4]) = 1 /\ Args(test_set[5]) = 1 /\ Args(test_set[6]) = 0
      /\ Args(test_set[7]) = 2 /\ Args(test_set[8]) = 2 /\ Args(test_set[9]) = 1
      /\ Args(test_set[10]) = 1 /\ Args(test_set[11]) = 2 /\ Args(test_set[12]) = 1
      /\ Args(test_set[13]) = 1 /\ Args(test_set[14]) = 1 /\ Args(test_set[15]) = 1
  BY Table DEF Puzzle, Args
<1>2. \/ c = 1 \/ c = 2 \/ c = 3 \/ c = 4 \/ c = 5 \/ c = 6 \/ c = 7 \/ c = 8
      \/ c = 9 \/ c = 10 \/ c = 11 \/ c = 12 \/ c = 13 \/ c = 14 \/ c = 15
  OBVIOUS
<1> QED BY <1>1, <1>2

\* The loops stay inside the arrays.
LEMMA StepLoop == Inv /\ ValsOK /\ LoopOK /\ [Next]_vars => LoopOK'
<1> SUFFICES ASSUME Inv, ValsOK, LoopOK, [Next]_vars PROVE LoopOK'
  OBVIOUS
<1> DEFINE Looping == {"setjmp", "alarm", "test"}
<1>1. CASE pc' \notin Looping
  BY <1>1 DEF LoopOK
<1>2. CASE GenVals
  <2> DEFINE n == Args(test_set[cur])
  <2>1. /\ vals' = [k \in 1..n |-> gen_vals(test_set[cur], arg_test_range(test_set[cur]), k)]
        /\ a' = <<1, 1>> /\ cur' = cur
    BY <1>2 DEF GenVals
  <2>2. cur \in 1..15
    BY <1>2, AskedPlaces DEF Inv, PlaceOK, InTest, GenVals
  <2>3. n \in 0..2
    BY <2>2, ArgsOfTable
  <2>4. ASSUME NEW k \in 1..n PROVE Len(vals'[k]) \in Nat /\ a'[k] \in 1..Len(vals'[k])
    <3>1. Len(gen_vals(test_set[cur], arg_test_range(test_set[cur]), k)) \in 1..MAX_TEST_VALS
      BY <2>2, ArgumentFits
    <3>2. vals'[k] = gen_vals(test_set[cur], arg_test_range(test_set[cur]), k) /\ k \in 1..2
      BY <2>1, <2>3
    <3>3. a'[k] = 1
      BY <2>1, <3>2
    <3> QED BY <3>1, <3>2, <3>3, TestRange
  <2>5. Len(vals') = n
    BY <2>1, <2>3
  <2>6. n' = n /\ a' \in [1..2 -> Nat]
    BY <2>1 DEF Args
  <2> HIDE DEF n
  <2>7. Len(vals') = n' /\ \A k \in 1..Len(vals') : Len(vals'[k]) \in Nat /\ a'[k] \in 1..Len(vals'[k])
    BY <2>4, <2>5, <2>6
  <2> QED BY <2>6, <2>7 DEF LoopOK, n
<1>3. ASSUME pc = "test", NEW result \in Results, Test(result), pc' \in Looping PROVE LoopOK'
  <2>1. /\ vals' = vals /\ cur' = cur
        /\ Len(vals) = Args(test_set[cur]) /\ a \in [1..2 -> Nat]
        /\ \A k \in 1..Len(vals) : Len(vals[k]) \in Nat /\ a[k] \in 1..Len(vals[k])
    BY <1>3 DEF Test, LoopOK
  <2>2. Len(vals) \in 0..2
    <3>1. cur \in 1..15
      BY <1>3, AskedPlaces DEF Inv, PlaceOK, InTest
    <3> QED BY <2>1, <3>1, ArgsOfTable
  <2> DEFINE last(k) == k > Len(vals) \/ a[k] = Len(vals[k])
  <2>3. ~(last(1) /\ last(2))
    BY <1>3 DEF Test
  <2>4. a' = IF ~last(2) THEN [a EXCEPT ![2] = @ + 1] ELSE <<a[1] + 1, 1>>
    BY <1>3 DEF Test
  <2>5. CASE ~last(2)
    <3>1. a' = [a EXCEPT ![2] = a[2] + 1]
      BY <2>4, <2>5
    <3>2. a' \in [1..2 -> Nat] /\ a'[2] = a[2] + 1 /\ \A k \in 1..2 : k # 2 => a'[k] = a[k]
      BY <2>1, <3>1
    <3>3. 2 \in 1..Len(vals) /\ a[2] # Len(vals[2])
      BY <2>2, <2>5
    <3>4. a[2] \in 1..Len(vals[2]) /\ Len(vals[2]) \in Nat
      BY <2>1, <3>3
    <3>5. a'[2] \in 1..Len(vals[2])
      BY <3>2, <3>3, <3>4
    <3>6. \A k \in 1..Len(vals) : a'[k] \in 1..Len(vals[k])
      <4> SUFFICES ASSUME NEW k \in 1..Len(vals), k # 2 PROVE a'[k] = a[k]
        BY <2>1, <3>5
      <4> QED BY <2>1, <3>1
    <3> QED BY <2>1, <3>2, <3>6 DEF LoopOK
  <2>6. CASE last(2)
    <3>1. a' = <<a[1] + 1, 1>> /\ ~last(1)
      BY <2>3, <2>4, <2>6
    <3>2. a' \in [1..2 -> Nat] /\ a'[1] = a[1] + 1 /\ a'[2] = 1
      <4>1. a[1] \in Nat
        BY <2>1
      <4> QED BY <3>1, <4>1
    <3>3. 1 \in 1..Len(vals) /\ a[1] # Len(vals[1])
      BY <2>2, <3>1
    <3>4. a[1] \in 1..Len(vals[1]) /\ Len(vals[1]) \in Nat
      BY <2>1, <3>3
    <3>5. a'[1] \in 1..Len(vals[1])
      BY <3>2, <3>3, <3>4
    <3>6. \A k \in 1..Len(vals) : a'[k] \in 1..Len(vals[k])
      <4> SUFFICES ASSUME NEW k \in 1..Len(vals), k # 1 PROVE a'[k] \in 1..Len(vals[k])
        BY <3>5
      <4>1. k = 2
        <5> DEFINE n == Len(vals)
        <5>1. n \in 0..2 /\ k \in 1..n /\ k # 1
          BY <2>2
        <5> HIDE DEF n
        <5> QED BY ONLY <5>1
      <4>2. Len(vals[k]) \in Nat /\ a[k] \in 1..Len(vals[k])
        BY <2>1
      <4>3. 1 \in 1..Len(vals[k])
        BY <4>2
      <4> QED BY <3>2, <4>1, <4>3
    <3> QED BY <2>1, <3>2, <3>6 DEF LoopOK
  <2> QED BY <2>5, <2>6
<1>4. CASE (SetJmp \/ SetAlarm \/ UNCHANGED vars) /\ pc' \in Looping
  <2>1. pc \in Looping /\ UNCHANGED <<vals, a, cur>>
    BY <1>4 DEF SetJmp, SetAlarm, vars
  <2> QED BY <2>1 DEF LoopOK
<1>5. \/ pc' \notin Looping \/ GenVals \/ SetJmp \/ SetAlarm \/ UNCHANGED vars
      \/ pc = "test" /\ \E result \in Results : Test(result)
  BY DEF Next, Main, GetOpt, Usage, RunTests, NextPuzzle, Score, Timeout, Jump
<1> QED BY <1>1, <1>2, <1>3, <1>4, <1>5

\* A wrong answer comes from a test.
LEMMA ToWrong ==
    [Next]_vars /\ pc' = "score" /\ verdict' = "wrong" =>
        UNCHANGED vars \/ (pc = "test" /\ \E result \in Results : Test(result))
<1> SUFFICES ASSUME Next, pc' = "score", verdict' = "wrong", ~UNCHANGED vars
             PROVE  pc = "test" /\ \E result \in Results : Test(result)
  BY DEF vars
<1>1. ~GetOpt /\ ~Usage /\ ~RunTests /\ ~NextPuzzle /\ ~GenVals /\ ~SetJmp /\ ~SetAlarm /\ ~Score
  BY DEF GetOpt, Usage, RunTests, NextPuzzle, GenVals, SetJmp, SetAlarm, Score
<1>2. ~Timeout
  BY DEF Timeout, Jump
<1>3. Main
  BY <1>2 DEF Next
<1> QED BY <1>1, <1>3 DEF Main

LEMMA StepVerdict ==
    Inv /\ ValsOK /\ GivenOK /\ LoopOK /\ IntegerPuzzlesRight /\ [Next]_vars => IntegerPuzzlesRight'
<1> SUFFICES ASSUME Inv, ValsOK, GivenOK, LoopOK, IntegerPuzzlesRight, [Next]_vars,
                    pc' = "score", verdict' = "wrong"
             PROVE  IsFloat(test_set[cur])'
  BY DEF IntegerPuzzlesRight
<1>1. ASSUME UNCHANGED cur PROVE IsFloat(test_set[cur])' = IsFloat(test_set[cur])
  BY <1>1 DEF IsFloat
<1>2. ASSUME pc = "test", NEW result \in Results, Test(result) PROVE IsFloat(test_set[cur])'
  <2>1. UNCHANGED cur /\ result = "wrong"
    BY <1>2 DEF Test
  <2> QED BY <1>1, <1>2, <2>1, NoErrors, ValuesAre
<1>3. CASE UNCHANGED vars
  BY <1>1, <1>3 DEF vars, IntegerPuzzlesRight
<1>4. UNCHANGED vars \/ (pc = "test" /\ \E result \in Results : Test(result))
  BY ToWrong
<1> QED BY <1>2, <1>3, <1>4

\* The integer puzzles of bits.c compute what tests.c says, for every width and
\* every value that the harness can test them with, where tests.c says it.
THEOREM IntegersRight == Spec => []IntegerPuzzlesRight
<1>1. Init => ValsOK /\ GivenOK /\ LoopOK /\ IntegerPuzzlesRight
  <2> SUFFICES ASSUME Init PROVE ValsOK /\ GivenOK /\ LoopOK /\ IntegerPuzzlesRight
    OBVIOUS
  <2>1. pc = "getopt" /\ opt.argval = <<0, 0>>
    BY DEF Init
  <2>2. GivenOK
    BY <2>1 DEF GivenOK
  <2> QED BY <2>1, <2>2 DEF ValsOK, LoopOK, IntegerPuzzlesRight
<1>2. Spec => [](Inv /\ ValsOK /\ GivenOK /\ LoopOK /\ IntegerPuzzlesRight)
  BY <1>1, InitInv, StepInv, StepVals, StepGiven, StepLoop, StepVerdict, PTL DEF Spec
<1> QED BY <1>2, PTL

\* The floating point puzzles of bits.c compute what tests.c says: negation,
\* rounding to nearest even, doubling, for every width and all values.
THEOREM FloatsRight == Spec => []FloatPuzzlesRight
<1>1. Init => FloatPuzzlesRight
  BY DEF Init, FloatPuzzlesRight
<1>2. Inv /\ FloatPuzzlesRight /\ [Next]_vars => FloatPuzzlesRight'
  <2> SUFFICES ASSUME Inv, FloatPuzzlesRight, [Next]_vars, pc' = "score", verdict' = "wrong", IsFloat(test_set[cur])'
               PROVE  FALSE
    BY DEF FloatPuzzlesRight
  <2>1. ASSUME UNCHANGED cur PROVE IsFloat(test_set[cur])
    BY <2>1 DEF IsFloat
  <2>2. ASSUME pc = "test", NEW result \in Results, Test(result) PROVE FALSE
    <3>1. result = "wrong" /\ UNCHANGED cur
      BY <2>2 DEF Test
    <3>2. cur \in 1..15
      BY <2>2, AskedPlaces DEF Inv, PlaceOK, InTest
    <3> QED BY <2>1, <2>2, <3>1, <3>2, NoFloatErrors
  <2>3. CASE UNCHANGED vars
    BY <2>1, <2>3 DEF vars, FloatPuzzlesRight
  <2>4. UNCHANGED vars \/ (pc = "test" /\ \E result \in Results : Test(result))
    BY ToWrong
  <2> QED BY <2>2, <2>3, <2>4
<1>3. Spec => [](Inv /\ FloatPuzzlesRight)
  BY <1>1, <1>2, InitInv, StepInv, PTL DEF Spec
<1> QED BY <1>3, PTL
=============================================================================
