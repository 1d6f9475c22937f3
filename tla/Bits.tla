-------------------------------- MODULE Bits --------------------------------
(***************************************************************************)
(* The bit puzzles of datalab-handout/bits.c, and the definitions of       *)
(* tests.c they are compared with.                                         *)
(*                                                                         *)
(* A word is a function from bit numbers to BOOLEAN.  The width W is a     *)
(* parameter (32 in the code), and with it every constant that the code    *)
(* writes for 32 bits: 31 is W - 1, the shifts 16, 8, 4, 2, 1 are Halves,  *)
(* a byte is a quarter of a word, and of the bits of a float EXP (8) are   *)
(* exponent and FRAC (23) fraction, so that 24 is FRAC + 1, 126 is Bias - 1*)
(* and 0xFE is 2^EXP - 2.  A shift count is a number.  The definitions     *)
(* named test_... are those of tests.c, on the numbers that words stand    *)
(* for: arithmetic of int wraps around, as in the code gcc makes of them,  *)
(* but for the one definition where it does not (test_fitsBits).           *)
(***************************************************************************)
EXTENDS Integers, FiniteSets, SequencesExt

CONSTANTS
    W,          \* bits of an int
    EXP         \* bits of the exponent of a float

ASSUME WidthAssumption == W \in {8, 16, 32}
\* Every int is in the range of a float, and a float has a fraction.
ASSUME ExpAssumption == EXP \in 2..W - 3 /\ W <= 2^(EXP - 1)

FRAC == W - 1 - EXP
Bias == 2^(EXP - 1) - 1
BYTE == W \div 4

Word == [0..W - 1 -> BOOLEAN]

\* The word that holds the number v, and the numbers a word stands for as
\* unsigned and as int.
Bin(v) == [k \in 0..W - 1 |-> (v \div 2^k) % 2 = 1]
Unsigned(x) ==
    LET sum[k \in 0..W] ==
            IF k = 0 THEN 0 ELSE sum[k - 1] + (IF x[k - 1] THEN 2^(k - 1) ELSE 0)
    IN sum[W]
Signed(x) == Unsigned(x) - (IF x[W - 1] THEN 2^W ELSE 0)

Zero == Bin(0)
One == Bin(1)

\* The operators of C on words: ~ & | ^ + ! << and >> on int and on unsigned.
Not(x) == [k \in 0..W - 1 |-> ~x[k]]
And(x, y) == [k \in 0..W - 1 |-> x[k] /\ y[k]]
Or(x, y) == [k \in 0..W - 1 |-> x[k] \/ y[k]]
Xor(x, y) == [k \in 0..W - 1 |-> x[k] # y[k]]
Add(x, y) == Bin(Unsigned(x) + Unsigned(y))
Flag(b) == IF b THEN One ELSE Zero
LNot(x) == Flag(x = Zero)
Shl(x, n) == [k \in 0..W - 1 |-> k >= n /\ x[k - n]]
Shr(x, n) == [k \in 0..W - 1 |-> k + n <= W - 1 /\ x[k + n]]
Sar(x, n) == [k \in 0..W - 1 |-> x[IF k + n <= W - 1 THEN k + n ELSE W - 1]]

\* The shifts of the divide-and-conquer puzzles: half a word, ..., one bit.
Halves == [j \in 1..CHOOSE n \in 1..W : 2^n = W |-> W \div 2^j]

-----------------------------------------------------------------------------
(* The integer puzzles.                                                    *)

bitAnd(x, y) == Not(Or(Not(x), Not(y)))

getByte(x, n) == And(Sar(x, n * BYTE), Bin(2^BYTE - 1))

MutantShiftSign(x, n) ==
    LET t == And(Sar(x, W - 1), One)
    IN Xor(Sar(Xor(x, Shl(t, W - 1)), n), Shl(t, W - n))

\* The sign is taken out, and put back where the shift has moved it.
logicalShift(x, n) ==
    LET t == And(Sar(x, W - 1), One)
    IN Xor(Sar(Xor(x, Shl(t, W - 1)), n), Shl(t, W + (-n - 1)))

\* The mask for counts in groups of s bits: 0x5555, 0x3333, 0x0F0F, ...
Mask(s) == [k \in 0..W - 1 |-> (k \div s) % 2 = 0]

bitCount(x) ==
    LET pairs(y, s) == Add(And(y, Mask(s)), And(Sar(y, s), Mask(s)))
    IN FoldLeft(pairs, x, Reverse(Halves))

bang(x) ==
    LET fold(y, s) == And(y, Sar(y, s))
    IN And(FoldLeft(fold, Not(x), Halves), One)

tmin == Shl(One, W - 1)

fitsBits(x, n) ==
    LET y == Sar(x, n - 1)
    IN Or(LNot(y), LNot(Add(y, One)))

divpwr2(x, n) ==
    LET rb == And(x, Add(Shl(One, n), Not(Zero)))
    IN Add(Sar(x, n), And(Sar(x, W - 1), Xor(One, LNot(rb))))

negate(x) == Add(Not(x), One)

isPositive(x) == Xor(Add(Sar(x, W - 1), One), LNot(x))

\* ps: x < y by sign, ns: y < x by sign, ss: by the sign of y - x.
isLessOrEqual(x, y) ==
    LET ps == And(And(Sar(x, W - 1), One), Add(Sar(y, W - 1), One))
        ns == And(Add(Sar(x, W - 1), One), And(Sar(y, W - 1), One))
        ss == Add(Sar(Add(Add(Not(x), y), One), W - 1), One)
    IN And(Or(ps, ss), Xor(One, ns))

ilog2(x) ==
    LET step(q, s) ==
            LET r == And(Add(LNot(Sar(q.x, s)), Not(Zero)), Bin(s))
            IN [c |-> Add(q.c, r), x |-> Sar(q.x, Unsigned(r))]
    IN FoldLeft(step, [c |-> Zero, x |-> x], Halves).c

-----------------------------------------------------------------------------
(* The floating point puzzles, on the bits of a float.                     *)

SignMask == Shl(One, W - 1)                 \* 0x80000000
FracMask == Bin(2^FRAC - 1)                 \* 0x007FFFFF
ExpMask == Shl(Bin(2^EXP - 1), FRAC)        \* 0x7F800000

float_neg(uf) ==
    IF And(Not(uf), ExpMask) # Zero \/ And(uf, FracMask) = Zero
    THEN Xor(uf, Shl(One, W - 1)) ELSE uf

\* The loop while(t): the digits of a word.
Digits(t) == IF t = Zero THEN 0 ELSE 1 + CHOOSE k \in 0..W - 1 : t[k] /\ Shr(t, k + 1) = Zero

MutantTruncateSticky(f, n) == Add(Shr(f, n + 1), And(And(Shr(f, n), Shr(f, n + 1)), One))

\* n bits are shifted out into c, then one more is rounded to nearest, to even
\* when c is 0.
RoundOff(f, n) ==
    LET c == Flag(\E k \in 0..n - 1 : f[k])
        g == Shr(f, n)
    IN Add(Shr(g, 1), And(And(g, Or(c, Shr(g, 1))), One))

float_i2f(x) ==
    LET neg == Sar(x, W - 1) # Zero
        abs == IF neg THEN Add(Not(x), One) ELSE x
        b == Digits(abs)
        s == FRAC + 1 - b
        lossy == s < 0
        f == IF lossy THEN RoundOff(abs, b - (FRAC + 2)) ELSE abs
        digits == IF b = 0 THEN 1 - Bias
                  ELSE IF lossy /\ Shr(f, FRAC + 1) # Zero THEN b + 1 ELSE b
        frac == And(Shl(f, IF lossy THEN 0 ELSE s), FracMask)
    IN Or(Or(IF neg THEN SignMask ELSE Zero, frac), Shl(Bin(digits + Bias - 1), FRAC))

\* Denormalized; the largest exponent; other normalized; infinity and NaN.
float_twice(uf) ==
    LET e == Unsigned(And(Shr(uf, FRAC), Bin(2^EXP - 1)))
    IN CASE e = 0 -> Or(And(uf, SignMask), Shl(uf, 1))
         [] e = 2^EXP - 2 -> Or(And(uf, SignMask), Shl(Bin(2^EXP - 1), FRAC))
         [] e = 2^EXP - 1 -> uf
         [] OTHER -> Add(uf, Shl(One, FRAC))

-----------------------------------------------------------------------------
(* The definitions of tests.c.                                             *)

test_bitAnd(x, y) == And(x, y)
test_getByte(x, n) == Bin((Unsigned(x) \div 2^(BYTE * n)) % 2^BYTE)
test_logicalShift(x, n) == Bin(Unsigned(x) \div 2^n)
test_bitCount(x) == Bin(Cardinality({k \in 0..W - 1 : x[k]}))
test_bang(x) == Flag(\A k \in 0..W - 1 : ~x[k])
test_tmin == Bin(-(2^(W - 1)))
\* For n < W.  For n = W the bounds overflow, and what the comparison gives is
\* undefined: gcc -O makes x < 1 << (n - 1) of the second one.
test_fitsBits(x, n) == Flag(Signed(x) \in -(2^(n - 1))..2^(n - 1) - 1)
test_divpwr2(x, n) ==
    LET v == Signed(x) IN Bin(IF v < 0 THEN -((-v) \div 2^n) ELSE v \div 2^n)
test_negate(x) == Bin(-Signed(x))
test_isPositive(x) == Flag(Signed(x) > 0)
test_isLessOrEqual(x, y) == Flag(Signed(x) <= Signed(y))

\* The loop of test_ilog2 looks for the highest bit, and never ends for 0.
test_ilog2(x) == Bin(CHOOSE k \in 0..W - 1 : x[k] /\ \A j \in k + 1..W - 1 : ~x[j])

\* The powers of two that exponents of floats stand for.
Power[n \in Nat] == IF n = 0 THEN 1 ELSE 2 * Power[n - 1]

\* A float without its sign as a number, in units of the smallest positive one;
\* the code of infinity counts as the next power of two.
Infinity == (2^EXP - 1) * 2^FRAC
Magnitude(code) ==
    LET e == code \div 2^FRAC
        frac == code % 2^FRAC
    IN IF e = 0 THEN frac ELSE (2^FRAC + frac) * Power[e - 1]

\* Rounding to nearest even: m lies between two codes that follow each other.
Nearest(m) ==
    LET lo == CHOOSE c \in 0..Infinity - 1 : Magnitude(c) <= m /\ m < Magnitude(c + 1)
        below == m - Magnitude(lo)
        above == Magnitude(lo + 1) - m
    IN IF m >= Magnitude(Infinity) THEN Infinity
       ELSE IF below < above \/ (below = above /\ lo % 2 = 0) THEN lo ELSE lo + 1

\* The sign and the rest of a float.
Negative(x) == x[W - 1]
Code(x) == Unsigned(And(x, Not(SignMask)))
IsNaN(x) == Code(x) > Infinity
Float(neg, code) == Bin(code + (IF neg THEN 2^(W - 1) ELSE 0))

test_float_neg(uf) == IF IsNaN(uf) THEN uf ELSE Float(~Negative(uf), Code(uf))

test_float_i2f(x) ==
    LET v == Signed(x)
        unit == Power[Bias - 1 + FRAC]
    IN Float(v < 0, Nearest((IF v < 0 THEN -v ELSE v) * unit))

test_float_twice(uf) ==
    IF IsNaN(uf) THEN uf
    ELSE Float(Negative(uf),
               IF Code(uf) = Infinity THEN Infinity ELSE Nearest(2 * Magnitude(Code(uf))))
=============================================================================
