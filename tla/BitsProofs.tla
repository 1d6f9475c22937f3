----------------------------- MODULE BitsProofs -----------------------------
(***************************************************************************)
(* Proofs that the bit puzzles of bits.c compute what tests.c says, for    *)
(* every width and every argument.                                         *)
(***************************************************************************)
EXTENDS Bits, SumProofs

LEMMA Width == W \in 8..32
  BY WidthAssumption
USE Width

-----------------------------------------------------------------------------
(***************************************************************************)
(* Powers of two.  The provers know those of given numbers only.           *)
(***************************************************************************)
LEMMA PowerSteps == /\ 2^0 = 1
                    /\ \A k \in 0..31 : 2^k \in Nat \ {0} /\ 2^(k + 1) = 2 * 2^k
<1> DEFINE p(k) == 2^k \in Nat \ {0} /\ 2^(k + 1) = 2 * 2^k
<1>1. /\ p(0) /\ p(1) /\ p(2) /\ p(3) /\ p(4) /\ p(5) /\ p(6) /\ p(7)
      /\ p(8) /\ p(9) /\ p(10) /\ p(11) /\ p(12) /\ p(13) /\ p(14) /\ p(15)
  OBVIOUS
<1>2. /\ p(16) /\ p(17) /\ p(18) /\ p(19) /\ p(20) /\ p(21) /\ p(22) /\ p(23)
      /\ p(24) /\ p(25) /\ p(26) /\ p(27) /\ p(28) /\ p(29) /\ p(30) /\ p(31)
  OBVIOUS
<1>3. ASSUME NEW k \in 0..31 PROVE p(k)
  <2>1. \/ k = 0 \/ k = 1 \/ k = 2 \/ k = 3 \/ k = 4 \/ k = 5 \/ k = 6 \/ k = 7
        \/ k = 8 \/ k = 9 \/ k = 10 \/ k = 11 \/ k = 12 \/ k = 13 \/ k = 14 \/ k = 15
        \/ k = 16 \/ k = 17 \/ k = 18 \/ k = 19 \/ k = 20 \/ k = 21 \/ k = 22 \/ k = 23
        \/ k = 24 \/ k = 25 \/ k = 26 \/ k = 27 \/ k = 28 \/ k = 29 \/ k = 30 \/ k = 31
    BY <1>3
  <2> HIDE DEF p
  <2> QED BY <1>1, <1>2, <2>1
<1>4. 2^0 = 1
  OBVIOUS
<1> QED BY <1>3, <1>4

\* What is needed of them: each is twice the one before, up to a word's.
LEMMA Twice == /\ 2^0 = 1 /\ 2^1 = 2
               /\ \A k \in 0..W : 2^k \in Nat \ {0}
               /\ \A k \in 0..W - 1 : 2^(k + 1) = 2 * 2^k
<1>1. 2^0 = 1 /\ 2^1 = 2 /\ 2^32 \in Nat \ {0}
  OBVIOUS
<1>2. ASSUME NEW k \in 0..W PROVE 2^k \in Nat \ {0}
  <2>1. k \in 0..31 \/ k = 32
    BY <1>2
  <2> QED BY <1>1, <2>1, PowerSteps
<1>3. ASSUME NEW k \in 0..W - 1 PROVE 2^(k + 1) = 2 * 2^k
  <2>1. k \in 0..31
    BY <1>3
  <2> QED BY <2>1, PowerSteps
<1> QED BY <1>1, <1>2, <1>3

\* A claim about 0..n that goes on from each number to the next.
LEMMA Upwards == ASSUME NEW n \in Nat, NEW A, 0 \in A, \A k \in 0..n - 1 : k \in A => k + 1 \in A
                 PROVE  0..n \subseteq A
<1> DEFINE B == {k \in Nat : k \in 0..n => k \in A}
<1>1. 0 \in B
  OBVIOUS
<1>2. ASSUME NEW k \in B PROVE k + 1 \in B
  BY <1>2
<1>3. B = Nat
  <2> HIDE DEF B
  <2>1. B \in SUBSET Nat
    BY DEF B
  <2> QED BY <1>1, <1>2, <2>1, AllNumbers
<1> QED BY <1>3

LEMMA Bitwards == ASSUME NEW A, 0 \in A, \A k \in 0..W - 1 : k \in A => k + 1 \in A PROVE 0..W \subseteq A
<1>1. W \in Nat
  OBVIOUS
<1> QED BY <1>1, Upwards

\* Powers multiply.
LEMMA PowerSum == \A j \in 0..W : \A k \in 0..W - j : 2^(j + k) = 2^j * 2^k
<1> SUFFICES ASSUME NEW j \in 0..W PROVE \A k \in 0..W - j : 2^(j + k) = 2^j * 2^k
  OBVIOUS
<1> DEFINE A == {k \in 0..W - j : 2^(j + k) = 2^j * 2^k}
<1>1. 0 \in A
  BY Twice
<1>2. ASSUME NEW k \in 0..(W - j) - 1, k \in A PROVE k + 1 \in A
  <2>1. j + k \in 0..W - 1 /\ k \in 0..W - 1 /\ k + 1 \in 0..W - j /\ (j + k) + 1 = j + (k + 1)
    BY <1>2
  <2>2. 2^(j + (k + 1)) = 2 * 2^(j + k) /\ 2^(k + 1) = 2 * 2^k
    BY <2>1, Twice
  <2>3. 2^j \in Nat /\ 2^k \in Nat
    BY <2>1, Twice
  <2>4. 2 * (2^j * 2^k) = 2^j * (2 * 2^k)
    <3> DEFINE u == 2^j
               v == 2^k
    <3> HIDE DEF u, v
    <3>1. u \in Nat /\ v \in Nat
      BY <2>3 DEF u, v
    <3>2. 2 * (u * v) = u * (2 * v)
      BY <3>1
    <3> QED BY <3>2 DEF u, v
  <2> QED BY <1>2, <2>1, <2>2, <2>4
<1>3. W - j \in Nat
  OBVIOUS
<1>4. 0..W - j \subseteq A
  <2> HIDE DEF A
  <2> QED BY <1>1, <1>2, <1>3, Upwards
<1> QED BY <1>4

-----------------------------------------------------------------------------
(***************************************************************************)
(* Division.                                                               *)
(***************************************************************************)

\* Quotient and remainder are what makes up the number.
LEMMA Divide ==
    ASSUME NEW m \in Nat \ {0}, NEW v \in Int
    PROVE  /\ v \div m \in Int /\ v % m \in 0..m - 1
           /\ v = m * (v \div m) + (v % m)
  OBVIOUS

LEMMA Quotient ==
    ASSUME NEW m \in Nat \ {0}, NEW v \in Int, NEW q \in Int, NEW r \in 0..m - 1, v = m * q + r
    PROVE  v \div m = q /\ v % m = r
<1>1. v \div m \in Int /\ v % m \in 0..m - 1 /\ v = m * (v \div m) + (v % m)
  BY Divide
<1> DEFINE d == v \div m
           e == v % m
<1>2. d \in Int /\ e \in 0..m - 1 /\ m * d + e = m * q + r
  BY <1>1
<1> HIDE DEF d, e
<1>3. m * (d - q) = r - e
  BY <1>2
<1>4. d - q < 1
  BY <1>2, <1>3
<1>5. q - d < 1
  BY <1>2, <1>3
<1>6. d = q /\ e = r
  BY <1>2, <1>3, <1>4, <1>5
<1> QED BY <1>6 DEF d, e

LEMMA MinusOne == (-1) % 2 = 1
<1> DEFINE v == -1
           m == 2
           r == 1
<1>1. v \in Int /\ m \in Nat \ {0} /\ r \in 0..m - 1 /\ v = m * v + r
  OBVIOUS
<1> HIDE DEF v, m, r
<1>2. v % m = r
  BY <1>1, Quotient
<1> QED BY <1>2 DEF v, m, r

\* Dividing twice.
LEMMA DivideTwice ==
    ASSUME NEW m \in Nat \ {0}, NEW n \in Nat \ {0}, NEW v \in Int
    PROVE  (v \div m) \div n = v \div (m * n)
<1> DEFINE q == v \div m
           d == q \div n
           r == v % m
           e == q % n
<1>1. q \in Int /\ r \in 0..m - 1 /\ v = m * q + r
  BY Divide
<1>2. d \in Int /\ e \in 0..n - 1 /\ q = n * d + e
  BY <1>1, Divide
<1> HIDE DEF q, d, r, e
<1>3. m * n \in Nat \ {0}
  OBVIOUS
<1>4. v = (m * n) * d + (m * e + r)
  <2>1. m * (n * d + e) = (m * n) * d + m * e
    BY <1>2
  <2> QED BY <1>1, <1>2, <2>1
<1>5. m * e + r \in 0..(m * n) - 1
  <2>1. m * e \in Nat /\ m * e <= m * (n - 1)
    BY <1>2
  <2>2. m * (n - 1) = m * n - m
    OBVIOUS
  <2> QED BY <1>1, <1>3, <2>1, <2>2
<1>6. v \div (m * n) = d
  <2> DEFINE mn == m * n
             rest == m * e + r
  <2>1. mn \in Nat \ {0} /\ rest \in 0..mn - 1 /\ v = mn * d + rest
    BY <1>3, <1>4, <1>5
  <2> HIDE DEF mn, rest
  <2>2. v \div mn = d
    BY <1>2, <2>1, Quotient
  <2> QED BY <2>2 DEF mn
<1> QED BY <1>6 DEF d, q

\* What happens to a remainder when the divisor is doubled.
LEMMA NextRemainder ==
    ASSUME NEW m \in Nat \ {0}, NEW v \in Int
    PROVE  v % (2 * m) = (v % m) + (IF (v \div m) % 2 = 1 THEN m ELSE 0)
<1> DEFINE q == v \div m
           r == v % m
<1>1. q \in Int /\ r \in 0..m - 1 /\ v = m * q + r
  BY Divide
<1>2. PICK h \in Int, b \in 0..1 : q = 2 * h + b /\ q % 2 = b
  <2>1. q % 2 \in 0..1 /\ q \div 2 \in Int /\ q = 2 * (q \div 2) + (q % 2)
    <3> HIDE DEF q
    <3> QED BY <1>1
  <2> QED BY <2>1
<1> HIDE DEF q, r
<1>3. v = (2 * m) * h + (r + m * b)
  <2>1. m * (2 * h + b) = (2 * m) * h + m * b
    BY <1>2
  <2> QED BY <1>1, <1>2, <2>1
<1>4. m * b = (IF b = 1 THEN m ELSE 0)
  BY <1>2
<1>5. r + m * b \in 0..(2 * m) - 1
  BY <1>1, <1>2, <1>4
<1>6. v % (2 * m) = r + m * b
  <2> DEFINE mm == 2 * m
             rest == r + m * b
  <2>1. mm \in Nat \ {0} /\ rest \in 0..mm - 1 /\ v = mm * h + rest
    BY <1>3, <1>5
  <2> HIDE DEF mm, rest
  <2>2. v % mm = rest
    BY <1>2, <2>1, Quotient
  <2> QED BY <2>2 DEF mm, rest
<1> QED BY <1>2, <1>4, <1>6 DEF q, r

-----------------------------------------------------------------------------
(***************************************************************************)
(* Words and the numbers they stand for.                                   *)
(***************************************************************************)

\* What bit k contributes, and the number that the k low bits of a word make up.
Bit(x, k) == IF x[k] THEN 2^k ELSE 0
Low(x) == CHOOSE f : f = [k \in 0..W |-> IF k = 0 THEN 0 ELSE f[k - 1] + (IF x[k - 1] THEN 2^(k - 1) ELSE 0)]

LEMMA Bits == ASSUME NEW x, NEW k \in 0..W - 1 PROVE Bit(x, k) \in {0, 2^k} /\ Bit(x, k) \in Nat
BY Twice DEF Bit

\* There are such sums.
LEMMA LowExists ==
    ASSUME NEW x
    PROVE  \E f \in [0..W -> Nat] : f[0] = 0 /\ \A k \in 0..W - 1 : f[k + 1] = f[k] + Bit(x, k)
<1> DEFINE Sums1(f, n) == f[0] = 0 /\ \A k \in 0..n - 1 : f[k + 1] = f[k] + Bit(x, k)
           A == {n \in 0..W : \E f \in [0..W -> Nat] : Sums1(f, n)}
<1>1. 0 \in A
  <2> DEFINE f == [k \in 0..W |-> 0]
  <2>1. f \in [0..W -> Nat] /\ Sums1(f, 0)
    OBVIOUS
  <2> QED BY <2>1
<1>2. ASSUME NEW n \in 0..W - 1, n \in A PROVE n + 1 \in A
  <2>1. PICK f \in [0..W -> Nat] : Sums1(f, n)
    BY <1>2
  <2> DEFINE g == [f EXCEPT ![n + 1] = f[n] + Bit(x, n)]
  <2>2. g \in [0..W -> Nat]
    BY Bits
  <2>3. \A k \in 0..W : k # n + 1 => g[k] = f[k]
    OBVIOUS
  <2>4. g[n + 1] = f[n] + Bit(x, n) /\ g[0] = f[0]
    OBVIOUS
  <2> HIDE DEF g
  <2>5. ASSUME NEW k \in 0..(n + 1) - 1 PROVE g[k + 1] = g[k] + Bit(x, k)
    <3>1. CASE k = n
      BY <2>3, <2>4, <3>1
    <3>2. CASE k # n
      <4>1. k \in 0..n - 1 /\ k \in 0..W /\ k + 1 \in 0..W /\ k + 1 # n + 1 /\ k # n + 1
        BY <3>2
      <4> QED BY <2>1, <2>3, <4>1
    <3> QED BY <3>1, <3>2
  <2>6. Sums1(g, n + 1)
    BY <2>1, <2>4, <2>5
  <2> HIDE DEF Sums1
  <2>7. n + 1 \in 0..W
    OBVIOUS
  <2> QED BY <2>2, <2>6, <2>7
<1>3. W \in A
  <2> HIDE DEF A
  <2> QED BY <1>1, <1>2, Bitwards
<1> QED BY <1>3

LEMMA LowIs ==
    ASSUME NEW x
    PROVE  /\ Unsigned(x) = Low(x)[W]
           /\ Low(x) \in [0..W -> Nat] /\ Low(x)[0] = 0
           /\ \A k \in 0..W - 1 : Low(x)[k + 1] = Low(x)[k] + Bit(x, k)
<1> DEFINE E(f) == [k \in 0..W |-> IF k = 0 THEN 0 ELSE f[k - 1] + (IF x[k - 1] THEN 2^(k - 1) ELSE 0)]
           F == CHOOSE f : f = E(f)
<1>1. Unsigned(x) = F[W] /\ Low(x) = F
  BY Zenon DEF Unsigned, Low
<1>2. PICK f \in [0..W -> Nat] : f[0] = 0 /\ \A k \in 0..W - 1 : f[k + 1] = f[k] + Bit(x, k)
  BY LowExists
<1>3. f = E(f)
  <2>1. ASSUME NEW k \in 0..W, k # 0 PROVE f[k] = f[k - 1] + (IF x[k - 1] THEN 2^(k - 1) ELSE 0)
    <3>1. k - 1 \in 0..W - 1 /\ (k - 1) + 1 = k
      BY <2>1
    <3> QED BY <1>2, <3>1 DEF Bit
  <2>2. \A k \in 0..W : f[k] = IF k = 0 THEN 0 ELSE f[k - 1] + (IF x[k - 1] THEN 2^(k - 1) ELSE 0)
    BY <1>2, <2>1
  <2> QED BY <2>2
<1>4. F = E(F)
  <2> HIDE DEF E
  <2> QED BY <1>3, Zenon
<1> HIDE DEF F
<1>5. F[0] = 0 /\ \A k \in 0..W - 1 : F[k + 1] = F[k] + Bit(x, k)
  <2>1. F[0] = 0
    <3>1. 0 \in 0..W
      OBVIOUS
    <3> QED BY <1>4, <3>1
  <2>2. ASSUME NEW k \in 0..W - 1 PROVE F[k + 1] = F[k] + Bit(x, k)
    <3>1. k + 1 \in 0..W /\ k + 1 # 0 /\ (k + 1) - 1 = k
      OBVIOUS
    <3> QED BY <1>4, <3>1 DEF Bit
  <2> QED BY <2>1, <2>2
<1> DEFINE A == {k \in 0..W : F[k] \in Nat}
<1>6. 0..W \subseteq A
  <2>1. 0 \in A
    BY <1>5
  <2>2. ASSUME NEW k \in 0..W - 1, k \in A PROVE k + 1 \in A
    <3>1. F[k + 1] = F[k] + Bit(x, k) /\ F[k] \in Nat /\ Bit(x, k) \in Nat
      BY <1>5, <2>2, Bits
    <3> QED BY <3>1
  <2> HIDE DEF A
  <2> QED BY <2>1, <2>2, Bitwards
<1>7. F \in [0..W -> Nat]
  <2>1. F = [k \in 0..W |-> F[k]]
    BY <1>4
  <2> QED BY <1>6, <2>1
<1> QED BY <1>1, <1>5, <1>7

\* The k low bits make up less than 2^k.
LEMMA LowBound == ASSUME NEW x PROVE \A k \in 0..W : Low(x)[k] \in Nat /\ Low(x)[k] < 2^k
<1> DEFINE A == {k \in 0..W : Low(x)[k] < 2^k}
<1>1. 0 \in A
  BY LowIs, Twice
<1>2. ASSUME NEW k \in 0..W - 1, k \in A PROVE k + 1 \in A
  <2>1. Low(x)[k + 1] = Low(x)[k] + Bit(x, k) /\ Low(x)[k] \in Nat
    BY LowIs
  <2>2. 2^(k + 1) = 2 * 2^k /\ 2^k \in Nat
    BY Twice
  <2> QED BY <1>2, <2>1, <2>2, Bits
<1>3. 0..W \subseteq A
  <2> HIDE DEF A
  <2> QED BY <1>1, <1>2, Bitwards
<1> QED BY <1>3, LowIs

\* The remainders of a word's number are what its low bits make up.
LEMMA LowRemainder == ASSUME NEW x PROVE \A k \in 0..W : Unsigned(x) % 2^k = Low(x)[k]
<1> SUFFICES ASSUME NEW k \in 0..W PROVE Unsigned(x) % 2^k = Low(x)[k]
  OBVIOUS
<1> DEFINE A == {i \in 0..W - k : \E q \in Nat : Low(x)[k + i] = 2^k * q + Low(x)[k]}
<1>1. 0 \in A
  <2>1. Low(x)[k] \in Nat /\ 2^k \in Nat
    BY LowIs, Twice
  <2>2. Low(x)[k + 0] = 2^k * 0 + Low(x)[k]
    BY <2>1
  <2> QED BY <2>2
<1>2. ASSUME NEW i \in 0..(W - k) - 1, i \in A PROVE i + 1 \in A
  <2>1. PICK q \in Nat : Low(x)[k + i] = 2^k * q + Low(x)[k]
    BY <1>2
  <2>2. k + i \in 0..W - 1 /\ i \in 0..W - k /\ i + 1 \in 0..W - k /\ (k + i) + 1 = k + (i + 1)
    BY <1>2
  <2>3. Low(x)[k + (i + 1)] = Low(x)[k + i] + Bit(x, k + i)
    BY <2>2, LowIs
  <2>4. 2^(k + i) = 2^k * 2^i /\ 2^k \in Nat /\ 2^i \in Nat
    BY <2>2, PowerSum, Twice
  <2>5. PICK b \in 0..1 : Bit(x, k + i) = 2^k * (2^i * b)
    <3>1. CASE x[k + i]
      BY <2>4, <3>1 DEF Bit
    <3>2. CASE ~x[k + i]
      BY <2>4, <3>2 DEF Bit
    <3> QED BY <3>1, <3>2
  <2>6. Low(x)[k + (i + 1)] = 2^k * (q + 2^i * b) + Low(x)[k]
    <3> DEFINE m == 2^k
               n == 2^i
               l == Low(x)[k]
    <3>1. m \in Nat /\ n \in Nat /\ l \in Nat
      BY <2>4, LowIs
    <3>2. Low(x)[k + (i + 1)] = (m * q + l) + m * (n * b)
      BY <2>1, <2>3, <2>5
    <3> HIDE DEF m, n, l
    <3>3. (m * q + l) + m * (n * b) = m * (q + n * b) + l
      BY <3>1
    <3> QED BY <3>2, <3>3 DEF m, n, l
  <2>7. q + 2^i * b \in Nat
    BY <2>4
  <2> QED BY <2>2, <2>6, <2>7
<1>3. W - k \in A
  <2> HIDE DEF A
  <2>1. W - k \in Nat
    OBVIOUS
  <2>2. 0..W - k \subseteq A
    BY <1>1, <1>2, <2>1, Upwards
  <2> QED BY <2>1, <2>2
<1>4. PICK q \in Nat : Low(x)[W] = 2^k * q + Low(x)[k]
  <2>1. k + (W - k) = W
    OBVIOUS
  <2> QED BY <1>3, <2>1
<1>5. 2^k \in Nat \ {0} /\ Low(x)[k] \in Nat /\ Low(x)[k] < 2^k /\ Low(x)[W] \in Nat
  BY Twice, LowBound
<1> DEFINE m == 2^k
           r == Low(x)[k]
           u == Low(x)[W]
<1>6. m \in Nat \ {0} /\ r \in 0..m - 1 /\ u \in Int /\ u = m * q + r
  BY <1>4, <1>5
<1> HIDE DEF m, r, u
<1>7. u % m = r
  BY <1>6, Quotient
<1> QED BY <1>7, LowIs DEF m, r, u

LEMMA WordNumber == ASSUME NEW x PROVE Unsigned(x) \in Nat /\ Unsigned(x) < 2^W
<1>1. W \in 0..W
  OBVIOUS
<1> QED BY <1>1, LowIs, LowBound

\* Bit k of a word in its number.
LEMMA BitOf == ASSUME NEW x \in Word, NEW k \in 0..W - 1
               PROVE  (Unsigned(x) \div 2^k) % 2 = 1 <=> x[k]
<1>1. 2^(k + 1) = 2 * 2^k /\ 2^k \in Nat \ {0} /\ Unsigned(x) \in Nat
  BY Twice, WordNumber
<1>2. Unsigned(x) % (2 * 2^k) = (Unsigned(x) % 2^k) + (IF (Unsigned(x) \div 2^k) % 2 = 1 THEN 2^k ELSE 0)
  <2> DEFINE m == 2^k
             v == Unsigned(x)
  <2>1. m \in Nat \ {0} /\ v \in Int
    BY <1>1
  <2> HIDE DEF m, v
  <2>2. v % (2 * m) = (v % m) + (IF (v \div m) % 2 = 1 THEN m ELSE 0)
    BY <2>1, NextRemainder
  <2> QED BY <2>2 DEF m, v
<1>3. k \in 0..W /\ k + 1 \in 0..W
  OBVIOUS
<1>4. Unsigned(x) % 2^k = Low(x)[k] /\ Unsigned(x) % (2 * 2^k) = Low(x)[k + 1]
  BY <1>1, <1>3, LowRemainder
<1>5. Low(x)[k + 1] = Low(x)[k] + Bit(x, k) /\ Low(x)[k] \in Nat
  BY LowIs, <1>3
<1>6. Bit(x, k) = IF (Unsigned(x) \div 2^k) % 2 = 1 THEN 2^k ELSE 0
  BY <1>1, <1>2, <1>4, <1>5, Bits
<1>7. x[k] \in BOOLEAN
  BY DEF Word
<1> QED BY <1>1, <1>6, <1>7 DEF Bit

\* The word of a number has the number's remainders.
LEMMA BinLow == ASSUME NEW v \in Int PROVE \A k \in 0..W : Low(Bin(v))[k] = v % 2^k
<1> DEFINE A == {k \in 0..W : Low(Bin(v))[k] = v % 2^k}
<1>1. 0 \in A
  BY LowIs, Twice
<1>2. ASSUME NEW k \in 0..W - 1, k \in A PROVE k + 1 \in A
  <2>1. Low(Bin(v))[k + 1] = Low(Bin(v))[k] + Bit(Bin(v), k)
    BY LowIs
  <2>2. Bit(Bin(v), k) = IF (v \div 2^k) % 2 = 1 THEN 2^k ELSE 0
    BY DEF Bit, Bin
  <2>3. 2^(k + 1) = 2 * 2^k /\ 2^k \in Nat \ {0}
    BY Twice
  <2>4. v % (2 * 2^k) = (v % 2^k) + (IF (v \div 2^k) % 2 = 1 THEN 2^k ELSE 0)
    BY <2>3, NextRemainder
  <2> QED BY <1>2, <2>1, <2>2, <2>3, <2>4
<1>3. 0..W \subseteq A
  <2> HIDE DEF A
  <2> QED BY <1>1, <1>2, Bitwards
<1> QED BY <1>3

\* Words and the numbers below 2^W are the same.
LEMMA WordNumbers ==
    /\ \A x \in Word : Unsigned(x) \in 0..2^W - 1 /\ Bin(Unsigned(x)) = x
    /\ \A v \in Int : Bin(v) \in Word /\ Unsigned(Bin(v)) = v % 2^W
<1>1. ASSUME NEW x \in Word PROVE Unsigned(x) \in 0..2^W - 1
  BY WordNumber, Twice
<1>2. ASSUME NEW x \in Word PROVE Bin(Unsigned(x)) = x
  <2>1. x = [k \in 0..W - 1 |-> x[k]] /\ \A k \in 0..W - 1 : x[k] \in BOOLEAN
    BY DEF Word
  <2>2. \A k \in 0..W - 1 : ((Unsigned(x) \div 2^k) % 2 = 1) = x[k]
    BY <2>1, BitOf
  <2> QED BY <2>1, <2>2, Zenon DEF Bin
<1>3. ASSUME NEW v \in Int PROVE Bin(v) \in Word /\ Unsigned(Bin(v)) = v % 2^W
  <2>1. Bin(v) \in Word
    BY DEF Bin, Word
  <2>2. W \in 0..W
    OBVIOUS
  <2> QED BY <2>1, <2>2, BinLow, LowIs
<1> QED BY <1>1, <1>2, <1>3

\* Words that stand for the same number are the same.
LEMMA SameWord == ASSUME NEW x \in Word, NEW y \in Word, Unsigned(x) = Unsigned(y) PROVE x = y
BY WordNumbers

\* Numbers that differ by a multiple have the same remainder, and the other way.
LEMMA Remainders ==
    ASSUME NEW m \in Nat \ {0}, NEW v \in Int, NEW w \in Int
    PROVE  v % m = w % m <=> \E q \in Int : w = v + m * q
<1> DEFINE d == v \div m
           r == v % m
           e == w \div m
<1>1. d \in Int /\ r \in 0..m - 1 /\ v = m * d + r
  BY Divide
<1>2. ASSUME v % m = w % m PROVE \E q \in Int : w = v + m * q
  <2>1. e \in Int /\ w = m * e + r
    BY <1>2, Divide
  <2> HIDE DEF d, r, e
  <2>2. w = v + m * (e - d) /\ e - d \in Int
    BY <1>1, <2>1
  <2> QED BY <2>2
<1>3. ASSUME NEW q \in Int, w = v + m * q PROVE v % m = w % m
  <2> HIDE DEF d, r
  <2>1. w = m * (d + q) + r /\ d + q \in Int
    BY <1>1, <1>3
  <2>2. w % m = r
    BY <1>1, <2>1, Quotient
  <2> QED BY <2>2 DEF r
<1> QED BY <1>2, <1>3

\* The number of values of a word, and half of it.
WordSize == 2^W
HalfSize == 2^(W - 1)
LEMMA Sizes == HalfSize \in Nat \ {0} /\ WordSize = 2 * HalfSize /\ WordSize \in Nat \ {0}
<1>1. W - 1 \in 0..W - 1 /\ W - 1 \in 0..W /\ W \in 0..W /\ (W - 1) + 1 = W
  OBVIOUS
<1> QED BY <1>1, Twice DEF WordSize, HalfSize

\* Numbers stand for the same word if they differ by a multiple of 2^W.
LEMMA BinSame == ASSUME NEW v \in Int, NEW q \in Int PROVE Bin(v + WordSize * q) = Bin(v)
<1> DEFINE w == v + WordSize * q
<1>1. w \in Int
  BY Sizes
<1>2. v % WordSize = w % WordSize
  BY <1>1, Remainders, Sizes
<1> HIDE DEF w
<1>3. Unsigned(Bin(v)) = Unsigned(Bin(w)) /\ Bin(v) \in Word /\ Bin(w) \in Word
  BY <1>1, <1>2, WordNumbers DEF WordSize
<1>4. Bin(v) = Bin(w)
  BY <1>3, SameWord
<1> QED BY <1>4 DEF w

LEMMA UnsignedBin == ASSUME NEW v \in Int PROVE \E q \in Int : Unsigned(Bin(v)) = v + WordSize * q
<1>1. v % WordSize = (v % WordSize) % WordSize /\ v % WordSize \in Int
  <2>1. v % WordSize \in 0..WordSize - 1
    BY Divide, Sizes
  <2> DEFINE r == v % WordSize
  <2>2. r = WordSize * 0 + r /\ r \in Int
    BY <2>1, Sizes
  <2>3. r % WordSize = r
    <3>1. r \in 0..WordSize - 1
      BY <2>1
    <3> HIDE DEF r
    <3> QED BY <2>2, <3>1, Quotient, Sizes
  <2> QED BY <2>2, <2>3
<1>2. \E q \in Int : v % WordSize = v + WordSize * q
  <2> DEFINE r == v % WordSize
  <2>1. r \in Int /\ v % WordSize = r % WordSize
    BY <1>1
  <2> HIDE DEF r
  <2>2. \E q \in Int : r = v + WordSize * q
    BY <2>1, Remainders, Sizes
  <2> QED BY <2>2 DEF r
<1> QED BY <1>2, WordNumbers DEF WordSize

\* + on words is addition of the numbers they stand for.
LEMMA AddNumbers == ASSUME NEW v \in Int, NEW w \in Int PROVE Add(Bin(v), Bin(w)) = Bin(v + w)
<1>1. PICK p \in Int : Unsigned(Bin(v)) = v + WordSize * p
  BY UnsignedBin
<1>2. PICK q \in Int : Unsigned(Bin(w)) = w + WordSize * q
  BY UnsignedBin
<1>3. Unsigned(Bin(v)) + Unsigned(Bin(w)) = (v + w) + WordSize * (p + q)
  BY <1>1, <1>2, Sizes
<1> QED BY <1>3, BinSame DEF Add

\* ~ turns v into -v - 1.
LEMMA NotLow == ASSUME NEW x \in Word PROVE \A k \in 0..W : Low(Not(x))[k] + Low(x)[k] = 2^k - 1
<1> DEFINE A == {k \in 0..W : Low(Not(x))[k] + Low(x)[k] = 2^k - 1}
<1>1. 0 \in A
  <2>1. Low(Not(x))[0] = 0 /\ Low(x)[0] = 0 /\ 2^0 = 1 /\ 0 \in 0..W
    BY LowIs, Twice
  <2> QED BY <2>1
<1>2. ASSUME NEW k \in 0..W - 1, k \in A PROVE k + 1 \in A
  <2>1. Low(x)[k + 1] = Low(x)[k] + Bit(x, k) /\ Low(Not(x))[k + 1] = Low(Not(x))[k] + Bit(Not(x), k)
    BY LowIs
  <2>2. Bit(x, k) + Bit(Not(x), k) = 2^k /\ Bit(x, k) \in Nat /\ Bit(Not(x), k) \in Nat
    <3>1. Not(x)[k] = ~x[k] /\ x[k] \in BOOLEAN
      BY DEF Not, Word
    <3>2. 2^k \in Nat
      BY Twice
    <3>3. CASE x[k]
      <4>1. Bit(x, k) = 2^k /\ Bit(Not(x), k) = 0
        BY <3>1, <3>3, Zenon DEF Bit
      <4> QED BY <3>2, <4>1
    <3>4. CASE ~x[k]
      <4>1. Bit(x, k) = 0 /\ Bit(Not(x), k) = 2^k
        BY <3>1, <3>4, Zenon DEF Bit
      <4> QED BY <3>2, <4>1
    <3> QED BY <3>3, <3>4
  <2>3. Low(x)[k] \in Nat /\ Low(Not(x))[k] \in Nat
    BY LowBound
  <2>4. 2^(k + 1) = 2 * 2^k /\ 2^k \in Nat
    BY Twice
  <2> QED BY <1>2, <2>1, <2>2, <2>3, <2>4
<1>3. 0..W \subseteq A
  <2> HIDE DEF A
  <2> QED BY <1>1, <1>2, Bitwards
<1> QED BY <1>3

LEMMA NotNumber == ASSUME NEW v \in Int PROVE Not(Bin(v)) = Bin(-v - 1)
<1> DEFINE x == Bin(v)
<1>1. x \in Word /\ Not(x) \in Word
  BY WordNumbers DEF Not, Word
<1>2. Unsigned(Not(x)) + Unsigned(x) = WordSize - 1
  <2>1. W \in 0..W
    OBVIOUS
  <2>2. Low(Not(x))[W] + Low(x)[W] = 2^W - 1
    BY <1>1, <2>1, NotLow
  <2> QED BY <2>2, LowIs DEF WordSize
<1>3. PICK q \in Int : Unsigned(x) = v + WordSize * q
  BY UnsignedBin
<1>4. Unsigned(Not(x)) = (-v - 1) + WordSize * (1 - q)
  <2>1. Unsigned(Not(x)) \in Nat
    BY WordNumber
  <2> QED BY <1>2, <1>3, <2>1, Sizes
<1>5. Not(x) = Bin(Unsigned(Not(x)))
  BY <1>1, WordNumbers
<1>6. Bin((-v - 1) + WordSize * (1 - q)) = Bin(-v - 1)
  BY BinSame
<1> QED BY <1>4, <1>5, <1>6

-----------------------------------------------------------------------------
(***************************************************************************)
(* Signed numbers and shifts.                                              *)
(***************************************************************************)
Ints == -HalfSize..HalfSize - 1

\* The highest bit is the sign.
LEMMA SignedIs == ASSUME NEW x \in Word
                  PROVE  /\ Signed(x) \in Ints /\ Bin(Signed(x)) = x
                         /\ x[W - 1] <=> Signed(x) < 0
                         /\ Signed(x) = IF x[W - 1] THEN Unsigned(x) - WordSize ELSE Unsigned(x)
<1>1. /\ Unsigned(x) = Low(x)[W - 1] + Bit(x, W - 1)
      /\ Low(x)[W - 1] \in Nat /\ Low(x)[W - 1] < HalfSize
  <2>1. W - 1 \in 0..W - 1 /\ W - 1 \in 0..W /\ (W - 1) + 1 = W
    OBVIOUS
  <2>2. Low(x)[W] = Low(x)[W - 1] + Bit(x, W - 1)
    BY <2>1, LowIs
  <2> QED BY <2>1, <2>2, LowIs, LowBound DEF HalfSize
<1>2. Bin(Signed(x)) = x
  <2>1. Signed(x) = Unsigned(x) + WordSize * (IF x[W - 1] THEN -1 ELSE 0)
    BY <1>1, WordNumber, Sizes DEF Signed, WordSize
  <2>2. Bin(Unsigned(x)) = x /\ Unsigned(x) \in Int
    BY WordNumbers, WordNumber
  <2> QED BY <2>1, <2>2, BinSame
<1>3. CASE x[W - 1]
  <2>1. Bit(x, W - 1) = HalfSize
    BY <1>3, Zenon DEF Bit, HalfSize
  <2>2. Signed(x) = Unsigned(x) - WordSize
    BY <1>3 DEF Signed, WordSize
  <2> QED BY <1>1, <1>2, <1>3, <2>1, <2>2, Sizes DEF Ints
<1>4. CASE ~x[W - 1]
  <2>1. Bit(x, W - 1) = 0
    BY <1>4, Zenon DEF Bit
  <2>2. Signed(x) = Unsigned(x)
    BY <1>4, WordNumber DEF Signed
  <2> QED BY <1>1, <1>2, <1>4, <2>1, <2>2, Sizes DEF Ints
<1> QED BY <1>3, <1>4

LEMMA SignedBin == ASSUME NEW v \in Ints PROVE Signed(Bin(v)) = v /\ (Bin(v)[W - 1] <=> v < 0)
<1>1. v \in Int
  BY Sizes DEF Ints
<1>2. Bin(v) \in Word /\ Signed(Bin(v)) \in Ints /\ (Bin(v)[W - 1] <=> Signed(Bin(v)) < 0)
  BY <1>1, WordNumbers, SignedIs
<1>3. PICK q \in Int : Unsigned(Bin(v)) = v + WordSize * q
  BY <1>1, UnsignedBin
<1>4. PICK p \in Int : Signed(Bin(v)) = v + WordSize * p
  <2>1. Signed(Bin(v)) = IF Bin(v)[W - 1] THEN Unsigned(Bin(v)) - WordSize ELSE Unsigned(Bin(v))
    BY <1>2, SignedIs
  <2>2. CASE Bin(v)[W - 1]
    <3>1. Signed(Bin(v)) = v + WordSize * (q - 1) /\ q - 1 \in Int
      BY <1>1, <1>3, <2>1, <2>2, Sizes
    <3> QED BY <3>1
  <2>3. CASE ~Bin(v)[W - 1]
    BY <1>3, <2>1, <2>3
  <2> QED BY <2>2, <2>3
<1>5. p = 0
  <2>1. WordSize * p < WordSize /\ WordSize * p > -WordSize
    BY <1>2, <1>4, Sizes DEF Ints
  <2>2. p < 1 /\ p > -1
    BY <2>1, Sizes
  <2> QED BY <2>2
<1> QED BY <1>1, <1>2, <1>4, <1>5, Sizes

LEMMA PowerOrder == \A j \in 0..W : \A k \in j..W : 2^j <= 2^k
<1> SUFFICES ASSUME NEW j \in 0..W, NEW k \in j..W PROVE 2^j <= 2^k
  OBVIOUS
<1>1. k - j \in 0..W - j /\ k - j \in 0..W /\ j + (k - j) = k
  OBVIOUS
<1>2. 2^k = 2^j * 2^(k - j) /\ 2^j \in Nat \ {0} /\ 2^(k - j) \in Nat \ {0}
  BY <1>1, PowerSum, Twice
<1> QED BY <1>2

\* >> on ints divides, rounding down.
LEMMA SarNumber == ASSUME NEW v \in Ints, NEW n \in 0..W - 1 PROVE Sar(Bin(v), n) = Bin(v \div 2^n)
<1> DEFINE w == v \div 2^n
<1>1. v \in Int /\ 2^n \in Nat \ {0} /\ w \in Int
  <2>1. v \in Int /\ 2^n \in Nat \ {0}
    BY Sizes, Twice DEF Ints
  <2> QED BY <2>1
<1>2. ASSUME NEW k \in 0..W - 1, k + n <= W - 1
      PROVE  Bin(v)[k + n] <=> (w \div 2^k) % 2 = 1
  <2>1. k + n \in 0..W - 1 /\ n \in 0..W /\ k \in 0..W - n /\ n + k = k + n /\ k \in 0..W
    BY <1>2
  <2>2. 2^(k + n) = 2^n * 2^k /\ 2^k \in Nat \ {0}
    BY <2>1, PowerSum, Twice
  <2>3. w \div 2^k = v \div 2^(k + n)
    <3> DEFINE m == 2^n
               l == 2^k
    <3>1. m \in Nat \ {0} /\ l \in Nat \ {0}
      BY <1>1, <2>2
    <3> HIDE DEF m, l
    <3>2. (v \div m) \div l = v \div (m * l)
      BY <1>1, <3>1, DivideTwice
    <3> QED BY <2>2, <3>2 DEF m, l
  <2> QED BY <2>1, <2>3 DEF Bin
<1>3. ASSUME NEW k \in 0..W - 1, k + n > W - 1
      PROVE  Bin(v)[W - 1] <=> (w \div 2^k) % 2 = 1
  <2>1. W - 1 - n \in 0..W /\ k \in (W - 1 - n)..W /\ k \in 0..W /\ n \in 0..W /\ W - 1 - n \in 0..W - n
        /\ n + (W - 1 - n) = W - 1
    BY <1>3
  <2>2. HalfSize = 2^n * 2^(W - 1 - n) /\ 2^(W - 1 - n) <= 2^k
    BY <2>1, PowerSum, PowerOrder DEF HalfSize
  <2>3. 2^(W - 1 - n) \in Nat \ {0} /\ 2^k \in Nat \ {0}
    BY <2>1, Twice
  <2> DEFINE m == 2^n
             l == 2^k
             h == 2^(W - 1 - n)
             r == v % 2^n
  <2>4. m \in Nat \ {0} /\ l \in Nat \ {0} /\ h \in Nat \ {0} /\ HalfSize = m * h /\ h <= l
    BY <1>1, <2>2, <2>3
  <2>5. r \in 0..m - 1 /\ v = m * w + r
    <3> HIDE DEF m
    <3>1. v % m \in 0..m - 1 /\ v = m * (v \div m) + (v % m)
      BY <1>1, <2>4, Divide
    <3> QED BY <3>1 DEF m
  <2>6. v >= -HalfSize /\ v < HalfSize
    BY Sizes DEF Ints
  <2> HIDE DEF m, l, h, r, w
  <2>7. w < h /\ w >= -h
    <3>1. m * w < m * h
      BY <1>1, <2>4, <2>5, <2>6
    <3>2. m * (w + 1) > m * (-h)
      BY <1>1, <2>4, <2>5, <2>6
    <3> QED BY <1>1, <2>4, <3>1, <3>2
  <2>8. v < 0 <=> w < 0
    BY <1>1, <2>4, <2>5
  <2>9. CASE w < 0
    <3>1. w = l * (-1) + (w + l) /\ w + l \in 0..l - 1
      BY <1>1, <2>4, <2>7, <2>9
    <3>2. w \div l = -1
      BY <1>1, <2>4, <3>1, Quotient
    <3>3. (-1) % 2 = 1
      BY MinusOne
    <3> QED BY <2>8, <2>9, <3>2, <3>3, SignedBin DEF l
  <2>10. CASE ~(w < 0)
    <3>1. w = l * 0 + w /\ w \in 0..l - 1
      BY <1>1, <2>4, <2>7, <2>10
    <3>2. w \div l = 0
      BY <1>1, <2>4, <3>1, Quotient
    <3>3. 0 % 2 # 1
      OBVIOUS
    <3> QED BY <2>8, <2>10, <3>2, <3>3, SignedBin DEF l
  <2> QED BY <2>9, <2>10
<1>4. \A k \in 0..W - 1 : Bin(v)[IF k + n <= W - 1 THEN k + n ELSE W - 1] = ((w \div 2^k) % 2 = 1)
  <2> SUFFICES ASSUME NEW k \in 0..W - 1
               PROVE  Bin(v)[IF k + n <= W - 1 THEN k + n ELSE W - 1] = ((w \div 2^k) % 2 = 1)
    OBVIOUS
  <2> DEFINE j == IF k + n <= W - 1 THEN k + n ELSE W - 1
             b == (w \div 2^k) % 2 = 1
  <2>1. j \in 0..W - 1
    OBVIOUS
  <2>2. Bin(v)[j] \in BOOLEAN
    BY <2>1 DEF Bin
  <2>3. k + n <= W - 1 \/ k + n > W - 1
    OBVIOUS
  <2>4. Bin(v)[j] <=> b
    <3>1. CASE k + n <= W - 1
      BY <1>2, <3>1
    <3>2. CASE k + n > W - 1
      <4>1. j = W - 1
        BY <3>2
      <4> QED BY <1>3, <3>2, <4>1
    <3> QED BY <2>3, <3>1, <3>2
  <2> HIDE DEF j, b
  <2>5. Bin(v)[j] = b
    BY <2>2, <2>4
  <2> QED BY <2>5 DEF j, b
<1> HIDE DEF w
<1>5. Sar(Bin(v), n) = Bin(w)
  BY <1>4 DEF Sar, Bin
<1> QED BY <1>5 DEF w

\* >> on unsigned divides, and << multiplies.
LEMMA ShrNumber == ASSUME NEW x \in Word, NEW n \in 0..W - 1 PROVE Shr(x, n) = Bin(Unsigned(x) \div 2^n)
<1> DEFINE u == Unsigned(x)
           w == u \div 2^n
<1>1. u \in Nat /\ u < WordSize /\ 2^n \in Nat \ {0} /\ w \in Int /\ Bin(u) = x
  <2>1. u \in Nat /\ u < WordSize /\ 2^n \in Nat \ {0} /\ Bin(u) = x
    BY WordNumber, WordNumbers, Twice DEF WordSize
  <2> QED BY <2>1
<1>2. ASSUME NEW k \in 0..W - 1, k + n <= W - 1
      PROVE  x[k + n] <=> (w \div 2^k) % 2 = 1
  <2>1. k + n \in 0..W - 1 /\ n \in 0..W /\ k \in 0..W - n /\ n + k = k + n /\ k \in 0..W
    BY <1>2
  <2>2. 2^(k + n) = 2^n * 2^k /\ 2^k \in Nat \ {0}
    BY <2>1, PowerSum, Twice
  <2>3. w \div 2^k = u \div 2^(k + n)
    <3> DEFINE m == 2^n
               l == 2^k
    <3>1. m \in Nat \ {0} /\ l \in Nat \ {0} /\ u \in Int
      BY <1>1, <2>2
    <3> HIDE DEF m, l, u
    <3>2. (u \div m) \div l = u \div (m * l)
      BY <3>1, DivideTwice
    <3> QED BY <2>2, <3>2 DEF m, l
  <2> HIDE DEF w
  <2> QED BY <2>1, <2>3, BitOf
<1>3. ASSUME NEW k \in 0..W - 1, k + n > W - 1
      PROVE  (w \div 2^k) % 2 # 1
  <2>1. W - n \in 0..W /\ k \in (W - n)..W /\ k \in 0..W /\ n \in 0..W /\ W - n \in 0..W - n
        /\ n + (W - n) = W
    BY <1>3
  <2>2. WordSize = 2^n * 2^(W - n) /\ 2^(W - n) <= 2^k
    BY <2>1, PowerSum, PowerOrder DEF WordSize
  <2>3. 2^(W - n) \in Nat \ {0} /\ 2^k \in Nat \ {0}
    BY <2>1, Twice
  <2> DEFINE m == 2^n
             l == 2^k
             h == 2^(W - n)
             r == u % 2^n
  <2>4. m \in Nat \ {0} /\ l \in Nat \ {0} /\ h \in Nat \ {0} /\ WordSize = m * h /\ h <= l
    BY <1>1, <2>2, <2>3
  <2>5. r \in 0..m - 1 /\ u = m * w + r
    <3> HIDE DEF m, u
    <3>1. u % m \in 0..m - 1 /\ u = m * (u \div m) + (u % m)
      BY <1>1, <2>4, Divide
    <3> QED BY <3>1 DEF m
  <2> HIDE DEF m, l, h, r, w, u
  <2>6. w < h /\ w >= 0
    <3>1. m * w < m * h
      BY <1>1, <2>4, <2>5
    <3>2. m * (w + 1) > m * 0
      BY <1>1, <2>4, <2>5
    <3> QED BY <1>1, <2>4, <3>1, <3>2
  <2>7. w = l * 0 + w /\ w \in 0..l - 1
    BY <1>1, <2>4, <2>6
  <2>8. w \div l = 0
    BY <1>1, <2>4, <2>7, Quotient
  <2>9. 0 % 2 # 1
    OBVIOUS
  <2> QED BY <2>8, <2>9 DEF l
<1>4. ASSUME NEW k \in 0..W - 1
      PROVE  (k + n <= W - 1 /\ x[k + n]) = ((w \div 2^k) % 2 = 1)
  <2>1. k + n <= W - 1 \/ k + n > W - 1
    OBVIOUS
  <2>2. CASE k + n <= W - 1
    <3> HIDE DEF w
    <3> QED BY <1>2, <2>2
  <2>3. CASE k + n > W - 1
    <3>1. ~(k + n <= W - 1)
      BY <2>3
    <3> HIDE DEF w
    <3> QED BY <1>3, <2>3, <3>1
  <2> QED BY <2>1, <2>2, <2>3
<1> HIDE DEF w
<1>5. Shr(x, n) = Bin(w)
  BY <1>4 DEF Shr, Bin
<1> QED BY <1>5 DEF w

LEMMA ShlNumber == ASSUME NEW v \in Int, NEW n \in 0..W - 1 PROVE Shl(Bin(v), n) = Bin(v * 2^n)
<1> DEFINE w == v * 2^n
<1>1. 2^n \in Nat \ {0} /\ w \in Int
  <2>1. 2^n \in Nat \ {0}
    BY Twice
  <2> QED BY <2>1
<1>2. ASSUME NEW k \in 0..W - 1, k >= n
      PROVE  Bin(v)[k - n] <=> (w \div 2^k) % 2 = 1
  <2>1. k - n \in 0..W - 1 /\ n \in 0..W /\ k - n \in 0..W - n /\ n + (k - n) = k /\ k - n \in 0..W
    BY <1>2
  <2>2. 2^k = 2^n * 2^(k - n) /\ 2^(k - n) \in Nat \ {0}
    BY <2>1, PowerSum, Twice
  <2> DEFINE m == 2^n
             l == 2^(k - n)
  <2>3. m \in Nat \ {0} /\ l \in Nat \ {0} /\ 0 \in 0..m - 1 /\ w = m * v + 0
    BY <1>1, <2>2
  <2>4. w \div 2^k = v \div l
    <3> HIDE DEF m, l, w
    <3>1. w \div m = v
      BY <1>1, <2>3, Quotient
    <3>2. (w \div m) \div l = w \div (m * l)
      BY <1>1, <2>3, DivideTwice
    <3> QED BY <2>2, <3>1, <3>2 DEF m, l
  <2> HIDE DEF w
  <2> QED BY <2>1, <2>4 DEF Bin
<1>3. ASSUME NEW k \in 0..W - 1, k < n
      PROVE  (w \div 2^k) % 2 # 1
  <2>1. n - k \in 1..W - k /\ n - k - 1 \in 0..W - 1 /\ n - k - 1 \in 0..W /\ k \in 0..W
        /\ k + (n - k) = n /\ (n - k - 1) + 1 = n - k /\ n - k \in 0..W - k
    BY <1>3
  <2>2. 2^n = 2^k * 2^(n - k) /\ 2^(n - k) = 2 * 2^(n - k - 1) /\ 2^k \in Nat \ {0} /\ 2^(n - k - 1) \in Nat
    BY <2>1, PowerSum, Twice
  <2> DEFINE m == 2^k
             h == v * 2^(n - k - 1)
             d == 2 * h
             p == 2^(n - k - 1)
  <2>3. m \in Nat \ {0} /\ h \in Int /\ d \in Int /\ 0 \in 0..m - 1
    BY <2>2
  <2>4. w = m * d + 0
    <3>1. w = v * (m * (2 * p)) /\ d = 2 * (v * p) /\ p \in Nat
      BY <2>2
    <3> HIDE DEF w, m, d, p
    <3>2. v * (m * (2 * p)) = m * (2 * (v * p)) + 0
      BY <2>3, <3>1
    <3> QED BY <3>1, <3>2
  <2> HIDE DEF w, m
  <2>5. w \div m = d
    <3> HIDE DEF d, h
    <3> QED BY <1>1, <2>3, <2>4, Quotient
  <2>6. d % 2 = 0
    <3> HIDE DEF h
    <3> QED BY <2>3
  <2> HIDE DEF d
  <2> QED BY <2>5, <2>6 DEF m
<1>4. ASSUME NEW k \in 0..W - 1
      PROVE  (k >= n /\ Bin(v)[k - n]) = ((w \div 2^k) % 2 = 1)
  <2>1. k >= n \/ k < n
    OBVIOUS
  <2>2. CASE k >= n
    <3> HIDE DEF w
    <3> QED BY <1>2, <2>2
  <2>3. CASE k < n
    <3>1. ~(k >= n)
      BY <2>3
    <3> HIDE DEF w
    <3> QED BY <1>3, <2>3, <3>1
  <2> QED BY <2>1, <2>2, <2>3
<1> HIDE DEF w
<1>5. Shl(Bin(v), n) = Bin(w)
  BY <1>4 DEF Shl, Bin
<1> QED BY <1>5 DEF w

-----------------------------------------------------------------------------
(***************************************************************************)
(* Masks and flags.                                                        *)
(***************************************************************************)
BitNos == 0..W - 1

\* The word of a number cut off at bit j.
LEMMA CutOff == ASSUME NEW v \in Int, NEW j \in 0..W
                PROVE  Bin(v % 2^j) = [k \in BitNos |-> k < j /\ Bin(v)[k]]
<1> DEFINE y == Bin(v)
           x == [k \in BitNos |-> k < j /\ y[k]]
           A == {k \in 0..W : Low(x)[k] = IF k < j THEN Low(y)[k] ELSE Low(y)[j]}
<1>1. y \in Word /\ x \in Word /\ \A k \in BitNos : x[k] <=> (k < j /\ y[k])
  BY WordNumbers DEF Word, BitNos
<1> HIDE DEF x, y
<1>2. 0 \in A
  <2>1. Low(x)[0] = 0 /\ Low(y)[0] = 0 /\ 0 \in 0..W /\ (j = 0 \/ 0 < j)
    BY LowIs
  <2> QED BY <2>1
<1>3. ASSUME NEW k \in 0..W - 1, k \in A PROVE k + 1 \in A
  <2>1. Low(x)[k + 1] = Low(x)[k] + Bit(x, k) /\ Low(y)[k + 1] = Low(y)[k] + Bit(y, k)
        /\ Low(y)[k] \in Nat /\ Low(y)[j] \in Nat /\ k \in BitNos
    BY LowIs, LowBound DEF BitNos
  <2>2. CASE k < j
    <3>1. Bit(x, k) = Bit(y, k)
      BY <1>1, <2>1, <2>2, Zenon DEF Bit
    <3>2. Low(x)[k + 1] = Low(y)[k + 1] /\ k + 1 \in 0..W
      BY <1>3, <2>1, <2>2, <3>1
    <3>3. k + 1 < j \/ k + 1 = j
      BY <2>2
    <3> QED BY <3>2, <3>3
  <2>3. CASE ~(k < j)
    <3>1. Bit(x, k) = 0
      BY <1>1, <2>1, <2>3, Zenon DEF Bit
    <3>2. Low(x)[k + 1] = Low(y)[j] /\ k + 1 \in 0..W /\ ~(k + 1 < j)
      BY <1>3, <2>1, <2>3, <3>1
    <3> QED BY <3>2
  <2> QED BY <2>2, <2>3
<1>4. W \in A
  <2>1. W \in 0..W
    OBVIOUS
  <2>2. 0..W \subseteq A
    <3> HIDE DEF A
    <3> QED BY <1>2, <1>3, Bitwards
  <2> QED BY <2>1, <2>2
<1>5. Low(x)[W] = Low(y)[j]
  <2>1. W < j \/ W = j \/ ~(W < j)
    OBVIOUS
  <2> QED BY <1>4
<1>6. Low(y)[j] = v % 2^j
  BY BinLow DEF y
<1>7. Bin(Unsigned(x)) = x /\ Unsigned(x) = Low(x)[W]
  BY <1>1, WordNumbers, LowIs
<1> QED BY <1>5, <1>6, <1>7 DEF x, y

\* All bits of the word of -1 are set, and the low ones of that of 2^j - 1.
LEMMA AllOnes == \A k \in BitNos : Bin(-1)[k]
<1> SUFFICES ASSUME NEW k \in BitNos PROVE ((-1) \div 2^k) % 2 = 1
  BY DEF Bin, BitNos
<1> DEFINE m == 2^k
           v == -1
           r == m - 1
<1>1. m \in Nat \ {0} /\ v \in Int /\ r \in 0..m - 1 /\ v = m * v + r
  <2>1. m \in Nat \ {0}
    BY Twice DEF BitNos
  <2> HIDE DEF m
  <2> QED BY <2>1
<1> HIDE DEF m, v, r
<1>2. v \div m = v
  BY <1>1, Quotient
<1> QED BY <1>2, MinusOne DEF v, m

LEMMA Masks == ASSUME NEW j \in 0..W PROVE Bin(2^j - 1) = [k \in BitNos |-> k < j]
<1> DEFINE v == -1
           m == 2^j
           q == -1
           r == m - 1
<1>1. v % m = r
  <2>1. m \in Nat \ {0}
    BY Twice
  <2> HIDE DEF m
  <2>2. v \in Int /\ q \in Int /\ r \in 0..m - 1 /\ v = m * q + r
    BY <2>1
  <2> HIDE DEF v, q, r
  <2> QED BY <2>1, <2>2, Quotient
<1>2. Bin(v % 2^j) = [k \in BitNos |-> k < j /\ Bin(v)[k]]
  <2>1. v \in Int
    OBVIOUS
  <2> HIDE DEF v
  <2> QED BY <2>1, CutOff
<1>3. [k \in BitNos |-> k < j /\ Bin(v)[k]] = [k \in BitNos |-> k < j]
  BY AllOnes
<1> QED BY <1>1, <1>2, <1>3

LEMMA ZeroOne == /\ Zero = [k \in BitNos |-> FALSE] /\ One = [k \in BitNos |-> k = 0]
                 /\ Zero # One /\ Zero \in Word /\ One \in Word
                 /\ Not(Zero) = Bin(-1) /\ \A b \in BOOLEAN : Flag(b) \in Word
<1>1. 0 \in 0..W /\ 1 \in 0..W /\ 2^0 - 1 = 0 /\ 2^1 - 1 = 1
  BY Twice
<1>2. Zero = [k \in BitNos |-> k < 0] /\ One = [k \in BitNos |-> k < 1]
  <2>1. Bin(2^0 - 1) = [k \in BitNos |-> k < 0] /\ Bin(2^1 - 1) = [k \in BitNos |-> k < 1]
    BY <1>1, Masks
  <2> QED BY <1>1, <2>1 DEF Zero, One
<1>3. Zero = [k \in BitNos |-> FALSE] /\ One = [k \in BitNos |-> k = 0]
  <2>1. \A k \in BitNos : (k < 0) = FALSE /\ (k < 1) = (k = 0)
    BY DEF BitNos
  <2> QED BY <1>2, <2>1
<1>4. Zero # One
  <2>1. 0 \in BitNos
    BY DEF BitNos
  <2>2. ~Zero[0] /\ One[0]
    BY <1>3, <2>1
  <2> QED BY <2>2
<1>5. Zero \in Word /\ One \in Word
  BY WordNumbers DEF Zero, One
<1>6. Not(Zero) = Bin(-1)
  <2>1. Not(Bin(0)) = Bin(-0 - 1)
    BY NotNumber
  <2> QED BY <2>1 DEF Zero
<1> QED BY <1>3, <1>4, <1>5, <1>6 DEF Flag

\* Only 0 has no bits, among the numbers an int holds.
LEMMA IsZero == ASSUME NEW v \in Int, v > -WordSize, v < WordSize PROVE Bin(v) = Zero <=> v = 0
<1>1. ASSUME Bin(v) = Zero PROVE v = 0
  <2>1. PICK q \in Int : Unsigned(Bin(v)) = v + WordSize * q
    BY UnsignedBin
  <2>2. Unsigned(Bin(0)) = 0
    <3>1. Low(Bin(0))[W] = 0 % 2^W
      <4>1. W \in 0..W
        OBVIOUS
      <4> QED BY <4>1, BinLow
    <3>2. 0 % WordSize = 0
      <4>1. 0 = WordSize * 0 + 0 /\ 0 \in 0..WordSize - 1
        BY Sizes
      <4> QED BY <4>1, Sizes, Quotient
    <3> QED BY <3>1, <3>2, LowIs DEF WordSize
  <2>3. v = WordSize * (-q)
    BY <1>1, <2>1, <2>2, Sizes DEF Zero
  <2>4. -q < 1 /\ -q > -1
    BY <2>3, Sizes
  <2>5. q = 0
    BY <2>4
  <2> QED BY <2>3, <2>5, Sizes
<1> QED BY <1>1 DEF Zero

\* Flags are computed with like truth values.
LEMMA Flags ==
    ASSUME NEW p \in BOOLEAN, NEW q \in BOOLEAN
    PROVE  /\ And(Flag(p), Flag(q)) = Flag(p /\ q)
           /\ Or(Flag(p), Flag(q)) = Flag(p \/ q)
           /\ Xor(Flag(p), Flag(q)) = Flag(p # q)
           /\ Flag(p) = Bin(IF p THEN 1 ELSE 0)
<1>1. \A b \in BOOLEAN : Flag(b) = [k \in BitNos |-> b /\ k = 0]
  <2>1. Flag(TRUE) = [k \in BitNos |-> TRUE /\ k = 0]
    BY ZeroOne DEF Flag
  <2>2. Flag(FALSE) = [k \in BitNos |-> FALSE /\ k = 0]
    BY ZeroOne DEF Flag
  <2> QED BY <2>1, <2>2
<1>2. \A b \in BOOLEAN : \A k \in BitNos : Flag(b)[k] = (b /\ k = 0)
  BY <1>1
<1>3. And(Flag(p), Flag(q)) = Flag(p /\ q)
  <2>1. \A k \in BitNos : (Flag(p)[k] /\ Flag(q)[k]) = ((p /\ q) /\ k = 0)
    BY <1>2
  <2> QED BY <1>1, <2>1 DEF And, BitNos
<1>4. Or(Flag(p), Flag(q)) = Flag(p \/ q)
  <2>1. \A k \in BitNos : (Flag(p)[k] \/ Flag(q)[k]) = ((p \/ q) /\ k = 0)
    BY <1>2
  <2> QED BY <1>1, <2>1 DEF Or, BitNos
<1>5. Xor(Flag(p), Flag(q)) = Flag(p # q)
  <2>1. \A k \in BitNos : (Flag(p)[k] # Flag(q)[k]) = ((p # q) /\ k = 0)
    BY <1>2
  <2> QED BY <1>1, <2>1 DEF Xor, BitNos
<1>6. Flag(p) = Bin(IF p THEN 1 ELSE 0)
  BY DEF Flag, Zero, One
<1> QED BY <1>3, <1>4, <1>5, <1>6

-----------------------------------------------------------------------------
(***************************************************************************)
(* The integer puzzles without loops.                                      *)
(***************************************************************************)

\* bitAnd, by De Morgan's law.
THEOREM BitAndRight == \A x, y \in Word : bitAnd(x, y) = test_bitAnd(x, y)
<1> SUFFICES ASSUME NEW x \in Word, NEW y \in Word PROVE bitAnd(x, y) = test_bitAnd(x, y)
  OBVIOUS
<1>1. \A k \in 0..W - 1 : ~(~x[k] \/ ~y[k]) = (x[k] /\ y[k])
  BY DEF Word
<1>2. bitAnd(x, y) = [k \in 0..W - 1 |-> ~(~x[k] \/ ~y[k])]
  BY DEF bitAnd, Not, Or
<1> QED BY <1>1, <1>2 DEF test_bitAnd, And

\* What Sar and Shr have in common: the bits that were in the word.
LEMMA SameBits == ASSUME NEW x \in Word, NEW n \in 0..W - 1, NEW k \in BitNos, k + n <= W - 1
                  PROVE  Sar(x, n)[k] = x[k + n] /\ Shr(x, n)[k] = x[k + n]
<1>1. k + n \in BitNos /\ x[k + n] \in BOOLEAN
  BY DEF BitNos, Word
<1> QED BY <1>1 DEF Sar, Shr, BitNos

\* getByte: the sign that >> brings in is masked out.
THEOREM GetByteRight == \A x \in Word : \A n \in 0..3 : getByte(x, n) = test_getByte(x, n)
<1> SUFFICES ASSUME NEW x \in Word, NEW n \in 0..3 PROVE getByte(x, n) = test_getByte(x, n)
  OBVIOUS
<1>1. BYTE \in 2..W /\ n * BYTE \in 0..W - 1 /\ n * BYTE + BYTE <= W /\ n * BYTE = BYTE * n
  BY WidthAssumption DEF BYTE
<1> DEFINE w == Unsigned(x) \div 2^(BYTE * n)
<1>2. Shr(x, n * BYTE) = Bin(w) /\ w \in Int
  <2>1. 2^(n * BYTE) \in Nat \ {0} /\ Unsigned(x) \in Int
    BY <1>1, Twice, WordNumber
  <2> QED BY <1>1, <2>1, ShrNumber
<1> HIDE DEF w
<1>3. Bin(w % 2^BYTE) = [k \in BitNos |-> k < BYTE /\ Shr(x, n * BYTE)[k]]
  <2>1. BYTE \in 0..W
    BY <1>1
  <2>2. Bin(w % 2^BYTE) = [k \in BitNos |-> k < BYTE /\ Bin(w)[k]]
    BY <1>2, <2>1, CutOff
  <2> QED BY <1>2, <2>2
<1>4. Bin(2^BYTE - 1) = [k \in BitNos |-> k < BYTE]
  BY <1>1, Masks
<1>5. \A k \in BitNos : (Sar(x, n * BYTE)[k] /\ k < BYTE) = (k < BYTE /\ Shr(x, n * BYTE)[k])
  <2> SUFFICES ASSUME NEW k \in BitNos, k < BYTE
               PROVE  Sar(x, n * BYTE)[k] = Shr(x, n * BYTE)[k]
    OBVIOUS
  <2>1. k + n * BYTE <= W - 1
    BY <1>1 DEF BitNos
  <2> QED BY <1>1, <2>1, SameBits
<1>6. getByte(x, n) = [k \in BitNos |-> Sar(x, n * BYTE)[k] /\ k < BYTE]
  BY <1>4 DEF getByte, And, BitNos
<1> QED BY <1>3, <1>5, <1>6 DEF test_getByte, w

\* The flag that the sign is taken out as.
LEMMA SignFlag == ASSUME NEW x \in Word PROVE And(Sar(x, W - 1), One) = Flag(x[W - 1])
<1>1. 0 \in BitNos /\ 0 + (W - 1) <= W - 1 /\ W - 1 \in 0..W - 1 /\ x[W - 1] \in BOOLEAN /\ 0 + (W - 1) = W - 1
  BY DEF BitNos, Word
<1>2. Sar(x, W - 1)[0] = x[W - 1]
  BY <1>1, SameBits
<1>3. \A k \in BitNos : (Sar(x, W - 1)[k] /\ One[k]) = (x[W - 1] /\ k = 0)
  BY <1>1, <1>2, ZeroOne
<1>4. Flag(x[W - 1]) = [k \in BitNos |-> x[W - 1] /\ k = 0]
  <2>1. CASE x[W - 1]
    BY <2>1, ZeroOne DEF Flag
  <2>2. CASE ~x[W - 1]
    BY <2>2, ZeroOne DEF Flag
  <2> QED BY <2>1, <2>2
<1> QED BY <1>3, <1>4 DEF And, BitNos

\* logicalShift: the sign is taken out before the shift and put back after it.
THEOREM LogicalShiftRight == \A x \in Word : \A n \in 0..W - 1 : logicalShift(x, n) = test_logicalShift(x, n)
<1> SUFFICES ASSUME NEW x \in Word, NEW n \in 0..W - 1 PROVE logicalShift(x, n) = test_logicalShift(x, n)
  OBVIOUS
<1> DEFINE s == x[W - 1]
           t == And(Sar(x, W - 1), One)
           y == Xor(x, Shl(t, W - 1))
           z == Shl(t, W + (-n - 1))
<1>1. s \in BOOLEAN /\ \A k \in BitNos : x[k] \in BOOLEAN
  BY DEF Word, BitNos
<1>2. \A k \in BitNos : t[k] = (s /\ k = 0)
  <2>1. t = Flag(s)
    BY SignFlag
  <2>2. \A k \in BitNos : Flag(s)[k] = (s /\ k = 0)
    <3>1. CASE s
      BY <3>1, ZeroOne DEF Flag
    <3>2. CASE ~s
      BY <3>2, ZeroOne DEF Flag
    <3> QED BY <3>1, <3>2
  <2> QED BY <2>1, <2>2
<1> HIDE DEF t
<1>3. \A k \in BitNos : y[k] = (k # W - 1 /\ x[k])
  <2> SUFFICES ASSUME NEW k \in BitNos PROVE (x[k] # (k >= W - 1 /\ t[k - (W - 1)])) = (k # W - 1 /\ x[k])
    BY DEF Xor, Shl, BitNos
  <2>1. CASE k = W - 1
    <3>1. t[k - (W - 1)] = s /\ x[k] = s
      <4>1. k - (W - 1) = 0 /\ 0 \in BitNos
        BY <2>1 DEF BitNos
      <4> QED BY <1>1, <1>2, <2>1, <4>1
    <3> QED BY <1>1, <2>1, <3>1
  <2>2. CASE k # W - 1
    <3>1. ~(k >= W - 1)
      BY <2>2 DEF BitNos
    <3> QED BY <1>1, <2>2, <3>1
  <2> QED BY <2>1, <2>2
<1>4. \A k \in BitNos : z[k] = (k + n = W - 1 /\ s)
  <2> SUFFICES ASSUME NEW k \in BitNos
               PROVE  (k >= W + (-n - 1) /\ t[k - (W + (-n - 1))]) = (k + n = W - 1 /\ s)
    BY DEF Shl, BitNos
  <2>1. CASE k >= W + (-n - 1)
    <3>1. k - (W + (-n - 1)) \in BitNos /\ (k - (W + (-n - 1)) = 0 <=> k + n = W - 1)
      BY <2>1 DEF BitNos
    <3> QED BY <1>1, <1>2, <2>1, <3>1
  <2>2. CASE ~(k >= W + (-n - 1))
    <3>1. k + n # W - 1
      BY <2>2 DEF BitNos
    <3> QED BY <2>2, <3>1
  <2> QED BY <2>1, <2>2
<1> HIDE DEF y, z
<1>5. \A k \in BitNos : (Sar(y, n)[k] # z[k]) = (k + n <= W - 1 /\ x[k + n])
  <2> SUFFICES ASSUME NEW k \in BitNos PROVE (Sar(y, n)[k] # z[k]) = (k + n <= W - 1 /\ x[k + n])
    OBVIOUS
  <2>1. Sar(y, n)[k] = y[IF k + n <= W - 1 THEN k + n ELSE W - 1]
    BY DEF Sar, BitNos
  <2>2. CASE k + n < W - 1
    <3>1. k + n \in BitNos /\ k + n # W - 1 /\ k + n <= W - 1
      BY <2>2 DEF BitNos
    <3>2. Sar(y, n)[k] = x[k + n] /\ z[k] = FALSE
      BY <1>1, <1>3, <1>4, <2>1, <3>1
    <3> QED BY <1>1, <3>1, <3>2
  <2>3. CASE k + n = W - 1
    <3>1. k + n \in BitNos /\ k + n <= W - 1
      BY <2>3 DEF BitNos
    <3>2. Sar(y, n)[k] = FALSE /\ z[k] = s
      BY <1>1, <1>3, <1>4, <2>1, <2>3, <3>1
    <3> QED BY <1>1, <2>3, <3>1, <3>2
  <2>4. CASE k + n > W - 1
    <3>1. W - 1 \in BitNos /\ ~(k + n <= W - 1) /\ k + n # W - 1
      BY <2>4 DEF BitNos
    <3>2. Sar(y, n)[k] = FALSE /\ z[k] = FALSE
      BY <1>1, <1>3, <1>4, <2>1, <3>1
    <3> QED BY <3>1, <3>2
  <2>5. k + n < W - 1 \/ k + n = W - 1 \/ k + n > W - 1
    BY DEF BitNos
  <2> QED BY <2>2, <2>3, <2>4, <2>5
<1>6. Xor(Sar(y, n), z) = Shr(x, n)
  BY <1>5 DEF Xor, Shr, BitNos
<1>7. logicalShift(x, n) = Xor(Sar(y, n), z)
  BY DEF logicalShift, y, z, t
<1> QED BY <1>6, <1>7, ShrNumber DEF test_logicalShift

\* tmin: 1 shifted to the top.
THEOREM TminRight == tmin = test_tmin
<1>1. Shl(Bin(1), W - 1) = Bin(1 * HalfSize)
  BY ShlNumber DEF HalfSize
<1>2. 1 * HalfSize = -HalfSize + WordSize * 1 /\ -HalfSize \in Int
  BY Sizes
<1>3. Bin(-HalfSize + WordSize * 1) = Bin(-HalfSize)
  BY <1>2, BinSame
<1> QED BY <1>1, <1>2, <1>3 DEF tmin, test_tmin, One, HalfSize

\* An int and its number.
LEMMA IntOf == ASSUME NEW x \in Word
               PROVE  /\ Signed(x) \in Ints /\ Signed(x) \in Int /\ x = Bin(Signed(x))
                      /\ \A n \in 0..W - 1 : /\ Sar(x, n) = Bin(Signed(x) \div 2^n)
                                             /\ Signed(x) \div 2^n \in Ints
<1>1. Signed(x) \in Ints /\ x = Bin(Signed(x))
  BY SignedIs
<1>2. Signed(x) \in Int
  BY <1>1, Sizes DEF Ints
<1>3. ASSUME NEW n \in 0..W - 1 PROVE Sar(x, n) = Bin(Signed(x) \div 2^n)
  BY <1>1, SarNumber
<1>4. ASSUME NEW n \in 0..W - 1 PROVE Signed(x) \div 2^n \in Ints
  <2> DEFINE v == Signed(x)
             m == 2^n
             q == v \div m
             r == v % m
  <2>1. v \in Int /\ m \in Nat \ {0} /\ v >= -HalfSize /\ v < HalfSize /\ HalfSize \in Nat
    BY <1>1, <1>2, Twice, Sizes DEF Ints
  <2> HIDE DEF v, m
  <2>2. q \in Int /\ r \in 0..m - 1 /\ v = m * q + r
    BY <2>1, Divide
  <2> HIDE DEF q, r
  <2>3. q >= -HalfSize
    <3>1. CASE q < 0
      <4>1. v <= q
        <5>1. m * (q + 1) <= 1 * (q + 1)
          BY <2>1, <2>2, <3>1
        <5> QED BY <2>1, <2>2, <5>1
      <4>2. r - m + 1 <= 0
        BY <2>1, <2>2
      <4> QED BY <2>1, <2>2, <4>1
    <3>2. CASE q >= 0
      BY <2>1, <2>2, <3>2
    <3> QED BY <2>2, <3>1, <3>2
  <2>4. q < HalfSize
    <3>1. CASE q > 0
      <4>1. q <= m * q
        BY <2>1, <2>2, <3>1
      <4> QED BY <2>1, <2>2, <4>1
    <3>2. CASE q <= 0
      <4>1. HalfSize > 0
        BY Sizes
      <4> QED BY <2>2, <3>2, <4>1, Sizes
    <3> QED BY <2>2, <3>1, <3>2
  <2> QED BY <2>2, <2>3, <2>4, Sizes DEF Ints, q, v, m
<1> QED BY <1>1, <1>2, <1>3, <1>4

\* The sign spread over a word.
LEMMA SignWord == ASSUME NEW x \in Word
                  PROVE  /\ Sar(x, W - 1) = Bin(IF Signed(x) < 0 THEN -1 ELSE 0)
                         /\ Add(Sar(x, W - 1), One) = Flag(Signed(x) >= 0)
<1> DEFINE v == Signed(x)
           q == v \div HalfSize
           r == v % HalfSize
           d == IF v < 0 THEN -1 ELSE 0
<1>1. v \in Int /\ v >= -HalfSize /\ v < HalfSize /\ HalfSize \in Nat \ {0}
  BY IntOf, Sizes DEF Ints
<1>2. Sar(x, W - 1) = Bin(q)
  BY IntOf DEF HalfSize
<1>3. q = d
  <2> HIDE DEF v
  <2>1. v = HalfSize * d + (v - HalfSize * d) /\ d \in Int /\ v - HalfSize * d \in 0..HalfSize - 1
    BY <1>1
  <2> DEFINE e == v - HalfSize * d
  <2> HIDE DEF d, e
  <2>2. v = HalfSize * d + e /\ e \in 0..HalfSize - 1 /\ d \in Int
    BY <2>1 DEF e
  <2> QED BY <1>1, <2>2, Quotient
<1>4. Add(Bin(d), One) = Bin(d + 1)
  <2>1. d \in Int /\ 1 \in Int
    OBVIOUS
  <2> HIDE DEF d
  <2> QED BY <2>1, AddNumbers DEF One
<1>5. Flag(v >= 0) = Bin(d + 1)
  <2> HIDE DEF v
  <2>1. (v >= 0) \in BOOLEAN
    OBVIOUS
  <2>2. Flag(v >= 0) = Bin(IF v >= 0 THEN 1 ELSE 0)
    BY <2>1, Flags
  <2>3. (IF v >= 0 THEN 1 ELSE 0) = d + 1
    BY <1>1
  <2> QED BY <2>2, <2>3
<1> QED BY <1>2, <1>3, <1>4, <1>5

\* fitsBits: all bits from the sign of the short number on are alike.  Only for
\* n < W does tests.c define the result.
THEOREM FitsBitsRight == \A x \in Word : \A n \in 1..W - 1 : fitsBits(x, n) = test_fitsBits(x, n)
<1> SUFFICES ASSUME NEW x \in Word, NEW n \in 1..W - 1 PROVE fitsBits(x, n) = test_fitsBits(x, n)
  OBVIOUS
<1> DEFINE v == Signed(x)
           m == 2^(n - 1)
           q == v \div m
           r == v % m
<1>1. n - 1 \in 0..W - 1 /\ n - 1 \in 0..W
  OBVIOUS
<1>2. v \in Int /\ m \in Nat \ {0} /\ Sar(x, n - 1) = Bin(q) /\ q \in Ints
  BY <1>1, IntOf, Twice
<1> HIDE DEF v, m
<1>3. q \in Int /\ r \in 0..m - 1 /\ v = m * q + r
  BY <1>2, Divide
<1> HIDE DEF q, r
<1>4. q >= -HalfSize /\ q < HalfSize /\ q > -WordSize /\ q < WordSize
      /\ q + 1 \in Int /\ q + 1 > -WordSize /\ q + 1 < WordSize
  BY <1>2, <1>3, Sizes DEF Ints
<1>5. LNot(Bin(q)) = Flag(q = 0) /\ LNot(Add(Bin(q), One)) = Flag(q = -1)
  <2>1. Add(Bin(q), One) = Bin(q + 1)
    BY <1>3, AddNumbers DEF One
  <2>2. (Bin(q) = Zero) = (q = 0)
    BY <1>3, <1>4, IsZero
  <2>3. (Bin(q + 1) = Zero) = (q = -1)
    <3>1. Bin(q + 1) = Zero <=> q + 1 = 0
      <4> DEFINE p == q + 1
      <4>1. p \in Int /\ p > -WordSize /\ p < WordSize
        BY <1>4
      <4> HIDE DEF p
      <4>2. Bin(p) = Zero <=> p = 0
        BY <4>1, IsZero
      <4> QED BY <4>2 DEF p
    <3> QED BY <1>3, <3>1
  <2> QED BY <2>1, <2>2, <2>3 DEF LNot
<1>6. fitsBits(x, n) = Flag(q = 0 \/ q = -1)
  <2>1. (q = 0) \in BOOLEAN /\ (q = -1) \in BOOLEAN
    OBVIOUS
  <2>2. Or(Flag(q = 0), Flag(q = -1)) = Flag(q = 0 \/ q = -1)
    BY <2>1, Flags
  <2> QED BY <1>2, <1>5, <2>2 DEF fitsBits
<1>7. (q = 0 \/ q = -1) <=> v \in -m..m - 1
  <2>1. ASSUME q = 0 PROVE v \in -m..m - 1
    BY <1>2, <1>3, <2>1
  <2>2. ASSUME q = -1 PROVE v \in -m..m - 1
    BY <1>2, <1>3, <2>2
  <2>3. ASSUME v \in -m..m - 1 PROVE q < 1 /\ q > -2
    <3>1. m * q < m * 1 /\ m * (q + 2) > m * 0
      BY <1>2, <1>3, <2>3
    <3> QED BY <1>2, <1>3, <3>1
  <2> QED BY <1>3, <2>1, <2>2, <2>3
<1>8. (q = 0 \/ q = -1) = (v \in -m..m - 1)
  BY <1>7
<1> QED BY <1>6, <1>8 DEF test_fitsBits, v, m

\* divpwr2: numbers below 0 that the divisor does not divide get 1 added.
THEOREM Divpwr2Right == \A x \in Word : \A n \in 0..W - 2 : divpwr2(x, n) = test_divpwr2(x, n)
<1> SUFFICES ASSUME NEW x \in Word, NEW n \in 0..W - 2 PROVE divpwr2(x, n) = test_divpwr2(x, n)
  OBVIOUS
<1> DEFINE v == Signed(x)
           m == 2^n
           q == v \div m
           r == v % m
<1>1. n \in 0..W - 1 /\ n \in 0..W
  OBVIOUS
<1>2. v \in Int /\ m \in Nat \ {0} /\ Sar(x, n) = Bin(q) /\ x = Bin(v) /\ v < HalfSize /\ HalfSize <= WordSize
  BY <1>1, IntOf, Twice, Sizes DEF Ints
<1>3. m < WordSize
  <2>1. m <= HalfSize
    <3>1. n \in 0..W /\ W - 1 \in n..W
      OBVIOUS
    <3> QED BY <3>1, PowerOrder DEF HalfSize
  <2> QED BY <1>2, <2>1, Sizes
<1>4. Add(Shl(One, n), Not(Zero)) = Bin(m - 1)
  <2>1. Shl(One, n) = Bin(m)
    <3>1. Shl(Bin(1), n) = Bin(1 * m)
      BY <1>1, ShlNumber
    <3> QED BY <1>2, <3>1 DEF One
  <2>2. Add(Bin(m), Bin(-1)) = Bin(m + (-1))
    BY <1>2, AddNumbers
  <2>3. m + (-1) = m - 1
    BY <1>2
  <2> QED BY <2>1, <2>2, <2>3, ZeroOne
<1>5. And(x, Bin(m - 1)) = Bin(r)
  <2>1. Bin(m - 1) = [k \in BitNos |-> k < n]
    BY <1>1, Masks
  <2>2. Bin(v % 2^n) = [k \in BitNos |-> k < n /\ Bin(v)[k]]
    BY <1>1, <1>2, CutOff
  <2>3. And(x, Bin(m - 1)) = [k \in BitNos |-> x[k] /\ k < n]
    BY <2>1 DEF And, BitNos
  <2>4. \A k \in BitNos : (x[k] /\ k < n) = (k < n /\ x[k])
    BY DEF Word, BitNos
  <2>5. Bin(v % 2^n) = [k \in BitNos |-> k < n /\ x[k]]
    BY <1>2, <2>2
  <2> QED BY <2>3, <2>4, <2>5
<1> HIDE DEF v, m
<1>6. q \in Int /\ r \in 0..m - 1 /\ v = m * q + r
  BY <1>2, Divide
<1> HIDE DEF q, r
<1>7. LNot(Bin(r)) = Flag(r = 0)
  <2>1. Bin(r) = Zero <=> r = 0
    <3>1. r \in Int /\ r > -WordSize /\ r < WordSize
      BY <1>2, <1>3, <1>6, Sizes
    <3> QED BY <3>1, IsZero
  <2>2. (Bin(r) = Zero) = (r = 0)
    BY <2>1
  <2> QED BY <2>2 DEF LNot
<1>8. Xor(One, Flag(r = 0)) = Flag(r # 0)
  <2>1. One = Flag(TRUE) /\ (r = 0) \in BOOLEAN /\ TRUE \in BOOLEAN
    BY DEF Flag
  <2>2. Xor(Flag(TRUE), Flag(r = 0)) = Flag(TRUE # (r = 0))
    BY <2>1, Flags
  <2>3. (TRUE # (r = 0)) = (r # 0)
    OBVIOUS
  <2> QED BY <2>1, <2>2, <2>3
<1>9. And(Sar(x, W - 1), Flag(r # 0)) = Flag(v < 0 /\ r # 0)
  <2>1. Sar(x, W - 1) = Bin(IF v < 0 THEN -1 ELSE 0)
    BY SignWord DEF v
  <2>2. CASE v < 0
    <3>1. \A k \in BitNos : Bin(-1)[k] = TRUE
      BY AllOnes DEF Bin, BitNos
    <3>2. Flag(r # 0) \in Word
      BY ZeroOne
    <3>3. \A k \in BitNos : (Bin(-1)[k] /\ Flag(r # 0)[k]) = Flag(r # 0)[k]
      BY <3>1, <3>2 DEF Word, BitNos
    <3>4. Flag(r # 0) = [k \in BitNos |-> Flag(r # 0)[k]]
      BY <3>2 DEF Word, BitNos
    <3>5. And(Bin(-1), Flag(r # 0)) = Flag(r # 0)
      BY <3>3, <3>4 DEF And, BitNos
    <3>6. (v < 0 /\ r # 0) = (r # 0)
      BY <2>2
    <3> QED BY <2>1, <2>2, <3>5, <3>6
  <2>3. CASE ~(v < 0)
    <3>1. And(Zero, Flag(r # 0)) = Zero
      BY ZeroOne DEF And, BitNos
    <3>2. (v < 0 /\ r # 0) = FALSE
      BY <2>3
    <3> QED BY <2>1, <2>3, <3>1, <3>2 DEF Zero, Flag
  <2> QED BY <2>2, <2>3
<1> DEFINE c == IF v < 0 /\ r # 0 THEN 1 ELSE 0
<1>10. divpwr2(x, n) = Bin(q + c)
  <2>1. Flag(v < 0 /\ r # 0) = Bin(c)
    <3>1. (v < 0 /\ r # 0) \in BOOLEAN
      OBVIOUS
    <3> QED BY <3>1, Flags
  <2>2. c \in Int
    OBVIOUS
  <2> HIDE DEF c
  <2>3. Add(Bin(q), Bin(c)) = Bin(q + c)
    BY <1>6, <2>2, AddNumbers
  <2> QED BY <1>2, <1>4, <1>5, <1>7, <1>8, <1>9, <2>1, <2>3 DEF divpwr2
<1>11. (IF v < 0 THEN -((-v) \div m) ELSE v \div m) = q + c
  <2>1. CASE v < 0
    <3> DEFINE u == -v
               p == -(q + c)
               e == IF r # 0 THEN m - r ELSE 0
    <3>1. u \in Int /\ p \in Int /\ e \in 0..m - 1
      BY <1>2, <1>6
    <3>2. u = m * p + e
      <4>1. CASE r = 0
        <5>1. p = -q /\ e = 0
          BY <1>6, <4>1
        <5>2. -v = m * (-q)
          BY <1>2, <1>6, <4>1
        <5> QED BY <1>2, <1>6, <5>1, <5>2
      <4>2. CASE r # 0
        <5>1. p = -q - 1 /\ e = m - r
          BY <1>6, <2>1, <4>2
        <5>2. -v = m * (-q - 1) + (m - r)
          BY <1>2, <1>6, <4>2
        <5> QED BY <5>1, <5>2
      <4> QED BY <4>1, <4>2
    <3> HIDE DEF u, p, e
    <3>3. u \div m = p
      BY <1>2, <3>1, <3>2, Quotient
    <3>4. -p = q + c /\ c \in Int
      BY <1>6 DEF p
    <3> QED BY <2>1, <3>3, <3>4 DEF u
  <2>2. CASE ~(v < 0)
    BY <1>6, <2>2 DEF q
  <2> QED BY <2>1, <2>2
<1> QED BY <1>10, <1>11 DEF test_divpwr2, v, m

\* negate: -v is ~v + 1.
THEOREM NegateRight == \A x \in Word : negate(x) = test_negate(x)
<1> SUFFICES ASSUME NEW x \in Word PROVE negate(x) = test_negate(x)
  OBVIOUS
<1> DEFINE v == Signed(x)
           u == -v - 1
<1>1. v \in Int /\ u \in Int /\ x = Bin(v) /\ u + 1 = -v
  <2>1. v \in Int /\ x = Bin(v)
    BY IntOf
  <2> HIDE DEF v
  <2> QED BY <2>1
<1>2. Not(Bin(v)) = Bin(u)
  BY <1>1, NotNumber
<1> HIDE DEF u
<1>3. Add(Bin(u), One) = Bin(u + 1)
  BY <1>1, AddNumbers DEF One
<1> QED BY <1>1, <1>2, <1>3 DEF negate, test_negate

\* isPositive: not below 0, and not 0.
THEOREM IsPositiveRight == \A x \in Word : isPositive(x) = test_isPositive(x)
<1> SUFFICES ASSUME NEW x \in Word PROVE isPositive(x) = test_isPositive(x)
  OBVIOUS
<1> DEFINE v == Signed(x)
<1>1. v \in Int /\ x = Bin(v) /\ v > -WordSize /\ v < WordSize
  BY IntOf, Sizes DEF Ints
<1>2. Add(Sar(x, W - 1), One) = Flag(v >= 0)
  BY SignWord
<1> HIDE DEF v
<1>3. LNot(x) = Flag(v = 0)
  <2>1. (Bin(v) = Zero) = (v = 0)
    BY <1>1, IsZero
  <2> QED BY <1>1, <2>1 DEF LNot
<1>4. Xor(Flag(v >= 0), Flag(v = 0)) = Flag((v >= 0) # (v = 0))
  <2>1. (v >= 0) \in BOOLEAN /\ (v = 0) \in BOOLEAN
    OBVIOUS
  <2> QED BY <2>1, Flags
<1>5. ((v >= 0) # (v = 0)) = (v > 0)
  BY <1>1
<1> QED BY <1>2, <1>3, <1>4, <1>5 DEF isPositive, test_isPositive, v

\* isLessOrEqual: by the signs where they differ, and else by that of y - x, which
\* then does not overflow.
THEOREM IsLessOrEqualRight == \A x, y \in Word : isLessOrEqual(x, y) = test_isLessOrEqual(x, y)
<1> SUFFICES ASSUME NEW x \in Word, NEW y \in Word PROVE isLessOrEqual(x, y) = test_isLessOrEqual(x, y)
  OBVIOUS
<1> DEFINE v == Signed(x)
           w == Signed(y)
           d == w - v
           diff == Add(Add(Not(x), y), One)
           p == v < 0 /\ w >= 0
           n == v >= 0 /\ w < 0
           s == Signed(diff) >= 0
<1>1. /\ v \in Int /\ x = Bin(v) /\ v >= -HalfSize /\ v < HalfSize
      /\ w \in Int /\ y = Bin(w) /\ w >= -HalfSize /\ w < HalfSize
  BY IntOf, Sizes DEF Ints
<1>2. diff = Bin(d)
  <2> DEFINE u == -v - 1
  <2>1. Not(x) = Bin(u)
    BY <1>1, NotNumber
  <2> HIDE DEF v, w
  <2>2. u \in Int /\ u + w \in Int /\ (u + w) + 1 = w - v
    BY <1>1
  <2> HIDE DEF u
  <2>3. Add(Bin(u), Bin(w)) = Bin(u + w)
    BY <1>1, <2>2, AddNumbers
  <2>4. Add(Bin(u + w), One) = Bin((u + w) + 1)
    BY <2>2, AddNumbers DEF One
  <2> QED BY <1>1, <2>1, <2>2, <2>3, <2>4
<1>3. diff \in Word
  <2>1. d \in Int
    BY <1>1
  <2> HIDE DEF d
  <2> QED BY <1>2, <2>1, WordNumbers
<1>4. And(And(Sar(x, W - 1), One), Add(Sar(y, W - 1), One)) = Flag(p)
  <2>1. And(Sar(x, W - 1), One) = Flag(v < 0)
    <3>1. And(Sar(x, W - 1), One) = Flag(x[W - 1]) /\ (x[W - 1] <=> v < 0)
      BY SignFlag, SignedIs
    <3>2. Flag(x[W - 1]) = Flag(v < 0)
      BY <3>1, Zenon DEF Flag
    <3> QED BY <3>1, <3>2
  <2>2. Add(Sar(y, W - 1), One) = Flag(w >= 0)
    BY SignWord
  <2>3. (v < 0) \in BOOLEAN /\ (w >= 0) \in BOOLEAN
    OBVIOUS
  <2> HIDE DEF v, w
  <2> QED BY <2>1, <2>2, <2>3, Flags
<1>5. And(Add(Sar(x, W - 1), One), And(Sar(y, W - 1), One)) = Flag(n)
  <2>1. And(Sar(y, W - 1), One) = Flag(w < 0)
    <3>1. And(Sar(y, W - 1), One) = Flag(y[W - 1]) /\ (y[W - 1] <=> w < 0)
      BY SignFlag, SignedIs
    <3>2. Flag(y[W - 1]) = Flag(w < 0)
      BY <3>1, Zenon DEF Flag
    <3> QED BY <3>1, <3>2
  <2>2. Add(Sar(x, W - 1), One) = Flag(v >= 0)
    BY SignWord
  <2>3. (v >= 0) \in BOOLEAN /\ (w < 0) \in BOOLEAN
    OBVIOUS
  <2> HIDE DEF v, w
  <2> QED BY <2>1, <2>2, <2>3, Flags
<1>6. Add(Sar(diff, W - 1), One) = Flag(s)
  BY <1>3, SignWord
<1>7. isLessOrEqual(x, y) = Flag((p \/ s) /\ ~n)
  <2>1. isLessOrEqual(x, y) = And(Or(Flag(p), Flag(s)), Xor(One, Flag(n)))
    BY <1>4, <1>5, <1>6 DEF isLessOrEqual
  <2>2. p \in BOOLEAN /\ s \in BOOLEAN /\ n \in BOOLEAN /\ One = Flag(TRUE)
    BY DEF Flag
  <2> HIDE DEF p, s, n
  <2>3. Or(Flag(p), Flag(s)) = Flag(p \/ s)
    BY <2>2, Flags
  <2>4. Xor(Flag(TRUE), Flag(n)) = Flag(TRUE # n)
    BY <2>2, Flags
  <2>5. (TRUE # n) = (~n) /\ (p \/ s) \in BOOLEAN /\ (~n) \in BOOLEAN
    BY <2>2
  <2>6. And(Flag(p \/ s), Flag(~n)) = Flag((p \/ s) /\ ~n)
    BY <2>5, Flags
  <2> QED BY <2>1, <2>2, <2>3, <2>4, <2>5, <2>6
<1>8. ((p \/ s) /\ ~n) <=> v <= w
  <2>1. CASE p
    BY <1>1, <2>1
  <2>2. CASE n
    BY <1>1, <2>2
  <2>3. CASE ~p /\ ~n
    <3>1. d \in Ints
      BY <1>1, <2>3, Sizes DEF Ints
    <3>2. Signed(diff) = d
      BY <1>2, <3>1, SignedBin
    <3> QED BY <1>1, <2>3, <3>2
  <2> QED BY <2>1, <2>2, <2>3
<1>9. ((p \/ s) /\ ~n) = (v <= w)
  BY <1>8
<1> QED BY <1>7, <1>9 DEF test_isLessOrEqual

-----------------------------------------------------------------------------
(***************************************************************************)
(* Folds over the shifts of the divide-and-conquer puzzles.                *)
(***************************************************************************)

\* f folds over the numbers up to n, as FoldLeft does it: the highest comes last.
FoldsUpTo(f, X, base, n, g) ==
    /\ f \in [SUBSET (1..n) -> X]
    /\ \A s \in SUBSET (1..n) : f[s] = IF s = {} THEN base ELSE g[<<f[s \ {Max(s)}], Max(s)>>]

LEMMA FoldExists ==
    ASSUME NEW X, NEW base \in X, NEW n \in Nat, NEW g \in [X \X (1..n) -> X]
    PROVE  \E f : FoldsUpTo(f, X, base, n, g)
<1> DEFINE Folds1(f, m) == \A s \in SUBSET (1..m) : f[s] = IF s = {} THEN base ELSE g[<<f[s \ {Max(s)}], Max(s)>>]
           A == {m \in 0..n : \E f \in [SUBSET (1..m) -> X] : Folds1(f, m)}
<1>1. 0 \in A
  <2> DEFINE f == [s \in SUBSET (1..0) |-> base]
  <2>1. f \in [SUBSET (1..0) -> X]
    OBVIOUS
  <2>2. \A s \in SUBSET (1..0) : s = {}
    OBVIOUS
  <2>3. Folds1(f, 0)
    BY <2>2
  <2> HIDE DEF Folds1
  <2> QED BY <2>1, <2>3
<1>2. ASSUME NEW m \in 0..n - 1, m \in A PROVE m + 1 \in A
  <2>1. PICK f \in [SUBSET (1..m) -> X] : Folds1(f, m)
    BY <1>2
  <2> DEFINE h == [s \in SUBSET (1..m + 1) |-> IF m + 1 \in s THEN g[<<f[s \ {m + 1}], m + 1>>] ELSE f[s]]
  <2>2. \A s \in SUBSET (1..m + 1) : s \ {m + 1} \in SUBSET (1..m) /\ (m + 1 \notin s => s \in SUBSET (1..m))
    OBVIOUS
  <2>3. m + 1 \in 1..n /\ m + 1 \in 0..n
    OBVIOUS
  <2>4. h \in [SUBSET (1..m + 1) -> X]
    <3>1. ASSUME NEW s \in SUBSET (1..m + 1) PROVE (IF m + 1 \in s THEN g[<<f[s \ {m + 1}], m + 1>>] ELSE f[s]) \in X
      <4>1. CASE m + 1 \in s
        <5>1. f[s \ {m + 1}] \in X
          BY <2>1, <2>2
        <5> QED BY <2>3, <4>1, <5>1
      <4>2. CASE m + 1 \notin s
        BY <2>1, <2>2, <4>2
      <4> QED BY <4>1, <4>2
    <3> QED BY <3>1
  <2>5. ASSUME NEW s \in SUBSET (1..m + 1)
        PROVE  h[s] = IF s = {} THEN base ELSE g[<<h[s \ {Max(s)}], Max(s)>>]
    <3>1. CASE m + 1 \in s
      <4>1. Max(s) = m + 1
        <5>1. \A y \in s : m + 1 >= y /\ y \in Nat
          OBVIOUS
        <5>2. \A x \in s : (\A y \in s : x >= y) => x = m + 1
          BY <3>1, <5>1
        <5> QED BY <3>1, <5>1, <5>2 DEF Max
      <4>2. s \ {m + 1} \in SUBSET (1..m + 1) /\ m + 1 \notin s \ {m + 1}
        OBVIOUS
      <4>3. h[s \ {m + 1}] = f[s \ {m + 1}]
        BY <4>2
      <4>4. h[s] = g[<<f[s \ {m + 1}], m + 1>>]
        BY <3>1
      <4>5. s # {}
        BY <3>1
      <4> HIDE DEF h
      <4> QED BY <4>1, <4>3, <4>4, <4>5
    <3>2. CASE m + 1 \notin s
      <4>1. s \in SUBSET (1..m) /\ h[s] = f[s]
        BY <2>2, <3>2
      <4>2. s \ {Max(s)} \in SUBSET (1..m + 1) /\ m + 1 \notin s \ {Max(s)}
        BY <3>2
      <4>3. h[s \ {Max(s)}] = f[s \ {Max(s)}]
        BY <4>2
      <4> HIDE DEF h
      <4> QED BY <2>1, <4>1, <4>3
    <3> QED BY <3>1, <3>2
  <2>6. Folds1(h, m + 1)
    BY <2>5
  <2> HIDE DEF Folds1, h
  <2> QED BY <2>3, <2>4, <2>6
<1>3. n \in A
  <2> HIDE DEF A
  <2>1. 0..n \subseteq A
    BY <1>1, <1>2, Upwards
  <2> QED BY <2>1
<1>4. PICK f \in [SUBSET (1..n) -> X] : Folds1(f, n)
  BY <1>3
<1>5. FoldsUpTo(f, X, base, n, g)
  BY <1>4 DEF FoldsUpTo
<1> QED BY <1>5

LEMMA MaxUpTo == ASSUME NEW k \in Nat \ {0} PROVE Max(1..k) = k /\ (1..k) \ {k} = 1..k - 1 /\ 1..k # {}
<1>1. k \in 1..k /\ \A y \in 1..k : k >= y
  OBVIOUS
<1>2. \A x \in 1..k : (\A y \in 1..k : x >= y) => x = k
  BY <1>1
<1> QED BY <1>1, <1>2 DEF Max

LEMMA MaxIn == ASSUME NEW n \in Nat, NEW s \in SUBSET (1..n), s # {} PROVE Max(s) \in s
<1> DEFINE T == {n - k : k \in s}
<1>1. T \in SUBSET Nat /\ T # {}
  <2>1. \A k \in s : n - k \in Nat
    OBVIOUS
  <2> QED BY <2>1
<1>2. PICK t \in T : \A u \in T : t <= u
  BY <1>1, LeastNumber
<1>3. PICK k \in s : t = n - k
  OBVIOUS
<1>4. \A i \in s : k >= i
  <2> SUFFICES ASSUME NEW i \in s PROVE k >= i
    OBVIOUS
  <2>1. n - i \in T
    OBVIOUS
  <2> HIDE DEF T
  <2> QED BY <1>2, <1>3, <2>1
<1> HIDE DEF T
<1>5. \E i \in s : \A j \in s : i >= j
  BY <1>4
<1> QED BY <1>5, Zenon DEF Max

\* How many rounds of halving a word takes.
Rounds == CHOOSE n \in 1..W : 2^n = W

LEMMA HalvesAre == /\ Rounds \in 3..5 /\ 2^Rounds = W
                   /\ Halves = [j \in 1..Rounds |-> 2^(Rounds - j)]
                   /\ Halves \in Seq(Nat) /\ Len(Halves) = Rounds
<1>1. \/ W = 8 /\ Rounds = 3
      \/ W = 16 /\ Rounds = 4
      \/ W = 32 /\ Rounds = 5
  <2>1. \A n \in 1..W : n \in 0..W
    OBVIOUS
  <2>2. \A n \in 1..W : \A k \in 1..W : 2^n = 2^k => n = k
    <3> SUFFICES ASSUME NEW n \in 1..W, NEW k \in 1..W, n < k PROVE 2^n < 2^k
      <4>1. \A n \in 1..W : 2^n \in Nat
        BY <2>1, Twice
      <4> QED BY <4>1
    <3>1. n \in 0..W - 1 /\ n + 1 \in 0..W /\ k \in (n + 1)..W
      OBVIOUS
    <3>2. 2^(n + 1) = 2 * 2^n /\ 2^n \in Nat \ {0} /\ 2^(n + 1) <= 2^k /\ 2^k \in Nat
      BY <3>1, Twice, PowerOrder
    <3> QED BY <3>2
  <2>3. 2^3 = 8 /\ 2^4 = 16 /\ 2^5 = 32
    OBVIOUS
  <2>4. CASE W = 8
    BY <2>2, <2>3, <2>4 DEF Rounds
  <2>5. CASE W = 16
    BY <2>2, <2>3, <2>5 DEF Rounds
  <2>6. CASE W = 32
    BY <2>2, <2>3, <2>6 DEF Rounds
  <2> QED BY <2>4, <2>5, <2>6, WidthAssumption
<1>2. Rounds \in 3..5 /\ 2^Rounds = W
  <2>1. 2^3 = 8 /\ 2^4 = 16 /\ 2^5 = 32
    OBVIOUS
  <2>2. \E n \in 1..W : 2^n = W
    <3> DEFINE e(n) == 2^n = W
    <3>1. 3 \in 1..W /\ (W >= 16 => 4 \in 1..W) /\ (W >= 32 => 5 \in 1..W)
      OBVIOUS
    <3>2. (W = 8 => e(3)) /\ (W = 16 => e(4)) /\ (W = 32 => e(5))
      BY <2>1
    <3> HIDE DEF e
    <3>3. \E n \in 1..W : e(n)
      BY <3>1, <3>2, WidthAssumption
    <3> QED BY <3>3 DEF e
  <2>3. 2^Rounds = W
    BY <2>2, Zenon DEF Rounds
  <2> QED BY <1>1, <2>3
<1>3. ASSUME NEW j \in 1..Rounds PROVE W \div 2^j = 2^(Rounds - j) /\ 2^(Rounds - j) \in Nat
  <2>1. j \in 0..W /\ Rounds - j \in 0..W - j /\ Rounds - j \in 0..W /\ j + (Rounds - j) = Rounds
    BY <1>2
  <2>2. W = 2^j * 2^(Rounds - j) /\ 2^j \in Nat \ {0} /\ 2^(Rounds - j) \in Nat
    BY <1>2, <2>1, PowerSum, Twice
  <2> DEFINE m == 2^j
             q == 2^(Rounds - j)
  <2>3. W = m * q + 0 /\ m \in Nat \ {0} /\ q \in Nat /\ 0 \in 0..m - 1 /\ W \in Int
    BY <2>2
  <2> HIDE DEF m, q
  <2>4. W \div m = q
    BY <2>3, Quotient
  <2> QED BY <2>3, <2>4 DEF m, q
<1>4. Halves = [j \in 1..Rounds |-> 2^(Rounds - j)]
  BY <1>3 DEF Halves, Rounds
<1>5. Halves \in [1..Rounds -> Nat] /\ Rounds \in Nat
  BY <1>2, <1>3, <1>4
<1> QED BY <1>2, <1>4, <1>5

\* The shifts one after the other: from W / 2 down to 1.
LEMMA Round == ASSUME NEW j \in 1..Rounds
               PROVE  /\ Halves[j] = 2^(Rounds - j) /\ Halves[j] \in 1..W - 1
                      /\ 2^(Rounds - (j - 1)) = 2 * Halves[j] /\ 2 * Halves[j] \in 1..W
                      /\ DOMAIN Halves = 1..Rounds
<1>1. Rounds \in 3..5 /\ 2^Rounds = W /\ Halves = [i \in 1..Rounds |-> 2^(Rounds - i)]
  BY HalvesAre
<1>2. Rounds - j \in 0..W - 1 /\ Rounds - (j - 1) = (Rounds - j) + 1 /\ Rounds - j \in 0..W
      /\ (Rounds - j) + 1 \in 0..W /\ Rounds \in ((Rounds - j) + 1)..W
  BY <1>1
<1>3. 2^(Rounds - (j - 1)) = 2 * 2^(Rounds - j) /\ 2^(Rounds - j) \in Nat \ {0}
  BY <1>2, Twice
<1>4. 2^((Rounds - j) + 1) <= W
  BY <1>1, <1>2, PowerOrder
<1>5. Halves[j] = 2^(Rounds - j)
  BY <1>1
<1>6. DOMAIN Halves = 1..Rounds
  BY <1>1
<1> QED BY <1>2, <1>3, <1>4, <1>5, <1>6

\* bang: the bits of ~x are folded onto its lowest one.
THEOREM BangRight == \A x \in Word : bang(x) = test_bang(x)
<1> SUFFICES ASSUME NEW x \in Word PROVE bang(x) = test_bang(x)
  OBVIOUS
<1> DEFINE N == Rounds
           E(f) == [s \in SUBSET (1..N) |-> IF s = {} THEN Not(x)
                                            ELSE LET i == Max(s) IN And(f[s \ {i}], Sar(f[s \ {i}], Halves[i]))]
           F == CHOOSE f : f = E(f)
           y(j) == F[1..j]
<1>1. N \in 3..5 /\ N \in Nat /\ DOMAIN Halves = 1..N
  <2>1. 1 \in 1..N
    BY HalvesAre
  <2> QED BY <2>1, HalvesAre, Round
<1>2. F = E(F)
  <2> DEFINE g == [p \in Word \X (1..N) |-> And(p[1], Sar(p[1], Halves[p[2]]))]
  <2>1. Not(x) \in Word
    BY DEF Not, Word
  <2>2. g \in [Word \X (1..N) -> Word]
    <3>1. \A p \in Word \X (1..N) : And(p[1], Sar(p[1], Halves[p[2]])) \in Word
      BY DEF And, Word
    <3> QED BY <3>1
  <2>3. \A z \in Word : \A i \in 1..N : g[<<z, i>>] = And(z, Sar(z, Halves[i]))
    OBVIOUS
  <2> HIDE DEF g
  <2>4. PICK f : FoldsUpTo(f, Word, Not(x), N, g)
    BY <1>1, <2>1, <2>2, FoldExists
  <2>5. ASSUME NEW s \in SUBSET (1..N), s # {}
        PROVE  f[s] = And(f[s \ {Max(s)}], Sar(f[s \ {Max(s)}], Halves[Max(s)]))
    <3>1. s \ {Max(s)} \in SUBSET (1..N) /\ Max(s) \in 1..N
      BY <1>1, <2>5, MaxIn
    <3>2. f[s \ {Max(s)}] \in Word
      BY <2>4, <3>1 DEF FoldsUpTo
    <3> QED BY <2>3, <2>4, <2>5, <3>1, <3>2 DEF FoldsUpTo
  <2>6. f = E(f)
    <3>1. f = [s \in SUBSET (1..N) |-> f[s]]
      BY <2>4 DEF FoldsUpTo
    <3>2. \A s \in SUBSET (1..N) : f[s] = IF s = {} THEN Not(x)
                                          ELSE LET i == Max(s) IN And(f[s \ {i}], Sar(f[s \ {i}], Halves[i]))
      BY <2>4, <2>5 DEF FoldsUpTo
    <3> QED BY <3>1, <3>2
  <2> HIDE DEF E
  <2> QED BY <2>6, Zenon
<1>3. bang(x) = And(F[1..N], One)
  BY <1>1, Zenon DEF bang, FoldLeft, MapThenFoldSet
<1> HIDE DEF F
<1>4. y(0) = Not(x)
  <2>1. 1..0 = {} /\ 1..0 \in SUBSET (1..N)
    OBVIOUS
  <2> QED BY <1>2, <2>1
<1>5. ASSUME NEW j \in 1..N PROVE y(j) = And(y(j - 1), Sar(y(j - 1), Halves[j]))
  <2>1. Max(1..j) = j /\ (1..j) \ {j} = 1..j - 1 /\ 1..j # {} /\ 1..j \in SUBSET (1..N)
    BY <1>1, MaxUpTo
  <2> QED BY <1>2, <2>1
<1> HIDE DEF y
<1> DEFINE w == Not(x)
           A == {j \in 0..N : (\A k \in 0..2^(N - j) - 1 : y(j)[k]) <=> \A k \in BitNos : w[k]}
<1>6. 0 \in A
  <2>1. 0..2^(N - 0) - 1 = BitNos
    BY HalvesAre DEF BitNos
  <2> QED BY <1>1, <1>4, <2>1
<1>7. ASSUME NEW j \in 0..N - 1, j \in A PROVE j + 1 \in A
  <2> DEFINE h == Halves[j + 1]
  <2>1. j + 1 \in 1..N /\ (j + 1) - 1 = j
    BY <1>1
  <2>2. h = 2^(N - (j + 1)) /\ h \in 1..W - 1 /\ 2^(N - j) = 2 * h /\ 2 * h \in 1..W
    BY <2>1, Round
  <2>3. y(j + 1) = And(y(j), Sar(y(j), h))
    BY <1>5, <2>1
  <2> HIDE DEF h
  <2>4. ASSUME NEW k \in 0..h - 1 PROVE y(j + 1)[k] <=> y(j)[k] /\ y(j)[k + h]
    <3>1. k \in 0..W - 1 /\ k + h <= W - 1
      BY <2>2
    <3> QED BY <2>3, <3>1 DEF And, Sar
  <2>5. (\A k \in 0..h - 1 : y(j + 1)[k]) <=> \A k \in 0..(2 * h) - 1 : y(j)[k]
    <3>1. ASSUME \A k \in 0..h - 1 : y(j + 1)[k], NEW k \in 0..(2 * h) - 1 PROVE y(j)[k]
      <4>1. CASE k < h
        <5>1. k \in 0..h - 1
          BY <2>2, <4>1
        <5> QED BY <2>4, <3>1, <5>1
      <4>2. CASE k >= h
        <5>1. k - h \in 0..h - 1 /\ (k - h) + h = k
          BY <2>2, <4>2
        <5> QED BY <2>4, <3>1, <5>1
      <4>3. k < h \/ k >= h
        BY <2>2
      <4> QED BY <4>1, <4>2, <4>3
    <3>2. ASSUME \A k \in 0..(2 * h) - 1 : y(j)[k], NEW k \in 0..h - 1 PROVE y(j + 1)[k]
      <4>1. k \in 0..(2 * h) - 1 /\ k + h \in 0..(2 * h) - 1
        BY <2>2
      <4> QED BY <2>4, <3>2, <4>1
    <3> QED BY <3>1, <3>2
  <2>6. j + 1 \in 0..N
    BY <1>1
  <2> QED BY <1>7, <2>2, <2>5, <2>6
<1>8. N \in A
  <2> HIDE DEF A
  <2>1. N \in Nat
    BY <1>1
  <2>2. 0..N \subseteq A
    <3> HIDE DEF N
    <3> QED BY <1>6, <1>7, <2>1, Upwards
  <2> QED BY <1>1, <2>2
<1>9. y(N)[0] <=> \A k \in BitNos : w[k]
  <2>1. N - N = 0 /\ 2^0 = 1 /\ 0..1 - 1 = {0}
    BY <1>1, Twice
  <2> QED BY <1>8, <2>1
<1>10. (\A k \in BitNos : w[k]) = (\A k \in 0..W - 1 : ~x[k])
  BY DEF Not, BitNos
<1>11. And(y(N), One) = Flag(y(N)[0])
  <2>1. y(N)[0] \in BOOLEAN
    <3>1. N \in 1..N /\ 0 \in 0..W - 1
      BY <1>1
    <3> QED BY <1>5, <3>1 DEF And
  <2>2. \A k \in BitNos : (y(N)[k] /\ One[k]) = (y(N)[0] /\ k = 0)
    BY <2>1, ZeroOne
  <2>3. And(y(N), One) = [k \in BitNos |-> y(N)[0] /\ k = 0]
    BY <2>2 DEF And, BitNos
  <2>4. CASE y(N)[0]
    BY <2>3, <2>4, ZeroOne DEF Flag
  <2>5. CASE ~y(N)[0]
    BY <2>3, <2>5, ZeroOne DEF Flag
  <2> QED BY <2>4, <2>5
<1>12. Flag(y(N)[0]) = Flag(\A k \in 0..W - 1 : ~x[k])
  BY <1>9, <1>10, Zenon DEF Flag
<1> QED BY <1>3, <1>11, <1>12 DEF test_bang, y

-----------------------------------------------------------------------------
(***************************************************************************)
(* Counting bits in groups.                                                *)
(***************************************************************************)

\* Words with the same low bits.
LEMMA LowSame == ASSUME NEW x, NEW y, NEW n \in 0..W, \A k \in 0..n - 1 : x[k] <=> y[k]
                 PROVE  Low(x)[n] = Low(y)[n]
<1> DEFINE A == {k \in 0..n : Low(x)[k] = Low(y)[k]}
<1>1. 0 \in A
  <2>1. Low(x)[0] = 0 /\ Low(y)[0] = 0
    BY LowIs
  <2> QED BY <2>1
<1>2. ASSUME NEW k \in 0..n - 1, k \in A PROVE k + 1 \in A
  <2>1. k \in 0..W - 1 /\ k + 1 \in 0..n
    BY <1>2
  <2>2. Low(x)[k + 1] = Low(x)[k] + Bit(x, k) /\ Low(y)[k + 1] = Low(y)[k] + Bit(y, k)
    BY <2>1, LowIs
  <2>3. Bit(x, k) = Bit(y, k)
    BY <1>2, Zenon DEF Bit
  <2> QED BY <1>2, <2>1, <2>2, <2>3
<1>3. 0..n \subseteq A
  <2>1. n \in Nat
    OBVIOUS
  <2> HIDE DEF A
  <2> QED BY <1>1, <1>2, <2>1, Upwards
<1> QED BY <1>3

\* Bits that are not set add nothing.
LEMMA LowRest == ASSUME NEW x, NEW m \in 0..W, NEW n \in m..W, \A k \in m..n - 1 : ~x[k]
                 PROVE  Low(x)[n] = Low(x)[m]
<1> DEFINE A == {k \in 0..n - m : Low(x)[m + k] = Low(x)[m]}
<1>1. 0 \in A
  <2>1. m + 0 = m /\ 0 \in 0..n - m
    OBVIOUS
  <2> QED BY <2>1
<1>2. ASSUME NEW k \in 0..(n - m) - 1, k \in A PROVE k + 1 \in A
  <2>1. m + k \in 0..W - 1 /\ m + k \in m..n - 1 /\ k + 1 \in 0..n - m /\ (m + k) + 1 = m + (k + 1) /\ m + k \in 0..W
    BY <1>2
  <2>2. Low(x)[(m + k) + 1] = Low(x)[m + k] + Bit(x, m + k) /\ Low(x)[m + k] \in Nat
    BY <2>1, LowIs
  <2>3. Bit(x, m + k) = 0
    BY <2>1, Zenon DEF Bit
  <2> QED BY <1>2, <2>1, <2>2, <2>3
<1>3. n - m \in A
  <2>1. n - m \in Nat
    OBVIOUS
  <2> HIDE DEF A
  <2>2. 0..n - m \subseteq A
    BY <1>1, <1>2, <2>1, Upwards
  <2> QED BY <2>1, <2>2
<1>4. m + (n - m) = n
  OBVIOUS
<1> QED BY <1>3, <1>4

\* The number in the s bits from bit i on.
Field(x, i, s) == Low(Shr(x, i))[s]

LEMMA Fields == ASSUME NEW x \in Word, NEW i \in 0..W - 1
                PROVE  \A s \in 0..W - i : /\ Field(x, i, s) \in Nat
                                           /\ Low(x)[i + s] = Low(x)[i] + 2^i * Field(x, i, s)
<1> DEFINE y == Shr(x, i)
           A == {s \in 0..W - i : Low(x)[i + s] = Low(x)[i] + 2^i * Low(y)[s]}
<1>1. 2^i \in Nat /\ i \in 0..W /\ W - i \in Nat
  BY Twice
<1>2. 0 \in A
  <2>1. Low(y)[0] = 0 /\ Low(x)[i] \in Nat /\ i + 0 = i /\ 0 \in 0..W - i
    BY <1>1, LowIs
  <2> QED BY <1>1, <2>1
<1>3. ASSUME NEW s \in 0..(W - i) - 1, s \in A PROVE s + 1 \in A
  <2>1. i + s \in 0..W - 1 /\ s \in 0..W - 1 /\ s \in 0..W - i /\ s + 1 \in 0..W - i /\ (i + s) + 1 = i + (s + 1)
        /\ i + s \in 0..W /\ s \in 0..W
    BY <1>3
  <2>2. Low(x)[(i + s) + 1] = Low(x)[i + s] + Bit(x, i + s) /\ Low(y)[s + 1] = Low(y)[s] + Bit(y, s)
    BY <2>1, LowIs
  <2>3. y[s] = x[i + s]
    <3>1. y[s] = (s + i <= W - 1 /\ x[s + i])
      BY <2>1 DEF Shr
    <3>2. s + i <= W - 1 /\ s + i = i + s
      BY <2>1
    <3>3. x[i + s] \in BOOLEAN
      BY <2>1 DEF Word
    <3> QED BY <3>1, <3>2, <3>3
  <2>4. Bit(x, i + s) = 2^i * Bit(y, s)
    <3>1. 2^(i + s) = 2^i * 2^s /\ 2^s \in Nat
      BY <1>1, <2>1, PowerSum, Twice
    <3> QED BY <1>1, <2>3, <3>1 DEF Bit
  <2>5. Low(x)[i] \in Nat /\ Low(y)[s] \in Nat /\ Bit(y, s) \in Nat
    BY <1>1, <2>1, LowIs, Bits
  <2>6. 2^i * (Low(y)[s] + Bit(y, s)) = 2^i * Low(y)[s] + 2^i * Bit(y, s)
    <3> DEFINE p == 2^i
               u == Low(y)[s]
               b == Bit(y, s)
    <3>1. p \in Nat /\ u \in Nat /\ b \in Nat
      BY <1>1, <2>5
    <3> HIDE DEF p, u, b
    <3>2. p * (u + b) = p * u + p * b
      BY <3>1
    <3> QED BY <3>2 DEF p, u, b
  <2>7. Low(x)[i + (s + 1)] = Low(x)[i] + 2^i * Low(y)[s + 1]
    <3> DEFINE p == 2^i * Low(y)[s]
               q == 2^i * Bit(y, s)
               r == Low(x)[i]
    <3>1. p \in Nat /\ q \in Nat /\ r \in Nat
      BY <1>1, <2>5
    <3>2. Low(x)[i + (s + 1)] = (r + p) + q /\ 2^i * Low(y)[s + 1] = p + q
      BY <1>3, <2>1, <2>2, <2>4, <2>6
    <3> HIDE DEF p, q, r
    <3>3. (r + p) + q = r + (p + q)
      BY <3>1
    <3> QED BY <3>2, <3>3 DEF r
  <2> QED BY <2>1, <2>7
<1>4. 0..W - i \subseteq A
  <2> HIDE DEF A
  <2> QED BY <1>1, <1>2, <1>3, Upwards
<1>5. \A s \in 0..W - i : Low(y)[s] \in Nat
  <2>1. \A s \in 0..W - i : s \in 0..W
    OBVIOUS
  <2> QED BY <2>1, LowIs
<1> QED BY <1>4, <1>5 DEF Field

\* Where no carry leaves the k low bits, they are added on their own.
LEMMA LowAdd == ASSUME NEW x \in Word, NEW y \in Word, NEW k \in 0..W, Low(x)[k] + Low(y)[k] < 2^k
                PROVE  Low(Add(x, y))[k] = Low(x)[k] + Low(y)[k]
<1> DEFINE m == 2^k
           u == Unsigned(x)
           v == Unsigned(y)
           p == Low(x)[k]
           q == Low(y)[k]
<1>1. m \in Nat \ {0} /\ u \in Int /\ v \in Int /\ p \in Nat /\ q \in Nat /\ p + q < m
  BY Twice, WordNumber, LowBound
<1>2. u % m = p /\ v % m = q
  BY LowRemainder
<1>3. Low(Add(x, y))[k] = (u + v) % m
  <2>1. u + v \in Int
    BY <1>1
  <2> HIDE DEF u, v
  <2> QED BY <2>1, BinLow DEF Add, u, v
<1> HIDE DEF m, u, v, p, q
<1>4. PICK d \in Int : u = m * d + p
  BY <1>1, <1>2, Divide
<1>5. PICK e \in Int : v = m * e + q
  BY <1>1, <1>2, Divide
<1>6. u + v = m * (d + e) + (p + q) /\ p + q \in 0..m - 1 /\ d + e \in Int /\ u + v \in Int
  BY <1>1, <1>4, <1>5
<1>7. (u + v) % m = p + q
  BY <1>1, <1>6, Quotient
<1> QED BY <1>3, <1>7 DEF p, q

LEMMA BelowPower == \A k \in 0..W : k < 2^k
<1> DEFINE A == {k \in 0..W : k < 2^k}
<1>1. 0 \in A
  BY Twice
<1>2. ASSUME NEW k \in 0..W - 1, k \in A PROVE k + 1 \in A
  <2>1. 2^(k + 1) = 2 * 2^k /\ 2^k \in Nat /\ k \in Nat /\ k < 2^k /\ k + 1 \in 0..W
    BY <1>2, Twice
  <2> QED BY <2>1
<1>3. 0..W \subseteq A
  <2> HIDE DEF A
  <2> QED BY <1>1, <1>2, Bitwards
<1> QED BY <1>3

\* How many of the low i bits of a word are set.
Ones(x, i) == Cardinality({k \in 0..i - 1 : x[k]})

LEMMA OnesUp == ASSUME NEW x, NEW i \in 0..W
                PROVE  /\ Ones(x, i) \in Nat /\ Ones(x, 0) = 0
                       /\ i < W => Ones(x, i + 1) = Ones(x, i) + (IF x[i] THEN 1 ELSE 0)
<1> DEFINE S(n) == {k \in 0..n - 1 : x[k]}
<1>1. IsFiniteSet(S(i))
  <2>1. 0 \in Int /\ i - 1 \in Int
    OBVIOUS
  <2>2. IsFiniteSet(0..i - 1)
    BY <2>1, FS_Interval
  <2> QED BY <2>2, FS_Subset
<1>2. Ones(x, i) \in Nat
  BY <1>1, FS_CardinalityType DEF Ones
<1>3. Ones(x, 0) = 0
  <2>1. S(0) = {}
    OBVIOUS
  <2> QED BY <2>1, FS_EmptySet DEF Ones
<1>4. ASSUME i < W PROVE Ones(x, i + 1) = Ones(x, i) + (IF x[i] THEN 1 ELSE 0)
  <2>1. 0..(i + 1) - 1 = (0..i - 1) \cup {i} /\ i \notin 0..i - 1
    OBVIOUS
  <2>2. CASE x[i]
    <3>1. S(i + 1) = S(i) \cup {i} /\ i \notin S(i)
      BY <2>1, <2>2
    <3>2. Cardinality(S(i) \cup {i}) = Cardinality(S(i)) + 1
      BY <1>1, <3>1, FS_AddElement
    <3> QED BY <2>2, <3>1, <3>2 DEF Ones
  <2>3. CASE ~x[i]
    <3>1. S(i + 1) = S(i)
      BY <2>1, <2>3
    <3>2. Ones(x, i + 1) = Ones(x, i)
      BY <3>1, Zenon DEF Ones
    <3> QED BY <1>2, <2>3, <3>2
  <2> QED BY <2>2, <2>3
<1> QED BY <1>2, <1>3, <1>4

\* How many of the s bits from bit i on are set: as many as there are, at most.
OnesIn(x, i, s) == Ones(x, i + s) - Ones(x, i)

LEMMA OnesFit == ASSUME NEW x, NEW i \in 0..W
                 PROVE  \A s \in 0..W - i : OnesIn(x, i, s) \in 0..s
<1> DEFINE A == {s \in 0..W - i : OnesIn(x, i, s) \in 0..s}
<1>1. 0 \in A
  <2>1. i + 0 = i /\ Ones(x, i) \in Nat /\ 0 \in 0..W - i
    BY OnesUp
  <2> QED BY <2>1 DEF OnesIn
<1>2. ASSUME NEW s \in 0..(W - i) - 1, s \in A PROVE s + 1 \in A
  <2>1. i + s \in 0..W /\ i + s < W /\ i + (s + 1) = (i + s) + 1 /\ s + 1 \in 0..W - i
    BY <1>2
  <2>2. /\ Ones(x, i + s) \in Nat /\ Ones(x, i) \in Nat
        /\ Ones(x, (i + s) + 1) = Ones(x, i + s) + (IF x[i + s] THEN 1 ELSE 0)
    BY <2>1, OnesUp
  <2>3. OnesIn(x, i, s) \in 0..s
    BY <1>2
  <2> QED BY <2>1, <2>2, <2>3 DEF OnesIn
<1>3. 0..W - i \subseteq A
  <2>1. W - i \in Nat
    OBVIOUS
  <2> HIDE DEF A
  <2> QED BY <1>1, <1>2, <2>1, Upwards
<1> QED BY <1>3

\* The mask of a round keeps the lower half of each group.
LEMMA MaskIs == ASSUME NEW s \in Nat \ {0}, NEW g \in Nat, NEW r \in 0..2 * s - 1, 2 * (g * s) + r \in BitNos
                PROVE  Mask(s)[2 * (g * s) + r] <=> r < s
<1> DEFINE k == 2 * (g * s) + r
<1>1. Mask(s)[k] <=> (k \div s) % 2 = 0
  BY DEF Mask, BitNos
<1>2. g * s \in Nat /\ k \in Int
  OBVIOUS
<1>3. CASE r < s
  <2> DEFINE q == 2 * g
             z == 0
             two == 2
  <2>1. q \in Int /\ r \in 0..s - 1
    BY <1>3
  <2>2. k = s * q + r
    OBVIOUS
  <2>3. k \div s = q
    <3> HIDE DEF k, q
    <3> QED BY <1>2, <2>1, <2>2, Quotient
  <2>4. q % two = z
    <3>1. q = two * g + z /\ two \in Nat \ {0} /\ z \in 0..two - 1 /\ g \in Int
      OBVIOUS
    <3> HIDE DEF q, two, z
    <3> QED BY <2>1, <3>1, Quotient
  <2>5. (k \div s) % 2 = 0
    BY <2>3, <2>4, Zenon
  <2> HIDE DEF k
  <2> QED BY <1>1, <1>3, <2>5 DEF k
<1>4. CASE r >= s
  <2> DEFINE q == 2 * g + 1
             t == r - s
             one == 1
             two == 2
  <2>1. q \in Int /\ t \in 0..s - 1
    BY <1>4
  <2>2. k = s * q + t
    OBVIOUS
  <2>3. k \div s = q
    <3> HIDE DEF k, q, t
    <3> QED BY <1>2, <2>1, <2>2, Quotient
  <2>4. q % two = one
    <3>1. q = two * g + one /\ two \in Nat \ {0} /\ one \in 0..two - 1 /\ g \in Int
      OBVIOUS
    <3> HIDE DEF q, two, one
    <3> QED BY <2>1, <3>1, Quotient
  <2>5. (k \div s) % 2 = 1
    BY <2>3, <2>4, Zenon
  <2> HIDE DEF k
  <2> QED BY <1>1, <1>4, <2>5 DEF k
<1>5. r < s \/ r >= s
  OBVIOUS
<1> QED BY <1>3, <1>4, <1>5

\* So a group of a masked word is the lower half of the group of the word.
LEMMA MaskField == ASSUME NEW y \in Word, NEW s \in Nat \ {0}, NEW g \in Nat, 2 * (g * s) + 2 * s <= W
                   PROVE  Field(And(y, Mask(s)), 2 * (g * s), 2 * s) = Field(y, 2 * (g * s), s)
<1> DEFINE i == 2 * (g * s)
           n == 2 * s
           u == Shr(And(y, Mask(s)), i)
           v == Shr(y, i)
<1>1. g * s \in Nat /\ i \in 0..W - 1 /\ s \in 0..W /\ n \in s..W /\ n \in 0..W /\ i + n <= W
  OBVIOUS
<1>2. ASSUME NEW r \in 0..n - 1 PROVE u[r] <=> (r < s /\ v[r])
  <2>1. r \in 0..W - 1 /\ r + i <= W - 1 /\ i + r \in BitNos /\ r + i = i + r /\ r \in 0..2 * s - 1
    BY <1>1 DEF BitNos
  <2>2. Mask(s)[i + r] <=> r < s
    BY <1>1, <2>1, MaskIs
  <2> HIDE DEF i
  <2>3. u[r] = And(y, Mask(s))[i + r] /\ v[r] = y[i + r]
    <3>1. \A z : Shr(z, i)[r] = (r + i <= W - 1 /\ z[r + i])
      BY <2>1 DEF Shr
    <3>2. And(y, Mask(s))[i + r] \in BOOLEAN /\ y[i + r] \in BOOLEAN
      BY <2>1 DEF And, Word, BitNos
    <3> QED BY <2>1, <3>1, <3>2
  <2>4. And(y, Mask(s))[i + r] = (y[i + r] /\ Mask(s)[i + r])
    BY <2>1 DEF And, BitNos
  <2> QED BY <2>2, <2>3, <2>4
<1>3. \A k \in 0..s - 1 : u[k] <=> v[k]
  <2>1. \A k \in 0..s - 1 : k \in 0..n - 1 /\ k < s
    OBVIOUS
  <2> HIDE DEF u, v, n
  <2> QED BY <1>2, <2>1
<1>4. \A k \in s..n - 1 : ~u[k]
  <2>1. \A k \in s..n - 1 : k \in 0..n - 1 /\ ~(k < s)
    OBVIOUS
  <2> HIDE DEF u, v, n
  <2> QED BY <1>2, <2>1
<1> HIDE DEF u, v, n, i
<1>5. Low(u)[n] = Low(u)[s]
  BY <1>1, <1>4, LowRest
<1>6. Low(u)[s] = Low(v)[s]
  BY <1>1, <1>3, LowSame
<1> QED BY <1>5, <1>6 DEF Field, u, v, n, i

\* Shifted, the upper halves are kept.
LEMMA UpperField == ASSUME NEW y \in Word, NEW s \in Nat \ {0}, NEW g \in Nat, 2 * (g * s) + 2 * s <= W
                    PROVE  Field(And(Sar(y, s), Mask(s)), 2 * (g * s), 2 * s) = Field(y, 2 * (g * s) + s, s)
<1> DEFINE i == 2 * (g * s)
           u == Shr(Sar(y, s), i)
           v == Shr(y, i + s)
<1>1. g * s \in Nat /\ i \in 0..W - 1 /\ s \in 0..W /\ i + 2 * s <= W
  OBVIOUS
<1>2. Sar(y, s) \in Word
  <2>1. \A k \in 0..W - 1 : (IF k + s <= W - 1 THEN k + s ELSE W - 1) \in 0..W - 1
    OBVIOUS
  <2> QED BY <2>1 DEF Sar, Word
<1> HIDE DEF i
<1>3. ASSUME NEW r \in 0..s - 1 PROVE u[r] <=> v[r]
  <2>1. r \in 0..W - 1 /\ r + i \in 0..W - 1 /\ r + i <= W - 1 /\ (r + i) + s <= W - 1
        /\ r + (i + s) <= W - 1 /\ r + (i + s) = (r + i) + s
    BY <1>1
  <2>2. u[r] = (r + i <= W - 1 /\ Sar(y, s)[r + i])
    BY <2>1 DEF Shr
  <2>3. v[r] = (r + (i + s) <= W - 1 /\ y[r + (i + s)])
    BY <2>1 DEF Shr
  <2>4. Sar(y, s)[r + i] = y[(r + i) + s]
    BY <2>1 DEF Sar
  <2> QED BY <2>1, <2>2, <2>3, <2>4
<1> HIDE DEF u, v
<1>4. Low(u)[s] = Low(v)[s]
  BY <1>1, <1>3, LowSame
<1>5. Field(And(Sar(y, s), Mask(s)), i, 2 * s) = Field(Sar(y, s), i, s)
  BY <1>2, MaskField DEF i
<1> QED BY <1>4, <1>5 DEF Field, u, v, i

\* A round: the counts of two halves are added up, with no carry out of their group.
LEMMA CountRound ==
    ASSUME NEW x, NEW y \in Word, NEW s \in Nat \ {0}, 2 * s <= W,
           \A g \in Nat : g * s + s <= W => Field(y, g * s, s) = OnesIn(x, g * s, s)
    PROVE  LET z == Add(And(y, Mask(s)), And(Sar(y, s), Mask(s)))
           IN \A g \in Nat : g * (2 * s) + 2 * s <= W => Field(z, g * (2 * s), 2 * s) = OnesIn(x, g * (2 * s), 2 * s)
<1> DEFINE a == And(y, Mask(s))
           b == And(Sar(y, s), Mask(s))
           z == Add(a, b)
           n == 2 * s
           i(g) == 2 * (g * s)
<1>1. a \in Word /\ b \in Word /\ z \in Word
  <2>1. \A t : And(y, t) \in Word
    BY DEF And, Word
  <2>2. \A t : And(Sar(y, s), t) \in Word
    BY DEF And, Word
  <2>3. Unsigned(a) + Unsigned(b) \in Int
    BY WordNumber
  <2> HIDE DEF a, b
  <2>4. z \in Word
    BY <2>3, WordNumbers DEF Add
  <2> QED BY <2>1, <2>2, <2>4 DEF a, b
<1>2. ASSUME NEW g \in Nat, i(g) + n <= W
      PROVE  /\ i(g) \in 0..W - 1 /\ n \in 0..W - i(g) /\ n \in 0..W
             /\ Field(a, i(g), n) + Field(b, i(g), n) = OnesIn(x, i(g), n)
             /\ OnesIn(x, i(g), n) \in Nat /\ OnesIn(x, i(g), n) < 2^n
  <2>1. g * s \in Nat /\ i(g) \in 0..W - 1 /\ n \in 0..W - i(g) /\ i(g) \in 0..W /\ n \in 0..W
    BY <1>2
  <2>2. Field(a, i(g), n) = Field(y, i(g), s) /\ Field(b, i(g), n) = Field(y, i(g) + s, s)
    BY <1>2, MaskField, UpperField
  <2>3. Field(y, i(g), s) = OnesIn(x, i(g), s)
    <3>1. 2 * g \in Nat /\ (2 * g) * s = i(g) /\ (2 * g) * s + s <= W
      BY <1>2
    <3> HIDE DEF i
    <3> QED BY <3>1
  <2>4. Field(y, i(g) + s, s) = OnesIn(x, i(g) + s, s)
    <3>1. 2 * g + 1 \in Nat /\ (2 * g + 1) * s = i(g) + s /\ (2 * g + 1) * s + s <= W
      BY <1>2
    <3> HIDE DEF i
    <3> QED BY <3>1
  <2> HIDE DEF i
  <2>5. OnesIn(x, i(g), s) + OnesIn(x, i(g) + s, s) = OnesIn(x, i(g), n)
    <3>1. (i(g) + s) + s = i(g) + n /\ i(g) \in 0..W /\ i(g) + s \in 0..W /\ i(g) + n \in 0..W
      BY <1>2, <2>1
    <3>2. Ones(x, i(g)) \in Nat /\ Ones(x, i(g) + s) \in Nat /\ Ones(x, i(g) + n) \in Nat
      BY <3>1, OnesUp
    <3> HIDE DEF n
    <3> QED BY <3>1, <3>2 DEF OnesIn
  <2>6. OnesIn(x, i(g), n) \in 0..n
    BY <2>1, OnesFit
  <2>7. n < 2^n /\ 2^n \in Nat
    BY <2>1, BelowPower, Twice
  <2> HIDE DEF n, a, b
  <2> QED BY <2>1, <2>2, <2>3, <2>4, <2>5, <2>6, <2>7
<1>3. ASSUME NEW g \in Nat, i(g) + n <= W
      PROVE  /\ Low(a)[i(g) + n] + Low(b)[i(g) + n] =
                    (Low(a)[i(g)] + Low(b)[i(g)]) + 2^i(g) * OnesIn(x, i(g), n)
             /\ Low(a)[i(g)] \in Nat /\ Low(b)[i(g)] \in Nat
             /\ 2^(i(g) + n) = 2^i(g) * 2^n /\ 2^i(g) \in Nat \ {0} /\ 2^n \in Nat \ {0}
  <2> HIDE DEF i, a, b, z, n
  <2>1. /\ i(g) \in 0..W - 1 /\ n \in 0..W - i(g) /\ i(g) \in 0..W /\ n \in 0..W
        /\ Field(a, i(g), n) + Field(b, i(g), n) = OnesIn(x, i(g), n)
    BY <1>2, <1>3
  <2>2. /\ Low(a)[i(g) + n] = Low(a)[i(g)] + 2^i(g) * Field(a, i(g), n) /\ Field(a, i(g), n) \in Nat
        /\ Low(b)[i(g) + n] = Low(b)[i(g)] + 2^i(g) * Field(b, i(g), n) /\ Field(b, i(g), n) \in Nat
    BY <1>1, <2>1, Fields
  <2>3. 2^(i(g) + n) = 2^i(g) * 2^n /\ 2^i(g) \in Nat \ {0} /\ 2^n \in Nat \ {0}
    BY <2>1, PowerSum, Twice
  <2>4. Low(a)[i(g)] \in Nat /\ Low(b)[i(g)] \in Nat
    BY <2>1, LowBound
  <2> DEFINE m == 2^i(g)
             p == Low(a)[i(g)]
             q == Low(b)[i(g)]
             c == Field(a, i(g), n)
             d == Field(b, i(g), n)
  <2>5. m \in Nat /\ p \in Nat /\ q \in Nat /\ c \in Nat /\ d \in Nat
    BY <2>2, <2>3, <2>4
  <2> HIDE DEF m, p, q, c, d
  <2>6. (p + m * c) + (q + m * d) = (p + q) + m * (c + d)
    BY <2>5
  <2> QED BY <2>1, <2>2, <2>3, <2>4, <2>6 DEF m, p, q, c, d
<1> DEFINE A == {g \in 0..W : i(g) <= W => Low(a)[i(g)] + Low(b)[i(g)] < 2^i(g)}
<1>4. 0 \in A
  <2>1. i(0) = 0 /\ Low(a)[0] = 0 /\ Low(b)[0] = 0 /\ 2^0 = 1 /\ 0 \in 0..W
    BY LowIs, Twice
  <2> HIDE DEF a, b, i
  <2>2. Low(a)[i(0)] = 0 /\ Low(b)[i(0)] = 0 /\ 2^i(0) = 1
    BY <2>1, Zenon
  <2> QED BY <2>1, <2>2
<1>5. ASSUME NEW g \in 0..W - 1, g \in A PROVE g + 1 \in A
  <2>1. g \in Nat /\ g + 1 \in 0..W /\ i(g + 1) = i(g) + n /\ i(g) \in Nat /\ n \in Nat
    <3>1. g \in Nat /\ g + 1 \in 0..W /\ g * s \in Nat
      BY <1>5
    <3>2. (g + 1) * s = g * s + s
      BY <3>1
    <3> QED BY <3>1, <3>2
  <2> SUFFICES ASSUME i(g) + n <= W PROVE Low(a)[i(g) + n] + Low(b)[i(g) + n] < 2^(i(g) + n)
    <3> HIDE DEF i, n, a, b
    <3> QED BY <2>1
  <2> HIDE DEF i, n, a, b
  <2>2. Low(a)[i(g)] + Low(b)[i(g)] < 2^i(g)
    BY <1>5, <2>1
  <2> DEFINE m == 2^i(g)
             p == Low(a)[i(g)] + Low(b)[i(g)]
             c == OnesIn(x, i(g), n)
             e == 2^n
  <2>3. m \in Nat \ {0} /\ p \in Nat /\ c \in Nat /\ e \in Nat /\ c < e /\ p < m
        /\ Low(a)[i(g) + n] + Low(b)[i(g) + n] = p + m * c /\ 2^(i(g) + n) = m * e
    BY <1>2, <1>3, <2>1, <2>2
  <2> HIDE DEF m, p, c, e
  <2>4. m * c + m <= m * e
    <3>1. m * (c + 1) <= m * e
      BY <2>3
    <3>2. m * (c + 1) = m * c + m
      BY <2>3
    <3> QED BY <3>1, <3>2
  <2>5. m * c \in Nat /\ m * e \in Nat
    BY <2>3
  <2> QED BY <2>3, <2>4, <2>5
<1>6. 0..W \subseteq A
  <2> HIDE DEF A
  <2> QED BY <1>4, <1>5, Bitwards
<1>7. ASSUME NEW g \in 0..W, i(g) <= W PROVE Low(z)[i(g)] = Low(a)[i(g)] + Low(b)[i(g)]
  <2>1. i(g) \in 0..W
    BY <1>7
  <2> HIDE DEF i, a, b
  <2>2. Low(a)[i(g)] + Low(b)[i(g)] < 2^i(g)
    BY <1>6, <1>7
  <2> QED BY <1>1, <2>1, <2>2, LowAdd
<1>8. ASSUME NEW g \in Nat, i(g) + n <= W PROVE Field(z, i(g), n) = OnesIn(x, i(g), n)
  <2>1. g \in 0..W /\ g + 1 \in 0..W /\ i(g) <= W /\ i(g + 1) <= W /\ i(g + 1) = i(g) + n
    <3>1. g * s \in Nat /\ g <= g * s /\ (g + 1) * s = g * s + s
      OBVIOUS
    <3> QED BY <1>8, <3>1
  <2> HIDE DEF i, a, b, z, n
  <2>2. Low(z)[i(g)] = Low(a)[i(g)] + Low(b)[i(g)] /\ Low(z)[i(g) + n] = Low(a)[i(g) + n] + Low(b)[i(g) + n]
    BY <1>7, <2>1
  <2>3. Low(z)[i(g) + n] = Low(z)[i(g)] + 2^i(g) * Field(z, i(g), n) /\ Field(z, i(g), n) \in Nat
    BY <1>1, <1>2, <1>8, Fields
  <2> DEFINE m == 2^i(g)
             p == Low(a)[i(g)] + Low(b)[i(g)]
             c == OnesIn(x, i(g), n)
             f == Field(z, i(g), n)
  <2>4. m \in Nat \ {0} /\ p \in Nat /\ c \in Nat /\ f \in Nat /\ p + m * c = p + m * f
    BY <1>2, <1>3, <1>8, <2>2, <2>3
  <2> HIDE DEF m, p, c, f
  <2>5. m * (f - c) = 0
    BY <2>4
  <2>6. f = c
    BY <2>4, <2>5
  <2> QED BY <2>6 DEF f, c
<1>9. ASSUME NEW g \in Nat, g * n + n <= W PROVE Field(z, g * n, n) = OnesIn(x, g * n, n)
  <2>1. g * n = i(g)
    OBVIOUS
  <2> HIDE DEF i, z, n
  <2> QED BY <1>8, <1>9, <2>1
<1> QED BY <1>9

\* The rounds of counting: the shifts are 1, 2, 4 up to half a word.
LEMMA RoundUp == /\ Rounds \in 3..5 /\ Len(Halves) = Rounds /\ DOMAIN Reverse(Halves) = 1..Rounds
                 /\ 2^Rounds = W
                 /\ \A j \in 0..Rounds - 1 : /\ Reverse(Halves)[j + 1] = 2^j /\ 2^j \in Nat \ {0}
                                             /\ 2^(j + 1) = 2 * 2^j /\ 2 * 2^j <= W
<1>1. /\ Rounds \in 3..5 /\ 2^Rounds = W /\ Len(Halves) = Rounds
      /\ Halves = [j \in 1..Rounds |-> 2^(Rounds - j)]
  BY HalvesAre
<1>2. Reverse(Halves) = [j \in 1..Rounds |-> Halves[(Rounds - j) + 1]]
  BY <1>1 DEF Reverse
<1>3. ASSUME NEW j \in 0..Rounds - 1
      PROVE  /\ Reverse(Halves)[j + 1] = 2^j /\ 2^j \in Nat \ {0}
             /\ 2^(j + 1) = 2 * 2^j /\ 2 * 2^j <= W
  <2>1. j + 1 \in 1..Rounds /\ (Rounds - (j + 1)) + 1 \in 1..Rounds
        /\ Rounds - ((Rounds - (j + 1)) + 1) = j /\ j \in 0..W - 1 /\ j \in 0..W
        /\ j + 1 \in 0..W /\ Rounds \in (j + 1)..W
    BY <1>1
  <2>2. Reverse(Halves)[j + 1] = Halves[(Rounds - (j + 1)) + 1]
    BY <1>2, <2>1
  <2>3. Halves[(Rounds - (j + 1)) + 1] = 2^j
    BY <1>1, <2>1
  <2>4. 2^(j + 1) = 2 * 2^j /\ 2^j \in Nat \ {0} /\ 2^(j + 1) <= 2^Rounds
    BY <2>1, Twice, PowerOrder
  <2> QED BY <1>1, <2>2, <2>3, <2>4
<1> QED BY <1>1, <1>2, <1>3

\* bitCount: the counts of neighbouring groups are added up, until there is one.
THEOREM BitCountRight == \A x \in Word : bitCount(x) = test_bitCount(x)
<1> SUFFICES ASSUME NEW x \in Word PROVE bitCount(x) = test_bitCount(x)
  OBVIOUS
<1> DEFINE N == Rounds
           R == Reverse(Halves)
           step(y, s) == Add(And(y, Mask(s)), And(Sar(y, s), Mask(s)))
           E(f) == [s \in SUBSET (1..N) |-> IF s = {} THEN x
                                            ELSE LET i == Max(s) IN step(f[s \ {i}], R[i])]
           F == CHOOSE f : f = E(f)
           y(j) == F[1..j]
<1>1. N \in 3..5 /\ N \in Nat /\ DOMAIN R = 1..N
  BY RoundUp
<1>2. F = E(F)
  <2> DEFINE g == [p \in Word \X (1..N) |-> step(p[1], R[p[2]])]
  <2>1. \A z : \A s : step(z, s) \in Word
    <3> SUFFICES ASSUME NEW z, NEW s PROVE step(z, s) \in Word
      OBVIOUS
    <3> DEFINE c == And(z, Mask(s))
               d == And(Sar(z, s), Mask(s))
    <3>1. Unsigned(c) + Unsigned(d) \in Int
      BY WordNumber
    <3> HIDE DEF c, d
    <3>2. Add(c, d) \in Word
      BY <3>1, WordNumbers DEF Add
    <3> QED BY <3>2 DEF c, d
  <2> HIDE DEF step, R
  <2>2. g \in [Word \X (1..N) -> Word]
    BY <2>1
  <2>3. \A z \in Word : \A i \in 1..N : g[<<z, i>>] = step(z, R[i])
    OBVIOUS
  <2> HIDE DEF g
  <2>4. PICK f : FoldsUpTo(f, Word, x, N, g)
    BY <1>1, <2>2, FoldExists
  <2>5. ASSUME NEW s \in SUBSET (1..N), s # {} PROVE f[s] = step(f[s \ {Max(s)}], R[Max(s)])
    <3>1. s \ {Max(s)} \in SUBSET (1..N) /\ Max(s) \in 1..N
      BY <1>1, <2>5, MaxIn
    <3>2. f[s \ {Max(s)}] \in Word
      BY <2>4, <3>1 DEF FoldsUpTo
    <3> QED BY <2>3, <2>4, <2>5, <3>1, <3>2 DEF FoldsUpTo
  <2>6. f = E(f)
    <3>1. f = [s \in SUBSET (1..N) |-> f[s]]
      BY <2>4 DEF FoldsUpTo
    <3>2. \A s \in SUBSET (1..N) : f[s] = IF s = {} THEN x ELSE LET i == Max(s) IN step(f[s \ {i}], R[i])
      BY <2>4, <2>5 DEF FoldsUpTo
    <3> QED BY <3>1, <3>2
  <2> HIDE DEF E
  <2> QED BY <2>6, Zenon
<1>3. bitCount(x) = F[1..N]
  BY <1>1, Zenon DEF bitCount, FoldLeft, MapThenFoldSet
<1> HIDE DEF F, step, R
<1>4. y(0) = x
  <2>1. 1..0 = {} /\ 1..0 \in SUBSET (1..N)
    OBVIOUS
  <2> QED BY <1>2, <2>1
<1>5. ASSUME NEW j \in 0..N - 1 PROVE y(j + 1) = step(y(j), R[j + 1])
  <2>1. j + 1 \in Nat \ {0} /\ (j + 1) - 1 = j /\ 1..j + 1 \in SUBSET (1..N)
    BY <1>1
  <2>2. Max(1..j + 1) = j + 1 /\ (1..j + 1) \ {j + 1} = 1..j /\ 1..j + 1 # {}
    BY <2>1, MaxUpTo
  <2> QED BY <1>2, <2>1, <2>2
<1> HIDE DEF y
<1> DEFINE Counted(z, s) == \A g \in Nat : g * s + s <= W => Field(z, g * s, s) = OnesIn(x, g * s, s)
           A == {j \in 0..N : y(j) \in Word /\ Counted(y(j), 2^j)}
<1>6. 0 \in A
  <2>1. Counted(x, 1)
    <3> SUFFICES ASSUME NEW g \in Nat, g * 1 + 1 <= W PROVE Field(x, g * 1, 1) = OnesIn(x, g * 1, 1)
      OBVIOUS
    <3>1. g * 1 = g /\ g \in 0..W /\ g < W /\ g \in 0..W - 1 /\ 0 \in 0..W - 1 /\ 0 + g = g /\ 0 + 1 = 1
      OBVIOUS
    <3> DEFINE u == Shr(x, g)
    <3>2. Low(u)[0 + 1] = Low(u)[0] + Bit(u, 0) /\ Low(u)[0] = 0
      BY <3>1, LowIs
    <3>3. u[0] = (0 + g <= W - 1 /\ x[0 + g])
      BY <3>1 DEF Shr
    <3>4. x[g] \in BOOLEAN
      BY <3>1 DEF Word
    <3>5. Bit(u, 0) = IF x[g] THEN 1 ELSE 0
      <4>1. u[0] = x[g]
        BY <3>1, <3>3, <3>4
      <4> QED BY <4>1, Twice, Zenon DEF Bit
    <3> HIDE DEF u
    <3>6. Low(u)[1] = IF x[g] THEN 1 ELSE 0
      BY <3>1, <3>2, <3>5
    <3>7. OnesIn(x, g, 1) = IF x[g] THEN 1 ELSE 0
      <4>1. Ones(x, g) \in Nat /\ Ones(x, g + 1) = Ones(x, g) + (IF x[g] THEN 1 ELSE 0)
        BY <3>1, OnesUp
      <4> QED BY <4>1 DEF OnesIn
    <3> QED BY <3>1, <3>6, <3>7 DEF Field, u
  <2>2. 0 \in 0..N /\ 2^0 = 1
    BY <1>1
  <2> HIDE DEF Counted
  <2> QED BY <1>4, <2>1, <2>2
<1>7. ASSUME NEW j \in 0..N - 1, j \in A PROVE j + 1 \in A
  <2> DEFINE s == 2^j
             n == 2 * s
  <2>1. R[j + 1] = s /\ s \in Nat \ {0} /\ 2^(j + 1) = n /\ n <= W
    BY RoundUp DEF R
  <2>2. y(j) \in Word /\ Counted(y(j), s)
    BY <1>7
  <2> HIDE DEF s
  <2>3. Counted(step(y(j), s), n)
    BY <2>1, <2>2, CountRound DEF step
  <2>4. step(y(j), s) \in Word
    <3> DEFINE c == And(y(j), Mask(s))
               d == And(Sar(y(j), s), Mask(s))
    <3>1. Unsigned(c) + Unsigned(d) \in Int
      BY WordNumber
    <3> HIDE DEF c, d
    <3>2. Add(c, d) \in Word
      BY <3>1, WordNumbers DEF Add
    <3> QED BY <3>2 DEF c, d, step
  <2>5. y(j + 1) = step(y(j), s)
    BY <1>5, <2>1
  <2>6. j + 1 \in 0..N
    BY <1>1
  <2> HIDE DEF Counted, n
  <2> QED BY <2>1, <2>3, <2>4, <2>5, <2>6
<1>8. N \in A
  <2>1. N \in Nat
    BY <1>1
  <2> HIDE DEF A, N
  <2>2. 0..N \subseteq A
    BY <1>6, <1>7, <2>1, Upwards
  <2> QED BY <2>1, <2>2
<1>9. Unsigned(y(N)) = Ones(x, W)
  <2>1. y(N) \in Word /\ Counted(y(N), W)
    BY <1>8, RoundUp
  <2>2. Field(y(N), 0, W) = OnesIn(x, 0, W)
    <3>1. 0 * W = 0 /\ 0 * W + W <= W /\ 0 \in Nat
      OBVIOUS
    <3> QED BY <2>1, <3>1
  <2>3. Low(y(N))[0 + W] = Low(y(N))[0] + 2^0 * Field(y(N), 0, W) /\ Field(y(N), 0, W) \in Nat
    <3>1. 0 \in 0..W - 1 /\ W \in 0..W - 0
      OBVIOUS
    <3> QED BY <2>1, <3>1, Fields
  <2>4. Low(y(N))[0] = 0 /\ Unsigned(y(N)) = Low(y(N))[W] /\ 2^0 = 1 /\ 0 + W = W
    BY LowIs
  <2>5. Ones(x, 0) = 0 /\ Ones(x, W) \in Nat
    <3>1. 0 \in 0..W /\ W \in 0..W
      OBVIOUS
    <3> QED BY <3>1, OnesUp
  <2>6. OnesIn(x, 0, W) = Ones(x, W)
    BY <2>5 DEF OnesIn
  <2> HIDE DEF N
  <2> QED BY <2>2, <2>3, <2>4, <2>6
<1>10. y(N) = Bin(Ones(x, W))
  <2>1. y(N) \in Word
    BY <1>8
  <2> QED BY <1>9, <2>1, WordNumbers
<1> QED BY <1>3, <1>10 DEF test_bitCount, Ones, y

\* The highest bit of a word.
Highest(x) == CHOOSE k \in 0..W - 1 : x[k] /\ \A j \in k + 1..W - 1 : ~x[j]

LEMMA HighestIs == ASSUME NEW x \in Word, x # Zero
                   PROVE  /\ Highest(x) \in 0..W - 1 /\ x[Highest(x)]
                          /\ \A j \in Highest(x) + 1..W - 1 : ~x[j]
<1> DEFINE S == {k \in 0..W - 1 : x[k]}
           T == {(W - 1) - k : k \in S}
<1>1. S # {}
  <2> SUFFICES ASSUME \A k \in 0..W - 1 : ~x[k] PROVE FALSE
    OBVIOUS
  <2>1. x = [k \in 0..W - 1 |-> x[k]] /\ \A k \in 0..W - 1 : x[k] = FALSE
    BY DEF Word
  <2>2. x = [k \in 0..W - 1 |-> FALSE]
    BY <2>1
  <2> QED BY <2>2, ZeroOne DEF BitNos
<1>2. T \in SUBSET Nat /\ T # {}
  BY <1>1
<1>3. PICK t \in T : \A u \in T : t <= u
  BY <1>2, LeastNumber
<1>4. PICK k \in S : t = (W - 1) - k
  OBVIOUS
<1>5. \A j \in k + 1..W - 1 : ~x[j]
  <2> SUFFICES ASSUME NEW j \in k + 1..W - 1, x[j] PROVE FALSE
    OBVIOUS
  <2>1. j \in S /\ (W - 1) - j \in T
    OBVIOUS
  <2>2. t <= (W - 1) - j /\ k \in 0..W - 1
    BY <1>3, <2>1
  <2> QED BY <1>4, <2>2
<1>6. \E i \in 0..W - 1 : x[i] /\ \A j \in i + 1..W - 1 : ~x[j]
  BY <1>5
<1> QED BY <1>6, Zenon DEF Highest

\* Two shifts are one.
LEMMA SarTwice == ASSUME NEW x \in Word, NEW m \in Nat, NEW n \in Nat
                  PROVE  Sar(Sar(x, m), n) = Sar(x, m + n) /\ Sar(x, 0) = x /\ Sar(x, m) \in Word
<1>1. ASSUME NEW k \in 0..W - 1
      PROVE  Sar(x, m)[IF k + n <= W - 1 THEN k + n ELSE W - 1] = x[IF k + (m + n) <= W - 1 THEN k + (m + n) ELSE W - 1]
  <2>1. CASE k + n <= W - 1
    <3>1. k + n \in 0..W - 1 /\ (k + n) + m = k + (m + n)
      BY <2>1
    <3> QED BY <2>1, <3>1 DEF Sar
  <2>2. CASE ~(k + n <= W - 1)
    <3>1. ~(k + (m + n) <= W - 1) /\ W - 1 \in 0..W - 1
      BY <2>2
    <3>2. Sar(x, m)[W - 1] = x[W - 1]
      <4>1. CASE m = 0
        BY <3>1, <4>1 DEF Sar
      <4>2. CASE m # 0
        <5>1. ~((W - 1) + m <= W - 1)
          BY <4>2
        <5> QED BY <3>1, <5>1 DEF Sar
      <4> QED BY <4>1, <4>2
    <3> QED BY <2>2, <3>1, <3>2
  <2> QED BY <2>1, <2>2
<1>2. Sar(Sar(x, m), n) = Sar(x, m + n)
  <2> DEFINE y == Sar(x, m)
  <2>1. Sar(y, n) = [k \in 0..W - 1 |-> y[IF k + n <= W - 1 THEN k + n ELSE W - 1]]
    BY DEF Sar
  <2>2. Sar(x, m + n) = [k \in 0..W - 1 |-> x[IF k + (m + n) <= W - 1 THEN k + (m + n) ELSE W - 1]]
    BY DEF Sar
  <2> HIDE DEF y
  <2>3. \A k \in 0..W - 1 : y[IF k + n <= W - 1 THEN k + n ELSE W - 1] = x[IF k + (m + n) <= W - 1 THEN k + (m + n) ELSE W - 1]
    BY <1>1 DEF y
  <2>4. Sar(y, n) = Sar(x, m + n)
    BY <2>1, <2>2, <2>3
  <2> QED BY <2>4 DEF y
<1>3. Sar(x, 0) = x
  <2>1. x = [k \in 0..W - 1 |-> x[k]]
    BY DEF Word
  <2>2. \A k \in 0..W - 1 : x[IF k + 0 <= W - 1 THEN k + 0 ELSE W - 1] = x[k]
    OBVIOUS
  <2> QED BY <2>1, <2>2 DEF Sar
<1>4. Sar(x, m) \in Word
  <2>1. \A k \in 0..W - 1 : (IF k + m <= W - 1 THEN k + m ELSE W - 1) \in 0..W - 1
    OBVIOUS
  <2> QED BY <2>1 DEF Sar, Word
<1> QED BY <1>2, <1>3, <1>4

\* Nothing is left of a word that is shifted beyond its highest bit.
LEMMA SarZero == ASSUME NEW x \in Word, x # Zero, NEW n \in 0..W - 1
                 PROVE  Sar(x, n) = Zero <=> Highest(x) < n
<1> DEFINE h == Highest(x)
<1>1. h \in 0..W - 1 /\ x[h] /\ \A j \in h + 1..W - 1 : ~x[j]
  BY HighestIs
<1> HIDE DEF h
<1>2. ASSUME h < n PROVE Sar(x, n) = Zero
  <2>1. \A k \in 0..W - 1 : (IF k + n <= W - 1 THEN k + n ELSE W - 1) \in h + 1..W - 1
    BY <1>1, <1>2
  <2>2. \A k \in 0..W - 1 : x[IF k + n <= W - 1 THEN k + n ELSE W - 1] = FALSE
    <3>1. \A j \in h + 1..W - 1 : x[j] = FALSE
      <4>1. \A j \in h + 1..W - 1 : j \in 0..W - 1
        BY <1>1
      <4> QED BY <1>1, <4>1 DEF Word
    <3> QED BY <2>1, <3>1
  <2>3. Sar(x, n) = [k \in 0..W - 1 |-> FALSE]
    BY <2>2 DEF Sar
  <2> QED BY <2>3, ZeroOne DEF BitNos
<1>3. ASSUME ~(h < n) PROVE Sar(x, n) # Zero
  <2>1. h - n \in 0..W - 1 /\ (h - n) + n <= W - 1 /\ (h - n) + n = h
    BY <1>1, <1>3
  <2>2. Sar(x, n)[h - n] = x[h]
    BY <2>1 DEF Sar
  <2>3. ~Zero[h - n]
    BY <2>1, ZeroOne DEF BitNos
  <2> QED BY <1>1, <2>2, <2>3
<1> QED BY <1>2, <1>3 DEF h

\* The amount that a round shifts by.
LEMMA Amount == ASSUME NEW y \in Word, NEW s \in 0..W
                PROVE  LET r == And(Add(LNot(y), Not(Zero)), Bin(s))
                       IN r = Bin(IF y = Zero THEN 0 ELSE s) /\ Unsigned(r) = (IF y = Zero THEN 0 ELSE s)
<1> DEFINE r == And(Add(LNot(y), Not(Zero)), Bin(s))
           n == IF y = Zero THEN 0 ELSE s
<1>1. Add(LNot(y), Not(Zero)) = Bin(IF y = Zero THEN 0 ELSE -1)
  <2>1. LNot(y) = Bin(IF y = Zero THEN 1 ELSE 0)
    BY DEF LNot, Flag, Zero, One
  <2>2. Add(Bin(1), Bin(-1)) = Bin(0) /\ Add(Bin(0), Bin(-1)) = Bin(-1)
    <3>1. Add(Bin(1), Bin(-1)) = Bin(1 + (-1)) /\ Add(Bin(0), Bin(-1)) = Bin(0 + (-1))
      BY AddNumbers
    <3> QED BY <3>1
  <2>3. CASE y = Zero
    BY <2>1, <2>2, <2>3, ZeroOne
  <2>4. CASE y # Zero
    BY <2>1, <2>2, <2>4, ZeroOne
  <2> QED BY <2>3, <2>4
<1>2. r = Bin(n)
  <2>1. Bin(s) = [k \in BitNos |-> Bin(s)[k]] /\ \A k \in BitNos : Bin(s)[k] \in BOOLEAN
    BY DEF Bin, BitNos
  <2>2. CASE y = Zero
    <3>1. \A k \in BitNos : (Zero[k] /\ Bin(s)[k]) = FALSE
      BY ZeroOne
    <3>2. And(Zero, Bin(s)) = [k \in BitNos |-> FALSE]
      BY <3>1 DEF And, BitNos
    <3> QED BY <1>1, <2>2, <3>2, ZeroOne DEF Zero
  <2>3. CASE y # Zero
    <3>1. \A k \in BitNos : (Bin(-1)[k] /\ Bin(s)[k]) = Bin(s)[k]
      BY <2>1, AllOnes
    <3>2. And(Bin(-1), Bin(s)) = [k \in BitNos |-> Bin(s)[k]]
      BY <3>1 DEF And, BitNos
    <3> QED BY <1>1, <2>1, <2>3, <3>2
  <2> QED BY <2>2, <2>3
<1>3. n \in 0..W
  OBVIOUS
<1> HIDE DEF n, r
<1>4. Unsigned(Bin(n)) = n
  <2>1. n < 2^W /\ 2^W \in Nat \ {0}
    <3>1. W \in 0..W /\ W < 2^W /\ 2^W \in Nat \ {0}
      BY BelowPower, Twice
    <3> QED BY <1>3, <3>1
  <2>2. Unsigned(Bin(n)) = n % 2^W
    BY <1>3, WordNumbers
  <2> DEFINE m == 2^W
             z == 0
  <2>3. m \in Nat \ {0} /\ n \in 0..m - 1 /\ n = m * z + n /\ n \in Int /\ z \in Int
    BY <1>3, <2>1
  <2> HIDE DEF m, z
  <2>4. n % m = n
    BY <2>3, Quotient
  <2> QED BY <2>2, <2>4 DEF m
<1> QED BY <1>2, <1>4 DEF n, r

\* ilog2: the search for the highest bit is narrowed down by halves.
THEOREM Ilog2Right == \A x \in Word : x # Zero => ilog2(x) = test_ilog2(x)
<1> SUFFICES ASSUME NEW x \in Word, x # Zero PROVE ilog2(x) = test_ilog2(x)
  OBVIOUS
<1> DEFINE N == Rounds
           amount(y, s) == And(Add(LNot(Sar(y, s)), Not(Zero)), Bin(s))
           step(q, s) == LET r == And(Add(LNot(Sar(q.x, s)), Not(Zero)), Bin(s))
                         IN [c |-> Add(q.c, r), x |-> Sar(q.x, Unsigned(r))]
           base == [c |-> Zero, x |-> x]
           E(f) == [s \in SUBSET (1..N) |-> IF s = {} THEN base
                                            ELSE LET i == Max(s) IN step(f[s \ {i}], Halves[i])]
           F == CHOOSE f : f = E(f)
           q(j) == F[1..j]
           Pairs == [c : Word, x : Word]
<1>1. N \in 3..5 /\ N \in Nat /\ DOMAIN Halves = 1..N
  <2>1. 1 \in 1..N
    BY HalvesAre
  <2> QED BY <2>1, HalvesAre, Round
<1>2. F = E(F)
  <2> DEFINE g == [p \in Pairs \X (1..N) |-> step(p[1], Halves[p[2]])]
  <2>1. \A z \in Pairs : \A s : step(z, s) \in Pairs
    <3> SUFFICES ASSUME NEW z \in Pairs, NEW s PROVE step(z, s) \in Pairs
      OBVIOUS
    <3> DEFINE r == amount(z.x, s)
    <3>1. z.x \in Word
      OBVIOUS
    <3>2. Unsigned(r) \in Nat /\ Unsigned(z.c) + Unsigned(r) \in Int
      BY WordNumber
    <3> HIDE DEF r
    <3>3. Add(z.c, r) \in Word
      BY <3>2, WordNumbers DEF Add
    <3>4. Sar(z.x, Unsigned(r)) \in Word
      BY <3>1, <3>2, SarTwice
    <3>5. step(z, s) = [c |-> Add(z.c, r), x |-> Sar(z.x, Unsigned(r))]
      BY DEF r
    <3> QED BY <3>3, <3>4, <3>5
  <2>2. base \in Pairs
    BY ZeroOne
  <2> HIDE DEF step, base, Pairs
  <2>3. g \in [Pairs \X (1..N) -> Pairs]
    BY <2>1
  <2>4. \A z \in Pairs : \A i \in 1..N : g[<<z, i>>] = step(z, Halves[i])
    OBVIOUS
  <2> HIDE DEF g
  <2>5. PICK f : FoldsUpTo(f, Pairs, base, N, g)
    BY <1>1, <2>2, <2>3, FoldExists
  <2>6. ASSUME NEW s \in SUBSET (1..N), s # {} PROVE f[s] = step(f[s \ {Max(s)}], Halves[Max(s)])
    <3>1. s \ {Max(s)} \in SUBSET (1..N) /\ Max(s) \in 1..N
      BY <1>1, <2>6, MaxIn
    <3>2. f[s \ {Max(s)}] \in Pairs
      BY <2>5, <3>1 DEF FoldsUpTo
    <3> QED BY <2>4, <2>5, <2>6, <3>1, <3>2 DEF FoldsUpTo
  <2>7. f = E(f)
    <3>1. f = [s \in SUBSET (1..N) |-> f[s]]
      BY <2>5 DEF FoldsUpTo
    <3>2. \A s \in SUBSET (1..N) : f[s] = IF s = {} THEN base ELSE LET i == Max(s) IN step(f[s \ {i}], Halves[i])
      BY <2>5, <2>6 DEF FoldsUpTo
    <3> QED BY <3>1, <3>2
  <2> HIDE DEF E
  <2> QED BY <2>7, Zenon
<1>3. ilog2(x) = F[1..N].c
  BY <1>1, Zenon DEF ilog2, FoldLeft, MapThenFoldSet
<1> HIDE DEF F
<1>4. q(0) = base
  <2>1. 1..0 = {} /\ 1..0 \in SUBSET (1..N)
    OBVIOUS
  <2> HIDE DEF base, step
  <2> QED BY <1>2, <2>1
<1>5. ASSUME NEW j \in 0..N - 1 PROVE q(j + 1) = step(q(j), Halves[j + 1])
  <2>1. j + 1 \in Nat \ {0} /\ (j + 1) - 1 = j /\ 1..j + 1 \in SUBSET (1..N)
    BY <1>1
  <2>2. Max(1..j + 1) = j + 1 /\ (1..j + 1) \ {j + 1} = 1..j /\ 1..j + 1 # {}
    BY <2>1, MaxUpTo
  <2> HIDE DEF base, step
  <2> QED BY <1>2, <2>1, <2>2
<1> HIDE DEF q
\* The highest bit is among the t bits from bit c on.
<1> DEFINE Found(z, t) == \E c \in 0..W - t : /\ z = [c |-> Bin(c), x |-> Sar(x, c)]
                                               /\ c <= Highest(x) /\ Highest(x) < c + t
           A == {j \in 0..N : Found(q(j), 2^(N - j))}
<1>6. Highest(x) \in 0..W - 1
  BY HighestIs
<1>7. 0 \in A
  <2>1. 2^(N - 0) = W /\ 0 \in 0..N /\ 0 \in 0..W - W
    BY <1>1, HalvesAre
  <2>2. q(0) = [c |-> Bin(0), x |-> Sar(x, 0)]
    BY <1>4, SarTwice DEF Zero
  <2>3. 0 <= Highest(x) /\ Highest(x) < 0 + W
    BY <1>6
  <2>4. Found(q(0), W)
    BY <2>1, <2>2, <2>3
  <2> HIDE DEF Found
  <2> QED BY <2>1, <2>4
<1>8. ASSUME NEW j \in 0..N - 1, j \in A PROVE j + 1 \in A
  <2> DEFINE s == Halves[j + 1]
             t == 2 * s
  <2>1. j + 1 \in 1..N /\ (j + 1) - 1 = j /\ j + 1 \in 0..N
    BY <1>1
  <2>2. s = 2^(N - (j + 1)) /\ s \in 1..W - 1 /\ 2^(N - j) = t /\ t \in 1..W
    BY <2>1, Round
  <2>3. PICK c \in 0..W - t : /\ q(j) = [c |-> Bin(c), x |-> Sar(x, c)]
                              /\ c <= Highest(x) /\ Highest(x) < c + t
    BY <1>8, <2>2
  <2>4. q(j + 1) = step(q(j), s)
    BY <1>5
  <2> HIDE DEF s
  <2>5. s \in Nat /\ c \in Nat /\ c + s \in 0..W - 1 /\ c + s \in 0..W - s /\ c \in 0..W - s /\ s \in 0..W
    BY <2>2
  <2> DEFINE y == Sar(q(j).x, s)
             n == IF y = Zero THEN 0 ELSE s
  <2>6. y = Sar(x, c + s) /\ y \in Word
    <3>1. q(j).x = Sar(x, c) /\ Sar(x, c) \in Word
      BY <2>3, <2>5, SarTwice
    <3>2. Sar(Sar(x, c), s) = Sar(x, c + s) /\ Sar(Sar(x, c), s) \in Word
      BY <2>5, <3>1, SarTwice
    <3> QED BY <3>1, <3>2
  <2>7. y = Zero <=> Highest(x) < c + s
    BY <2>5, <2>6, SarZero
  <2>8. step(q(j), s) = [c |-> Add(q(j).c, Bin(n)), x |-> Sar(q(j).x, n)]
    <3>1. amount(q(j).x, s) = Bin(n) /\ Unsigned(amount(q(j).x, s)) = n
      <4> HIDE DEF y
      <4>1. LET r == And(Add(LNot(y), Not(Zero)), Bin(s)) IN r = Bin(n) /\ Unsigned(r) = n
        BY <2>5, <2>6, Amount
      <4> QED BY <4>1 DEF y
    <3>2. step(q(j), s) = [c |-> Add(q(j).c, amount(q(j).x, s)), x |-> Sar(q(j).x, Unsigned(amount(q(j).x, s)))]
      OBVIOUS
    <3> HIDE DEF step, amount, n
    <3> QED BY <3>1, <3>2
  <2>9. n \in Nat
    BY <2>5
  <2>10. step(q(j), s) = [c |-> Bin(c + n), x |-> Sar(x, c + n)]
    <3> HIDE DEF step, n
    <3>1. Add(Bin(c), Bin(n)) = Bin(c + n)
      <4>1. c \in Int /\ n \in Int
        BY <2>5, <2>9
      <4> QED BY <4>1, AddNumbers
    <3>2. Sar(Sar(x, c), n) = Sar(x, c + n)
      BY <2>5, <2>9, SarTwice
    <3>3. q(j).c = Bin(c) /\ q(j).x = Sar(x, c)
      BY <2>3
    <3> QED BY <2>8, <3>1, <3>2, <3>3
  <2> HIDE DEF step, y
  <2>11. c + n \in 0..W - s /\ c + n <= Highest(x) /\ Highest(x) < (c + n) + s
    <3>1. CASE y = Zero
      BY <1>6, <2>3, <2>5, <2>7, <3>1
    <3>2. CASE y # Zero
      BY <1>6, <2>3, <2>5, <2>7, <3>2
    <3> QED BY <3>1, <3>2
  <2> HIDE DEF n
  <2>12. Found(q(j + 1), s)
    BY <2>4, <2>10, <2>11
  <2> HIDE DEF Found
  <2> QED BY <2>1, <2>2, <2>12
<1>9. N \in A
  <2>1. N \in Nat
    BY <1>1
  <2> HIDE DEF A, N
  <2>2. 0..N \subseteq A
    BY <1>7, <1>8, <2>1, Upwards
  <2> QED BY <2>1, <2>2
<1>10. q(N).c = Bin(Highest(x))
  <2>1. N - N = 0 /\ 2^0 = 1
    BY <1>1, Twice
  <2>2. Found(q(N), 1)
    <3> HIDE DEF Found, N
    <3> QED BY <1>9, <2>1
  <2>3. PICK c \in 0..W - 1 : /\ q(N) = [c |-> Bin(c), x |-> Sar(x, c)]
                              /\ c <= Highest(x) /\ Highest(x) < c + 1
    BY <2>2
  <2>4. c = Highest(x)
    BY <1>6, <2>3
  <2> HIDE DEF N
  <2> QED BY <2>3, <2>4
<1> QED BY <1>3, <1>10 DEF test_ilog2, Highest, q

-----------------------------------------------------------------------------
(***************************************************************************)
(* Floats as numbers.                                                      *)
(***************************************************************************)

\* The numbers of fractions and of exponents.
FracSize == 2^FRAC
ExpSize == 2^EXP

LEMMA FloatSizes ==
    /\ EXP \in 2..W - 3 /\ FRAC \in 2..W - 3 /\ FRAC + EXP = W - 1
    /\ FracSize \in Nat \ {0} /\ ExpSize \in Nat \ {0} /\ HalfSize = FracSize * ExpSize
    /\ \E h \in Nat \ {0} : FracSize = 2 * h
    /\ Bias \in Nat \ {0} /\ ExpSize = 2 * Bias + 2 /\ W <= Bias + 1
    /\ Infinity = (ExpSize - 1) * FracSize
<1>1. EXP \in 2..W - 3 /\ FRAC \in 2..W - 3 /\ FRAC + EXP = W - 1 /\ W <= 2^(EXP - 1)
  BY ExpAssumption DEF FRAC
<1>2. EXP - 1 \in 0..W - 1 /\ EXP \in 0..W /\ FRAC - 1 \in 0..W - 1 /\ FRAC \in 0..W
      /\ (EXP - 1) + 1 = EXP /\ (FRAC - 1) + 1 = FRAC /\ EXP - 1 \in 0..W /\ FRAC - 1 \in 0..W
      /\ EXP \in 0..W - FRAC
  BY <1>1
<1>3. 2^EXP = 2 * 2^(EXP - 1) /\ 2^FRAC = 2 * 2^(FRAC - 1)
  BY <1>2, Twice
<1>4. 2^(EXP - 1) \in Nat \ {0} /\ 2^(FRAC - 1) \in Nat \ {0} /\ 2^EXP \in Nat \ {0} /\ 2^FRAC \in Nat \ {0}
  BY <1>2, Twice
<1>5. 2^(FRAC + EXP) = 2^FRAC * 2^EXP
  BY <1>2, PowerSum
<1>6. HalfSize = FracSize * ExpSize
  BY <1>1, <1>5 DEF HalfSize, FracSize, ExpSize
<1>7. Bias \in Nat \ {0} /\ ExpSize = 2 * Bias + 2 /\ W <= Bias + 1
  BY <1>1, <1>3, <1>4 DEF Bias, ExpSize
<1>8. \E h \in Nat \ {0} : FracSize = 2 * h
  BY <1>3, <1>4 DEF FracSize
<1>9. Infinity = (ExpSize - 1) * FracSize
  BY DEF Infinity, ExpSize, FracSize
<1> QED BY <1>1, <1>4, <1>6, <1>7, <1>8, <1>9 DEF FracSize, ExpSize

\* There are powers of two.
LEMMA PowersUpTo == \A n \in Nat : \E f \in [0..n -> Nat \ {0}] : f[0] = 1 /\ \A k \in 0..n - 1 : f[k + 1] = 2 * f[k]
<1> DEFINE P(f, n) == f[0] = 1 /\ \A k \in 0..n - 1 : f[k + 1] = 2 * f[k]
           A == {n \in Nat : \E f \in [0..n -> Nat \ {0}] : P(f, n)}
<1>1. 0 \in A
  <2> DEFINE f == [k \in 0..0 |-> 1]
  <2>1. f \in [0..0 -> Nat \ {0}] /\ P(f, 0)
    OBVIOUS
  <2> QED BY <2>1
<1>2. ASSUME NEW n \in A PROVE n + 1 \in A
  <2>1. PICK f \in [0..n -> Nat \ {0}] : P(f, n)
    BY <1>2
  <2> DEFINE g == [k \in 0..n + 1 |-> IF k = n + 1 THEN 2 * f[n] ELSE f[k]]
  <2>2. n \in Nat /\ n \in 0..n
    BY <1>2
  <2>3. \A k \in 0..n : k \in 0..n + 1 /\ k # n + 1
    BY <2>2
  <2>4. f[n] \in Nat \ {0} /\ 2 * f[n] \in Nat \ {0}
    BY <2>2
  <2>5. g \in [0..n + 1 -> Nat \ {0}]
    BY <2>2, <2>4
  <2>6. \A k \in 0..n : g[k] = f[k]
    BY <2>2, <2>3
  <2>7. g[n + 1] = 2 * f[n]
    BY <2>2
  <2> HIDE DEF g
  <2>8. ASSUME NEW k \in 0..(n + 1) - 1 PROVE g[k + 1] = 2 * g[k]
    <3>1. CASE k = n
      BY <2>2, <2>6, <2>7, <3>1
    <3>2. CASE k # n
      <4>1. k \in 0..n - 1 /\ k \in 0..n /\ k + 1 \in 0..n
        BY <2>2, <3>2
      <4> QED BY <2>1, <2>6, <4>1
    <3> QED BY <3>1, <3>2
  <2>9. P(g, n + 1)
    <3>1. g[0] = 1
      BY <2>1, <2>2, <2>6
    <3> QED BY <2>8, <3>1
  <2> HIDE DEF P
  <2> QED BY <2>2, <2>5, <2>9
<1>3. A \in SUBSET Nat
  OBVIOUS
<1> HIDE DEF A
<1>4. A = Nat
  BY <1>1, <1>2, <1>3, AllNumbers
<1> QED BY <1>4 DEF A

LEMMA PowerIs == /\ \A n \in Nat : Power[n] \in Nat \ {0}
                 /\ Power[0] = 1 /\ \A n \in Nat : Power[n + 1] = 2 * Power[n]
<1> DEFINE P(f, n) == f \in [0..n -> Nat \ {0}] /\ f[0] = 1 /\ \A k \in 0..n - 1 : f[k + 1] = 2 * f[k]
           G(n) == CHOOSE f : P(f, n)
           H == [n \in Nat |-> G(n)[n]]
           E(f) == [n \in Nat |-> IF n = 0 THEN 1 ELSE 2 * f[n - 1]]
<1>1. \A n \in Nat : P(G(n), n)
  <2> SUFFICES ASSUME NEW n \in Nat PROVE P(G(n), n)
    OBVIOUS
  <2>1. \E f : P(f, n)
    BY PowersUpTo
  <2> HIDE DEF P
  <2> QED BY <2>1
<1> HIDE DEF G
<1>2. ASSUME NEW n \in Nat PROVE G(n + 1)[n + 1] = 2 * G(n)[n]
  <2> DEFINE f == G(n)
             g == G(n + 1)
             A == {k \in 0..n : f[k] = g[k]}
  <2>1. P(f, n) /\ P(g, n + 1)
    <3> HIDE DEF P
    <3> QED BY <1>1
  <2> HIDE DEF f, g
  <2>2. 0 \in A
    BY <2>1
  <2>3. ASSUME NEW k \in 0..n - 1, k \in A PROVE k + 1 \in A
    <3>1. k \in 0..(n + 1) - 1 /\ k + 1 \in 0..n
      OBVIOUS
    <3>2. f[k + 1] = 2 * f[k] /\ g[k + 1] = 2 * g[k] /\ f[k] = g[k]
      BY <2>1, <2>3, <3>1
    <3> QED BY <3>1, <3>2
  <2>4. 0..n \subseteq A
    <3> HIDE DEF A
    <3> QED BY <2>2, <2>3, Upwards
  <2>5. f[n] = g[n]
    BY <2>4
  <2>6. g[n + 1] = 2 * g[n]
    <3>1. n \in 0..(n + 1) - 1
      OBVIOUS
    <3> QED BY <2>1, <3>1
  <2> QED BY <2>5, <2>6 DEF f, g
<1>3. \A n \in Nat : H[n] \in Nat \ {0}
  <2> SUFFICES ASSUME NEW n \in Nat PROVE G(n)[n] \in Nat \ {0}
    OBVIOUS
  <2>1. P(G(n), n) /\ n \in 0..n
    BY <1>1
  <2> QED BY <2>1
<1>4. H[0] = 1
  <2>1. P(G(0), 0)
    BY <1>1
  <2> QED BY <2>1
<1>5. \A n \in Nat : H[n + 1] = 2 * H[n]
  <2> HIDE DEF P
  <2> QED BY <1>2
<1>6. H = E(H)
  <2>1. \A n \in Nat : H[n] = IF n = 0 THEN 1 ELSE 2 * H[n - 1]
    <3> SUFFICES ASSUME NEW n \in Nat, n # 0 PROVE H[n] = 2 * H[n - 1]
      BY <1>4
    <3>1. n - 1 \in Nat /\ (n - 1) + 1 = n
      OBVIOUS
    <3> HIDE DEF H
    <3> QED BY <1>5, <3>1
  <2>2. H = [n \in Nat |-> H[n]]
    OBVIOUS
  <2> HIDE DEF H
  <2> QED BY <2>1, <2>2
<1>7. Power = CHOOSE f : f = E(f)
  BY Zenon DEF Power
<1>8. Power = E(Power)
  <2> HIDE DEF E, H
  <2> QED BY <1>6, <1>7, Zenon
<1>9. Power[0] = 1 /\ \A n \in Nat : Power[n + 1] = 2 * Power[n]
  <2>1. Power[0] = 1
    BY <1>8
  <2>2. ASSUME NEW n \in Nat PROVE Power[n + 1] = 2 * Power[n]
    <3>1. n + 1 \in Nat /\ n + 1 # 0 /\ (n + 1) - 1 = n
      OBVIOUS
    <3> QED BY <1>8, <3>1
  <2> QED BY <2>1, <2>2
<1> DEFINE B == {n \in Nat : Power[n] \in Nat \ {0}}
<1>10. B = Nat
  <2>1. 0 \in B
    BY <1>9
  <2>2. ASSUME NEW n \in B PROVE n + 1 \in B
    <3>1. n \in Nat /\ Power[n] \in Nat \ {0} /\ Power[n + 1] = 2 * Power[n]
      BY <1>9, <2>2
    <3> QED BY <3>1
  <2>3. B \in SUBSET Nat
    OBVIOUS
  <2> HIDE DEF B
  <2> QED BY <2>1, <2>2, <2>3, AllNumbers
<1> QED BY <1>9, <1>10

\* These powers and those of a word.
LEMMA PowerAdds == ASSUME NEW n \in Nat PROVE \A j \in 0..W : Power[n + j] = 2^j * Power[n]
<1> DEFINE A == {j \in 0..W : Power[n + j] = 2^j * Power[n]}
<1>1. 0 \in A
  <2>1. n + 0 = n /\ Power[n] \in Nat
    BY PowerIs
  <2> QED BY <2>1, Twice
<1>2. ASSUME NEW j \in 0..W - 1, j \in A PROVE j + 1 \in A
  <2>1. n + j \in Nat /\ n + (j + 1) = (n + j) + 1 /\ j + 1 \in 0..W /\ j \in 0..W
    OBVIOUS
  <2>2. Power[n + (j + 1)] = 2 * Power[n + j]
    BY <2>1, PowerIs
  <2>3. Power[n + j] = 2^j * Power[n] /\ 2^j \in Nat /\ Power[n] \in Nat
    BY <1>2, <2>1, PowerIs, Twice
  <2>4. 2^(j + 1) = 2 * 2^j
    BY Twice
  <2>5. \A a, b \in Nat : 2 * (a * b) = (2 * a) * b
    OBVIOUS
  <2>6. Power[n + (j + 1)] = 2^(j + 1) * Power[n]
    BY <2>2, <2>3, <2>4, <2>5
  <2> QED BY <2>1, <2>6
<1>3. 0..W \subseteq A
  <2> HIDE DEF A
  <2> QED BY <1>1, <1>2, Bitwards
<1> QED BY <1>3

\* The number of a float whose exponent is e and whose fraction is f; in the
\* other form, its significand t is a number in the units of its exponent.
LEMMA MagnitudeIs ==
    ASSUME NEW e \in Nat, NEW f \in 0..FracSize - 1
    PROVE  Magnitude(FracSize * e + f) = IF e = 0 THEN f ELSE (FracSize + f) * Power[e - 1]
<1> DEFINE c == FracSize * e + f
<1>1. FracSize \in Nat \ {0}
  BY FloatSizes
<1>2. c \in Int
  <2>1. FracSize * e \in Int
    BY <1>1
  <2> QED BY <2>1
<1>3. c \div FracSize = e /\ c % FracSize = f
  <2> HIDE DEF FracSize
  <2>1. e \in Int
    OBVIOUS
  <2> HIDE DEF c
  <2>2. c = FracSize * e + f
    BY DEF c
  <2> QED BY <1>1, <1>2, <2>1, <2>2, Quotient
<1>4. Magnitude(c) = IF c \div FracSize = 0 THEN c % FracSize
                     ELSE (FracSize + (c % FracSize)) * Power[(c \div FracSize) - 1]
  BY Zenon DEF Magnitude, FracSize
<1> HIDE DEF c, FracSize
<1> QED BY <1>3, <1>4 DEF c

\* Floats are ordered as their codes are.
LEMMA MagnitudeUp == ASSUME NEW c \in Nat
                     PROVE  Magnitude(c) \in Nat /\ Magnitude(c) < Magnitude(c + 1)
<1>1. FracSize \in Nat \ {0} /\ c \in Int
  BY FloatSizes
<1> HIDE DEF FracSize
<1> DEFINE e == c \div FracSize
           f == c % FracSize
<1>2. e \in Int /\ f \in 0..FracSize - 1 /\ c = FracSize * e + f
  BY <1>1, Divide
<1> HIDE DEF e, f
<1>3. e \in Nat
  <2>1. SUFFICES ASSUME e <= -1 PROVE FALSE
    BY <1>2
  <2>2. FracSize * e <= -FracSize
    BY <1>1, <1>2, <2>1
  <2> QED BY <1>1, <1>2, <2>2
<1>4. Magnitude(c) = IF e = 0 THEN f ELSE (FracSize + f) * Power[e - 1]
  BY <1>2, <1>3, MagnitudeIs
<1>5. e # 0 => e - 1 \in Nat /\ Power[e - 1] \in Nat \ {0} /\ Power[e] = 2 * Power[e - 1]
  <2> SUFFICES ASSUME e # 0 PROVE e - 1 \in Nat /\ Power[e - 1] \in Nat \ {0} /\ Power[e] = 2 * Power[e - 1]
    OBVIOUS
  <2>1. e - 1 \in Nat /\ (e - 1) + 1 = e
    BY <1>3
  <2>2. Power[(e - 1) + 1] = 2 * Power[e - 1] /\ Power[e - 1] \in Nat \ {0}
    BY <2>1, PowerIs
  <2> QED BY <2>1, <2>2
<1>6. Magnitude(c) \in Nat
  <2>1. CASE e = 0
    BY <1>1, <1>2, <1>4, <2>1
  <2>2. CASE e # 0
    <3>1. FracSize + f \in Nat /\ Power[e - 1] \in Nat
      BY <1>1, <1>2, <1>5, <2>2
    <3>2. \A a, b \in Nat : a * b \in Nat
      OBVIOUS
    <3> QED BY <1>4, <2>2, <3>1, <3>2
  <2> QED BY <2>1, <2>2
<1>7. CASE f # FracSize - 1
  <2>1. f + 1 \in 0..FracSize - 1 /\ c + 1 = FracSize * e + (f + 1)
    <3>1. FracSize * e \in Int
      BY <1>1, <1>2
    <3> QED BY <1>1, <1>2, <1>7, <3>1
  <2>2. Magnitude(c + 1) = IF e = 0 THEN f + 1 ELSE (FracSize + (f + 1)) * Power[e - 1]
    BY <1>3, <2>1, MagnitudeIs
  <2>3. CASE e = 0
    BY <1>2, <1>4, <1>6, <2>2, <2>3
  <2>4. CASE e # 0
    <3>1. \A a \in Nat, p \in Nat \ {0} : a * p < (a + 1) * p
      OBVIOUS
    <3>2. FracSize + f \in Nat /\ FracSize + (f + 1) = (FracSize + f) + 1
      BY <1>1, <1>2
    <3>3. (FracSize + f) * Power[e - 1] < ((FracSize + f) + 1) * Power[e - 1]
      BY <1>5, <2>4, <3>1, <3>2
    <3> QED BY <1>4, <1>6, <2>2, <2>4, <3>2, <3>3
  <2> QED BY <2>3, <2>4
<1>8. CASE f = FracSize - 1
  <2>1. 0 \in 0..FracSize - 1 /\ e + 1 \in Nat /\ e + 1 # 0 /\ (e + 1) - 1 = e
        /\ c + 1 = FracSize * (e + 1) + 0
    <3>1. FracSize * (e + 1) = FracSize * e + FracSize /\ FracSize * e \in Int
      BY <1>1, <1>3
    <3> QED BY <1>1, <1>2, <1>3, <1>8, <3>1
  <2>2. Magnitude(c + 1) = (FracSize + 0) * Power[e]
    BY <2>1, MagnitudeIs
  <2>3. FracSize + 0 = FracSize
    BY <1>1
  <2>4. CASE e = 0
    <3>1. Power[e] = 1 /\ FracSize * 1 = FracSize
      BY <1>1, <2>4, PowerIs
    <3> QED BY <1>1, <1>4, <1>6, <1>8, <2>2, <2>3, <2>4, <3>1
  <2>5. CASE e # 0
    <3>1. \A a \in Nat \ {0}, p \in Nat \ {0} : (a + (a - 1)) * p < a * (2 * p)
      <4> TAKE a \in Nat \ {0}, p \in Nat \ {0}
      <4>1. (a + (a - 1)) * p = a * (2 * p) - p /\ a * (2 * p) \in Int
        OBVIOUS
      <4> QED BY <4>1
    <3>2. (FracSize + (FracSize - 1)) * Power[e - 1] < FracSize * (2 * Power[e - 1])
      BY <1>1, <1>5, <2>5, <3>1
    <3> QED BY <1>4, <1>5, <1>6, <1>8, <2>2, <2>3, <2>5, <3>2
  <2> QED BY <2>4, <2>5
<1> QED BY <1>6, <1>7, <1>8

LEMMA MagnitudeOrder == ASSUME NEW c \in Nat, NEW d \in Nat, c < d PROVE Magnitude(c) < Magnitude(d)
<1> DEFINE A == {n \in 0..d - c - 1 : Magnitude(c) < Magnitude((c + 1) + n)}
<1>1. 0 \in A
  <2>1. (c + 1) + 0 = c + 1 /\ 0 \in 0..d - c - 1
    OBVIOUS
  <2> QED BY <2>1, MagnitudeUp
<1>2. ASSUME NEW n \in 0..(d - c - 1) - 1, n \in A PROVE n + 1 \in A
  <2>1. (c + 1) + n \in Nat /\ ((c + 1) + n) + 1 = (c + 1) + (n + 1) /\ n + 1 \in 0..d - c - 1 /\ (c + 1) + (n + 1) \in Nat
    OBVIOUS
  <2>2. Magnitude((c + 1) + n) < Magnitude((c + 1) + (n + 1)) /\ Magnitude(c) \in Nat
        /\ Magnitude((c + 1) + n) \in Nat /\ Magnitude((c + 1) + (n + 1)) \in Nat
    BY <2>1, MagnitudeUp
  <2> QED BY <1>2, <2>1, <2>2
<1>3. d - c - 1 \in A
  <2>1. d - c - 1 \in Nat
    OBVIOUS
  <2> HIDE DEF A
  <2> QED BY <1>1, <1>2, <2>1, Upwards
<1>4. (c + 1) + (d - c - 1) = d
  OBVIOUS
<1> QED BY <1>3, <1>4

\* A number that lies between two floats is rounded to one of them.
LEMMA NearestIs ==
    ASSUME NEW c \in 0..Infinity - 1, NEW m \in Nat, Magnitude(c) <= m, m < Magnitude(c + 1)
    PROVE  Nearest(m) = IF \/ m - Magnitude(c) < Magnitude(c + 1) - m
                           \/ m - Magnitude(c) = Magnitude(c + 1) - m /\ c % 2 = 0
                        THEN c ELSE c + 1
<1>1. Infinity \in Nat
  <2>1. ExpSize - 1 \in Nat /\ FracSize \in Nat /\ Infinity = (ExpSize - 1) * FracSize
    BY FloatSizes
  <2>2. \A a, b \in Nat : a * b \in Nat
    OBVIOUS
  <2> QED BY <2>1, <2>2
<1> DEFINE P(k) == Magnitude(k) <= m /\ m < Magnitude(k + 1)
           lo == CHOOSE k \in 0..Infinity - 1 : P(k)
<1>2. lo \in 0..Infinity - 1 /\ P(lo)
  <2>1. \E k \in 0..Infinity - 1 : P(k)
    OBVIOUS
  <2> HIDE DEF P
  <2> QED BY <2>1
<1>3. lo = c
  <2> HIDE DEF lo
  <2>1. lo \in Nat /\ c \in Nat /\ lo + 1 \in Nat /\ c + 1 \in Nat
    BY <1>1, <1>2
  <2>2. \A k \in Nat : Magnitude(k) \in Nat
    BY MagnitudeUp
  <2>3. ASSUME lo < c PROVE FALSE
    <3>1. Magnitude(lo + 1) <= Magnitude(c)
      <4>1. CASE lo + 1 = c
        BY <2>1, <2>2, <4>1
      <4>2. CASE lo + 1 # c
        <5>1. lo + 1 < c
          BY <2>1, <2>3, <4>2
        <5> QED BY <2>1, <2>2, <5>1, MagnitudeOrder
      <4> QED BY <4>1, <4>2
    <3> QED BY <1>2, <2>1, <2>2, <3>1
  <2>4. ASSUME c < lo PROVE FALSE
    <3>1. Magnitude(c + 1) <= Magnitude(lo)
      <4>1. CASE c + 1 = lo
        BY <2>1, <2>2, <4>1
      <4>2. CASE c + 1 # lo
        <5>1. c + 1 < lo
          BY <2>1, <2>4, <4>2
        <5> QED BY <2>1, <2>2, <5>1, MagnitudeOrder
      <4> QED BY <4>1, <4>2
    <3> QED BY <1>2, <2>1, <2>2, <3>1
  <2> QED BY <2>1, <2>3, <2>4
<1>4. ~(m >= Magnitude(Infinity))
  <2>1. c \in Nat /\ c + 1 \in Nat /\ \A k \in Nat : Magnitude(k) \in Nat
    BY <1>1, MagnitudeUp
  <2>2. Magnitude(c + 1) <= Magnitude(Infinity)
    <3>1. CASE c + 1 = Infinity
      BY <1>1, <2>1, <3>1
    <3>2. CASE c + 1 # Infinity
      <4>1. c + 1 < Infinity
        BY <1>1, <3>2
      <4> QED BY <1>1, <2>1, <4>1, MagnitudeOrder
    <3> QED BY <3>1, <3>2
  <2> QED BY <1>1, <2>1, <2>2
<1>5. Nearest(m) = IF m >= Magnitude(Infinity) THEN Infinity
                   ELSE IF \/ m - Magnitude(lo) < Magnitude(lo + 1) - m
                           \/ m - Magnitude(lo) = Magnitude(lo + 1) - m /\ lo % 2 = 0
                        THEN lo ELSE lo + 1
  BY Zenon DEF Nearest
<1> HIDE DEF lo
<1> QED BY <1>3, <1>4, <1>5

LEMMA NearestSame == ASSUME NEW c \in 0..Infinity - 1 PROVE Nearest(Magnitude(c)) = c
<1>1. c \in Nat /\ c + 1 \in Nat
  OBVIOUS
<1>2. Magnitude(c) \in Nat /\ Magnitude(c) < Magnitude(c + 1) /\ Magnitude(c + 1) \in Nat
  BY <1>1, MagnitudeUp
<1>3. Magnitude(c) <= Magnitude(c) /\ Magnitude(c) - Magnitude(c) < Magnitude(c + 1) - Magnitude(c)
  BY <1>2
<1> QED BY <1>2, <1>3, NearestIs

-----------------------------------------------------------------------------
(***************************************************************************)
(* The parts of a float.                                                   *)
(***************************************************************************)

LEMMA SignIs == SignMask = [k \in BitNos |-> k = W - 1]
<1>1. \A k \in BitNos : (k >= W - 1 /\ One[k - (W - 1)]) <=> k = W - 1
  <2> SUFFICES ASSUME NEW k \in BitNos PROVE (k >= W - 1 /\ One[k - (W - 1)]) <=> k = W - 1
    OBVIOUS
  <2>1. CASE k = W - 1
    <3>1. k - (W - 1) = 0 /\ 0 \in BitNos
      BY <2>1 DEF BitNos
    <3>2. One[0]
      BY <3>1, ZeroOne
    <3> QED BY <2>1, <3>1, <3>2
  <2>2. CASE k # W - 1
    BY <2>2 DEF BitNos
  <2> QED BY <2>1, <2>2
<1> DEFINE s == [k \in BitNos |-> k >= W - 1 /\ One[k - (W - 1)]]
<1>2. SignMask = s
  BY DEF SignMask, Shl, BitNos
<1>3. \A k \in BitNos : s[k] = (k = W - 1)
  BY <1>1
<1> QED BY <1>2, <1>3

\* A float is its sign and the number of its other bits.
LEMMA FloatIs ==
    ASSUME NEW x \in Word
    PROVE  /\ Code(x) = Low(x)[W - 1] /\ Code(x) \in 0..HalfSize - 1
           /\ Unsigned(x) = Code(x) + (IF x[W - 1] THEN HalfSize ELSE 0)
           /\ x = Float(x[W - 1], Code(x))
<1> DEFINE y == And(x, Not(SignMask))
<1>1. W - 1 \in 0..W - 1 /\ W - 1 \in 0..W /\ W \in (W - 1)..W /\ (W - 1) + 1 = W
  OBVIOUS
<1>2. \A k \in BitNos : y[k] <=> x[k] /\ k # W - 1
  BY SignIs DEF And, Not, BitNos
<1>3. Low(y)[W] = Low(y)[W - 1]
  <2>1. \A k \in W - 1..W - 1 : ~y[k]
    BY <1>2 DEF BitNos
  <2> HIDE DEF y
  <2> QED BY <1>1, <2>1, LowRest
<1>4. Low(y)[W - 1] = Low(x)[W - 1]
  <2>1. \A k \in 0..(W - 1) - 1 : y[k] <=> x[k]
    BY <1>2 DEF BitNos
  <2> HIDE DEF y
  <2> QED BY <1>1, <2>1, LowSame
<1>5. Code(x) = Low(x)[W - 1]
  <2>1. Code(x) = Low(y)[W]
    BY LowIs DEF Code
  <2> QED BY <1>3, <1>4, <2>1
<1>6. Low(x)[W - 1] \in Nat /\ Low(x)[W - 1] < HalfSize
  BY <1>1, LowBound DEF HalfSize
<1>7. Unsigned(x) = Low(x)[W - 1] + (IF x[W - 1] THEN HalfSize ELSE 0)
  <2>1. Unsigned(x) = Low(x)[(W - 1) + 1] /\ Low(x)[(W - 1) + 1] = Low(x)[W - 1] + Bit(x, W - 1)
    BY <1>1, LowIs
  <2> QED BY <2>1 DEF Bit, HalfSize
<1>8. x = Float(x[W - 1], Code(x))
  <2>1. Bin(Unsigned(x)) = x
    BY WordNumbers
  <2>2. Float(x[W - 1], Code(x)) = Bin(Code(x) + (IF x[W - 1] THEN HalfSize ELSE 0))
    BY DEF Float, HalfSize
  <2> QED BY <1>5, <1>7, <2>1, <2>2
<1> QED BY <1>5, <1>6, <1>7, <1>8, Sizes

\* A word with the bits of a float but for the sign.
LEMMA FloatWith ==
    ASSUME NEW x \in Word, NEW y \in Word, \A k \in 0..W - 2 : x[k] <=> y[k]
    PROVE  x = Float(x[W - 1], Code(y))
<1>1. Low(x)[W - 1] = Low(y)[W - 1]
  <2>1. W - 1 \in 0..W /\ (W - 1) - 1 = W - 2
    OBVIOUS
  <2> QED BY <2>1, LowSame
<1> QED BY <1>1, FloatIs

\* The number of a code is a word without a sign.
LEMMA CodeWord == ASSUME NEW c \in 0..HalfSize - 1
                  PROVE  /\ Bin(c) \in Word /\ Unsigned(Bin(c)) = c /\ Code(Bin(c)) = c
                         /\ Bin(c)[W - 1] = FALSE
<1>1. c \in Int /\ c \in Ints /\ ~(c < 0) /\ Bin(c) \in Word
  <2>1. c \in Int
    BY Sizes
  <2> QED BY <2>1, Sizes, WordNumbers DEF Ints
<1>2. Signed(Bin(c)) = c /\ Bin(c)[W - 1] = FALSE
  <2>1. Signed(Bin(c)) = c /\ (Bin(c)[W - 1] <=> c < 0)
    BY <1>1, SignedBin
  <2>2. Bin(c)[W - 1] \in BOOLEAN
    <3>1. W - 1 \in 0..W - 1
      OBVIOUS
    <3> QED BY <1>1, <3>1 DEF Word
  <2> QED BY <1>1, <2>1, <2>2
<1>3. Unsigned(Bin(c)) = c
  BY <1>1, <1>2, SignedIs
<1>4. Code(Bin(c)) = c
  <2>1. Unsigned(Bin(c)) = Code(Bin(c)) + (IF Bin(c)[W - 1] THEN HalfSize ELSE 0) /\ Code(Bin(c)) \in Nat
    BY <1>1, FloatIs, Sizes
  <2> QED BY <1>2, <1>3, <2>1
<1> QED BY <1>1, <1>2, <1>3, <1>4

\* The sign of a float, put before a number that leaves it room.
SignBit(neg) == IF neg THEN SignMask ELSE Zero

LEMMA SignPut ==
    ASSUME NEW neg \in BOOLEAN, NEW c \in 0..HalfSize - 1
    PROVE  Or(SignBit(neg), Bin(c)) = Float(neg, c)
<1> DEFINE x == Or(SignBit(neg), Bin(c))
<1>1. Bin(c) \in Word /\ Code(Bin(c)) = c /\ Bin(c)[W - 1] = FALSE
  BY CodeWord
<1>2. \A k \in BitNos : SignBit(neg)[k] <=> neg /\ k = W - 1
  <2>1. CASE neg
    BY <2>1, SignIs DEF SignBit
  <2>2. CASE ~neg
    BY <2>2, ZeroOne DEF SignBit
  <2> QED BY <2>1, <2>2
<1>3. x \in Word
  BY DEF Or, Word
<1>4. \A k \in BitNos : x[k] <=> SignBit(neg)[k] \/ Bin(c)[k]
  BY DEF Or, BitNos
<1>5. \A k \in 0..W - 2 : x[k] <=> Bin(c)[k]
  BY <1>2, <1>4 DEF BitNos
<1>6. x[W - 1] = neg
  <2>1. W - 1 \in BitNos /\ x[W - 1] \in BOOLEAN
    BY <1>3 DEF BitNos, Word
  <2>2. x[W - 1] <=> neg
    BY <1>1, <1>2, <1>4, <2>1
  <2> QED BY <2>1, <2>2
<1>7. x = Float(x[W - 1], c)
  <2> HIDE DEF x
  <2> QED BY <1>1, <1>3, <1>5, FloatWith
<1> QED BY <1>6, <1>7

LEMMA SignTaken == ASSUME NEW x \in Word PROVE And(x, SignMask) = SignBit(x[W - 1])
<1>1. W - 1 \in BitNos /\ x[W - 1] \in BOOLEAN
  BY DEF BitNos, Word
<1>2. \A k \in BitNos : (x[k] /\ SignMask[k]) = (x[W - 1] /\ k = W - 1)
  <2> SUFFICES ASSUME NEW k \in BitNos PROVE (x[k] /\ SignMask[k]) = (x[W - 1] /\ k = W - 1)
    OBVIOUS
  <2>1. SignMask[k] = (k = W - 1)
    BY SignIs
  <2>2. x[k] \in BOOLEAN
    BY DEF Word, BitNos
  <2> QED BY <2>1, <2>2
<1>3. And(x, SignMask) = [k \in BitNos |-> x[W - 1] /\ k = W - 1]
  BY <1>2 DEF And, BitNos
<1>4. CASE x[W - 1]
  BY <1>3, <1>4, SignIs DEF SignBit
<1>5. CASE ~x[W - 1]
  BY <1>3, <1>5, ZeroOne DEF SignBit
<1> QED BY <1>1, <1>4, <1>5

\* The exponent and the fraction of a float are those of its code.
LEMMA PartsOf ==
    ASSUME NEW x \in Word
    PROVE  LET c == Code(x)
           IN /\ c \div FracSize \in 0..ExpSize - 1 /\ c % FracSize \in 0..FracSize - 1
              /\ c = FracSize * (c \div FracSize) + (c % FracSize)
              /\ (Unsigned(x) \div FracSize) % ExpSize = c \div FracSize
              /\ Unsigned(x) % FracSize = c % FracSize
<1> DEFINE c == Code(x)
           u == Unsigned(x)
           e == c \div FracSize
           f == c % FracSize
           n == IF x[W - 1] THEN 1 ELSE 0
<1>1. FracSize \in Nat \ {0} /\ ExpSize \in Nat \ {0} /\ HalfSize = FracSize * ExpSize
  BY FloatSizes
<1>2. c \in 0..HalfSize - 1 /\ c \in Int /\ u = c + (IF x[W - 1] THEN HalfSize ELSE 0) /\ HalfSize \in Nat
  BY FloatIs, Sizes
<1> HIDE DEF c, u, FracSize, ExpSize, HalfSize
<1>3. e \in Int /\ f \in 0..FracSize - 1 /\ c = FracSize * e + f
  BY <1>1, <1>2, Divide
<1> HIDE DEF e, f
<1>4. e \in 0..ExpSize - 1
  <2>1. ASSUME e <= -1 PROVE FALSE
    <3>1. FracSize * e <= -FracSize
      BY <1>1, <1>3, <2>1
    <3> QED BY <1>1, <1>2, <1>3, <3>1
  <2>2. ASSUME e >= ExpSize PROVE FALSE
    <3>1. FracSize * e >= FracSize * ExpSize
      BY <1>1, <1>3, <2>2
    <3> QED BY <1>1, <1>2, <1>3, <3>1
  <2> QED BY <1>1, <1>3, <2>1, <2>2
<1>5. n \in 0..1 /\ u = FracSize * (e + ExpSize * n) + f /\ e + ExpSize * n \in Int /\ u \in Int
  <2>1. CASE x[W - 1]
    <3>1. n = 1 /\ ExpSize * n = ExpSize
      BY <1>1, <2>1
    <3>2. FracSize * (e + ExpSize) = FracSize * e + FracSize * ExpSize /\ FracSize * e \in Int
      BY <1>1, <1>3
    <3> QED BY <1>1, <1>2, <1>3, <2>1, <3>1, <3>2
  <2>2. CASE ~x[W - 1]
    <3>1. n = 0 /\ ExpSize * n = 0
      BY <1>1, <2>2
    <3> QED BY <1>1, <1>2, <1>3, <2>2, <3>1
  <2> QED BY <2>1, <2>2
<1> HIDE DEF n
<1>6. u \div FracSize = e + ExpSize * n /\ u % FracSize = f
  BY <1>1, <1>3, <1>5, Quotient
<1>7. (e + ExpSize * n) % ExpSize = e
  <2>1. e + ExpSize * n = ExpSize * n + e
    BY <1>1, <1>3, <1>5
  <2>2. n \in Int
    BY <1>5
  <2> QED BY <1>1, <1>4, <1>5, <2>1, <2>2, Quotient
<1>8. e \in 0..ExpSize - 1 /\ f \in 0..FracSize - 1 /\ c = FracSize * e + f
      /\ (u \div FracSize) % ExpSize = e /\ u % FracSize = f
  BY <1>3, <1>4, <1>6, <1>7
<1> QED BY <1>8 DEF c, u, e, f

LEMMA ExpTaken ==
    ASSUME NEW x \in Word
    PROVE  /\ And(Shr(x, FRAC), Bin(2^EXP - 1)) = Bin(Code(x) \div FracSize)
           /\ Unsigned(And(Shr(x, FRAC), Bin(2^EXP - 1))) = Code(x) \div FracSize
           /\ And(Not(x), ExpMask) # Zero <=> Code(x) \div FracSize # ExpSize - 1
<1> DEFINE e == Code(x) \div FracSize
           q == Unsigned(x) \div FracSize
           y == Shr(x, FRAC)
<1>1. EXP \in 0..W /\ FRAC \in 0..W - 1 /\ FRAC + EXP = W - 1 /\ EXP >= 2 /\ FRAC >= 2
  BY FloatSizes
<1>2. y = Bin(q) /\ q \in Int /\ q % 2^EXP = e /\ e \in 0..ExpSize - 1 /\ e \in Nat
  <2>1. Unsigned(x) \in Int /\ FracSize \in Nat \ {0} /\ ExpSize \in Nat \ {0}
    BY WordNumber, FloatSizes
  <2>2. q \in Int
    BY <2>1, Divide
  <2>3. y = Bin(q)
    BY <1>1, ShrNumber DEF FracSize
  <2>4. q % 2^EXP = e /\ e \in 0..ExpSize - 1
    BY PartsOf DEF ExpSize
  <2> QED BY <2>1, <2>2, <2>3, <2>4
<1>3. Bin(2^EXP - 1) = [k \in BitNos |-> k < EXP]
  BY <1>1, Masks
<1>4. Bin(e) = [k \in BitNos |-> k < EXP /\ y[k]]
  BY <1>1, <1>2, CutOff
<1>5. And(y, Bin(2^EXP - 1)) = Bin(e)
  <2>1. \A k \in BitNos : (y[k] /\ Bin(2^EXP - 1)[k]) = (k < EXP /\ y[k])
    <3> SUFFICES ASSUME NEW k \in BitNos PROVE (y[k] /\ Bin(2^EXP - 1)[k]) = (k < EXP /\ y[k])
      OBVIOUS
    <3>1. Bin(2^EXP - 1)[k] = (k < EXP)
      BY <1>3
    <3>2. y[k] \in BOOLEAN
      BY DEF Shr, BitNos
    <3> QED BY <3>1, <3>2
  <2>2. And(y, Bin(2^EXP - 1)) = [k \in BitNos |-> y[k] /\ Bin(2^EXP - 1)[k]]
    BY DEF And, BitNos
  <2> HIDE DEF y
  <2> QED BY <1>4, <2>1, <2>2
<1>6. Unsigned(Bin(e)) = e /\ Unsigned(Bin(ExpSize - 1)) = ExpSize - 1 /\ ExpSize - 1 \in Nat
  <2>1. ExpSize <= HalfSize /\ ExpSize \in Nat \ {0}
    <3>1. FracSize \in Nat \ {0} /\ ExpSize \in Nat \ {0} /\ HalfSize = FracSize * ExpSize
      BY FloatSizes
    <3>2. \A a \in Nat \ {0}, b \in Nat \ {0} : b <= a * b
      OBVIOUS
    <3> QED BY <3>1, <3>2
  <2>2. e \in 0..HalfSize - 1 /\ ExpSize - 1 \in 0..HalfSize - 1 /\ ExpSize - 1 \in Nat
    BY <1>2, <2>1, Sizes
  <2> HIDE DEF e, ExpSize
  <2> QED BY <2>2, CodeWord
<1>7. And(Not(x), ExpMask) = Zero <=> \A k \in 0..EXP - 1 : x[k + FRAC]
  <2>1. ASSUME NEW k \in BitNos
        PROVE  And(Not(x), ExpMask)[k] <=> k >= FRAC /\ k - FRAC < EXP /\ ~x[k]
    <3>1. ExpMask[k] <=> k >= FRAC /\ Bin(2^EXP - 1)[k - FRAC]
      BY DEF ExpMask, Shl, BitNos
    <3>2. k >= FRAC => k - FRAC \in BitNos
      BY <1>1 DEF BitNos
    <3>3. k >= FRAC => (Bin(2^EXP - 1)[k - FRAC] <=> k - FRAC < EXP)
      BY <1>3, <3>2
    <3>4. And(Not(x), ExpMask)[k] <=> ~x[k] /\ ExpMask[k]
      BY DEF And, Not, BitNos
    <3> QED BY <3>1, <3>3, <3>4
  <2>2. And(Not(x), ExpMask) = Zero <=> \A k \in BitNos : ~And(Not(x), ExpMask)[k]
    <3> DEFINE z == And(Not(x), ExpMask)
    <3>1. z = [k \in BitNos |-> z[k]] /\ \A k \in BitNos : z[k] \in BOOLEAN
      BY DEF And, BitNos
    <3> HIDE DEF z
    <3>2. ASSUME \A k \in BitNos : ~z[k] PROVE z = Zero
      <4>1. \A k \in BitNos : z[k] = FALSE
        BY <3>1, <3>2
      <4> QED BY <3>1, <4>1, ZeroOne
    <3>3. ASSUME z = Zero PROVE \A k \in BitNos : ~z[k]
      BY <3>3, ZeroOne
    <3> QED BY <3>2, <3>3 DEF z
  <2>3. ASSUME \A k \in BitNos : ~(k >= FRAC /\ k - FRAC < EXP /\ ~x[k]), NEW k \in 0..EXP - 1
        PROVE  x[k + FRAC]
    <3>1. k + FRAC \in BitNos /\ k + FRAC >= FRAC /\ (k + FRAC) - FRAC < EXP
      BY <1>1 DEF BitNos
    <3> QED BY <2>3, <3>1
  <2>4. ASSUME \A k \in 0..EXP - 1 : x[k + FRAC], NEW k \in BitNos
        PROVE  ~(k >= FRAC /\ k - FRAC < EXP /\ ~x[k])
    <3> SUFFICES ASSUME k >= FRAC, k - FRAC < EXP PROVE x[k]
      OBVIOUS
    <3>1. k - FRAC \in 0..EXP - 1 /\ (k - FRAC) + FRAC = k
      BY <1>1 DEF BitNos
    <3> QED BY <2>4, <3>1
  <2>5. (\A k \in BitNos : ~And(Not(x), ExpMask)[k]) <=> \A k \in BitNos : ~(k >= FRAC /\ k - FRAC < EXP /\ ~x[k])
    BY <2>1
  <2> QED BY <2>2, <2>3, <2>4, <2>5
<1>8. (\A k \in 0..EXP - 1 : x[k + FRAC]) <=> Bin(e) = Bin(ExpSize - 1)
  <2>1. \A k \in 0..EXP - 1 : k \in BitNos /\ (Bin(e)[k] <=> x[k + FRAC])
    <3> SUFFICES ASSUME NEW k \in 0..EXP - 1 PROVE k \in BitNos /\ (Bin(e)[k] <=> x[k + FRAC])
      OBVIOUS
    <3>1. k \in BitNos /\ k < EXP /\ k + FRAC <= W - 1
      BY <1>1 DEF BitNos
    <3>2. y[k] = x[k + FRAC]
      BY <1>1, <3>1, SameBits
    <3> HIDE DEF y
    <3> QED BY <1>4, <3>1, <3>2
  <2>2. Bin(ExpSize - 1) = [k \in BitNos |-> k < EXP]
    BY <1>3 DEF ExpSize
  <2>3. \A k \in BitNos : Bin(e)[k] \in BOOLEAN
    BY <1>4
  <2>4. Bin(e) = [k \in BitNos |-> Bin(e)[k]]
    BY <1>4
  <2>5. ASSUME Bin(e) = Bin(ExpSize - 1), NEW k \in 0..EXP - 1 PROVE x[k + FRAC]
    <3>1. k \in BitNos /\ k < EXP
      BY <1>1 DEF BitNos
    <3>2. Bin(ExpSize - 1)[k]
      BY <2>2, <3>1
    <3> QED BY <2>1, <2>5, <3>2
  <2>6. ASSUME \A k \in 0..EXP - 1 : x[k + FRAC] PROVE Bin(e) = Bin(ExpSize - 1)
    <3>1. ASSUME NEW k \in BitNos PROVE Bin(e)[k] = (k < EXP)
      <4>1. CASE k < EXP
        <5>1. k \in 0..EXP - 1
          BY <1>1, <4>1 DEF BitNos
        <5> QED BY <2>1, <2>3, <2>6, <4>1, <5>1
      <4>2. CASE ~(k < EXP)
        <5>1. ~Bin(e)[k]
          BY <1>4, <4>2
        <5> QED BY <2>3, <4>2, <5>1
      <4> QED BY <4>1, <4>2
    <3> HIDE DEF e
    <3> QED BY <2>2, <2>4, <3>1
  <2> QED BY <2>5, <2>6
<1>9. Bin(e) = Bin(ExpSize - 1) <=> e = ExpSize - 1
  <2> HIDE DEF e, ExpSize
  <2> QED BY <1>6
<1> HIDE DEF y
<1>10. And(Not(x), ExpMask) = Zero <=> e = ExpSize - 1
  BY <1>7, <1>8, <1>9
<1> QED BY <1>5, <1>6, <1>10 DEF y

LEMMA FracTaken ==
    ASSUME NEW v \in Int
    PROVE  /\ And(Bin(v), FracMask) = Bin(v % FracSize)
           /\ And(Bin(v), FracMask) = Zero <=> v % FracSize = 0
<1>1. FRAC \in 0..W /\ FracSize \in Nat \ {0} /\ v % FracSize \in 0..FracSize - 1
  BY FloatSizes, Divide
<1>2. FracMask = [k \in BitNos |-> k < FRAC]
  BY <1>1, Masks DEF FracMask
<1>3. Bin(v % FracSize) = [k \in BitNos |-> k < FRAC /\ Bin(v)[k]]
  BY <1>1, CutOff DEF FracSize
<1>4. And(Bin(v), FracMask) = Bin(v % FracSize)
  <2>1. \A k \in BitNos : (Bin(v)[k] /\ FracMask[k]) = (k < FRAC /\ Bin(v)[k])
    <3> SUFFICES ASSUME NEW k \in BitNos PROVE (Bin(v)[k] /\ FracMask[k]) = (k < FRAC /\ Bin(v)[k])
      OBVIOUS
    <3>1. FracMask[k] = (k < FRAC)
      BY <1>2
    <3>2. Bin(v)[k] \in BOOLEAN
      BY WordNumbers DEF Word, BitNos
    <3> QED BY <3>1, <3>2
  <2>2. And(Bin(v), FracMask) = [k \in BitNos |-> Bin(v)[k] /\ FracMask[k]]
    BY DEF And, BitNos
  <2> QED BY <1>3, <2>1, <2>2
<1>5. Bin(v % FracSize) = Zero <=> v % FracSize = 0
  <2> DEFINE r == v % FracSize
  <2>1. FracSize <= HalfSize
    <3>1. FracSize \in Nat \ {0} /\ ExpSize \in Nat \ {0} /\ HalfSize = FracSize * ExpSize
      BY FloatSizes
    <3>2. \A a \in Nat \ {0}, b \in Nat \ {0} : a <= a * b
      OBVIOUS
    <3> QED BY <3>1, <3>2
  <2>2. r \in Int /\ r > -WordSize /\ r < WordSize
    BY <1>1, <2>1, Sizes
  <2> HIDE DEF r
  <2>3. Bin(r) = Zero <=> r = 0
    BY <2>2, IsZero
  <2> QED BY <2>3 DEF r
<1> QED BY <1>4, <1>5

-----------------------------------------------------------------------------
(***************************************************************************)
(* The floating point puzzles without loops.                               *)
(***************************************************************************)

\* Infinity and NaN have the largest exponent, NaN a fraction as well.
LEMMA Infinite ==
    ASSUME NEW x \in Word
    PROVE  LET e == Code(x) \div FracSize
               f == Code(x) % FracSize
           IN /\ Infinity \in Nat /\ Infinity < HalfSize
              /\ Code(x) >= Infinity <=> e = ExpSize - 1
              /\ IsNaN(x) <=> e = ExpSize - 1 /\ f # 0
<1> DEFINE c == Code(x)
           e == c \div FracSize
           f == c % FracSize
<1>1. e \in 0..ExpSize - 1 /\ f \in 0..FracSize - 1 /\ c = FracSize * e + f
  BY PartsOf
<1>2. FracSize \in Nat \ {0} /\ ExpSize \in Nat \ {0} /\ Infinity = (ExpSize - 1) * FracSize
      /\ HalfSize = FracSize * ExpSize
  BY FloatSizes
<1>3. IsNaN(x) <=> c > Infinity
  BY DEF IsNaN
<1> HIDE DEF c, e, f, FracSize, ExpSize, HalfSize, Infinity
<1>4. Infinity = FracSize * ExpSize - FracSize /\ FracSize * ExpSize \in Nat /\ FracSize * ExpSize >= FracSize
  <2>1. (ExpSize - 1) * FracSize = FracSize * ExpSize - FracSize /\ FracSize * ExpSize \in Nat
    BY <1>2
  <2>2. \A a \in Nat \ {0}, b \in Nat \ {0} : a <= a * b
    OBVIOUS
  <2> QED BY <1>2, <2>1, <2>2
<1>5. CASE e = ExpSize - 1
  <2>1. FracSize * e = FracSize * ExpSize - FracSize
    BY <1>2, <1>5
  <2>2. c = Infinity + f
    BY <1>1, <1>4, <2>1
  <2>3. Infinity \in Nat /\ Infinity < HalfSize
    BY <1>2, <1>4
  <2>4. c >= Infinity /\ (c > Infinity <=> f # 0)
    BY <1>1, <2>2, <2>3
  <2> QED BY <1>3, <1>5, <2>3, <2>4 DEF c, e, f
<1>6. CASE e # ExpSize - 1
  <2>1. FracSize * e <= FracSize * ExpSize - 2 * FracSize /\ FracSize * e \in Nat
    <3>1. e \in Nat /\ ExpSize - 2 \in Nat /\ e <= ExpSize - 2
      BY <1>1, <1>2, <1>6
    <3>2. \A a, b, d \in Nat : b <= d => a * b <= a * d /\ a * b \in Nat
      OBVIOUS
    <3>3. FracSize * e <= FracSize * (ExpSize - 2) /\ FracSize * e \in Nat
      BY <1>2, <3>1, <3>2
    <3>4. FracSize * (ExpSize - 2) = FracSize * ExpSize - 2 * FracSize
      BY <1>2
    <3> QED BY <3>3, <3>4
  <2>2. c < Infinity
    BY <1>1, <1>2, <1>4, <2>1
  <2>3. Infinity \in Nat /\ Infinity < HalfSize /\ c \in Nat
    BY <1>1, <1>2, <1>4, <2>1
  <2> QED BY <1>3, <1>6, <2>2, <2>3 DEF c, e, f
<1> QED BY <1>5, <1>6

\* float_neg: all floats but NaN change their sign.
THEOREM FloatNegRight == \A uf \in Word : float_neg(uf) = test_float_neg(uf)
<1> SUFFICES ASSUME NEW uf \in Word PROVE float_neg(uf) = test_float_neg(uf)
  OBVIOUS
<1> DEFINE z == Xor(uf, Shl(One, W - 1))
<1>1. And(Not(uf), ExpMask) # Zero <=> Code(uf) \div FracSize # ExpSize - 1
  BY ExpTaken
<1>2. And(uf, FracMask) = Zero <=> Code(uf) % FracSize = 0
  <2>1. Unsigned(uf) \in Int /\ Bin(Unsigned(uf)) = uf /\ Unsigned(uf) % FracSize = Code(uf) % FracSize
    BY WordNumber, WordNumbers, PartsOf
  <2> QED BY <2>1, FracTaken
<1>3. float_neg(uf) = IF IsNaN(uf) THEN uf ELSE z
  BY <1>1, <1>2, Infinite, Zenon DEF float_neg
<1>4. Shl(One, W - 1) = [k \in BitNos |-> k = W - 1]
  BY SignIs DEF SignMask
<1>5. z \in Word /\ \A k \in BitNos : z[k] = (uf[k] # (k = W - 1))
  BY <1>4 DEF Xor, Word, BitNos
<1> HIDE DEF z
<1>6. W - 1 \in BitNos /\ uf[W - 1] \in BOOLEAN /\ \A k \in 0..W - 2 : k \in BitNos /\ k # W - 1 /\ uf[k] \in BOOLEAN
  BY DEF Word, BitNos
<1>7. \A k \in 0..W - 2 : z[k] <=> uf[k]
  BY <1>5, <1>6
<1>8. z[W - 1] = ~uf[W - 1]
  BY <1>5, <1>6
<1>9. z = Float(~uf[W - 1], Code(uf))
  BY <1>5, <1>7, <1>8, FloatWith
<1>10. test_float_neg(uf) = IF IsNaN(uf) THEN uf ELSE Float(~uf[W - 1], Code(uf))
  BY DEF test_float_neg, Negative
<1> QED BY <1>3, <1>9, <1>10

\* The code of a float that is not infinite goes up by one exponent, or, in the
\* smallest exponent, doubles.
LEMMA MagnitudeTwice ==
    ASSUME NEW e \in Nat, NEW f \in 0..FracSize - 1
    PROVE  /\ e # 0 => Magnitude((FracSize * e + f) + FracSize) = 2 * Magnitude(FracSize * e + f)
           /\ Magnitude(2 * f) = 2 * Magnitude(f)
<1>1. FracSize \in Nat \ {0} /\ 0 \in 0..FracSize - 1 /\ FracSize * e \in Nat
  BY FloatSizes
<1> HIDE DEF FracSize
<1>2. ASSUME e # 0 PROVE Magnitude((FracSize * e + f) + FracSize) = 2 * Magnitude(FracSize * e + f)
  <2>1. (FracSize * e + f) + FracSize = FracSize * (e + 1) + f
    BY <1>1
  <2>2. Magnitude(FracSize * e + f) = (FracSize + f) * Power[e - 1]
    BY <1>2, MagnitudeIs
  <2>3. e + 1 \in Nat /\ e + 1 # 0 /\ (e + 1) - 1 = e /\ e - 1 \in Nat /\ (e - 1) + 1 = e
    BY <1>2
  <2>4. Magnitude(FracSize * (e + 1) + f) = (FracSize + f) * Power[e]
    BY <2>3, MagnitudeIs
  <2>5. Power[e] = 2 * Power[e - 1] /\ Power[e - 1] \in Nat
    BY <2>3, PowerIs
  <2>6. \A a, b \in Nat : a * (2 * b) = 2 * (a * b)
    OBVIOUS
  <2>7. FracSize + f \in Nat
    BY <1>1
  <2> QED BY <2>1, <2>2, <2>4, <2>5, <2>6, <2>7
<1>3. Magnitude(f) = f
  <2>1. FracSize * 0 + f = f
    BY <1>1
  <2> QED BY <2>1, MagnitudeIs
<1>4. Magnitude(2 * f) = 2 * f
  <2>1. CASE 2 * f < FracSize
    <3>1. FracSize * 0 + 2 * f = 2 * f /\ 2 * f \in 0..FracSize - 1
      BY <1>1, <2>1
    <3> QED BY <3>1, MagnitudeIs
  <2>2. CASE 2 * f >= FracSize
    <3>1. FracSize * 1 + (2 * f - FracSize) = 2 * f /\ 2 * f - FracSize \in 0..FracSize - 1
          /\ FracSize + (2 * f - FracSize) = 2 * f /\ 2 * f \in Nat
      BY <1>1, <2>2
    <3>2. Magnitude(FracSize * 1 + (2 * f - FracSize)) = (FracSize + (2 * f - FracSize)) * Power[1 - 1]
      BY <3>1, MagnitudeIs
    <3>3. Power[1 - 1] = 1
      BY PowerIs
    <3> QED BY <3>1, <3>2, <3>3
  <2> QED BY <1>1, <2>1, <2>2
<1> QED BY <1>2, <1>3, <1>4

\* float_twice: denormalized numbers are shifted, others go up by an exponent.
THEOREM FloatTwiceRight == \A uf \in Word : float_twice(uf) = test_float_twice(uf)
<1> SUFFICES ASSUME NEW uf \in Word PROVE float_twice(uf) = test_float_twice(uf)
  OBVIOUS
<1> DEFINE c == Code(uf)
           neg == uf[W - 1]
           e == c \div FracSize
           f == c % FracSize
           rest == Nearest(2 * Magnitude(c))
<1>1. /\ e \in 0..ExpSize - 1 /\ f \in 0..FracSize - 1 /\ c = FracSize * e + f
      /\ c \in 0..HalfSize - 1 /\ neg \in BOOLEAN
      /\ Unsigned(uf) = c + (IF neg THEN HalfSize ELSE 0) /\ uf = Float(neg, c)
  <2>1. W - 1 \in 0..W - 1
    OBVIOUS
  <2>2. neg \in BOOLEAN
    BY <2>1 DEF Word
  <2> QED BY <2>2, PartsOf, FloatIs
<1>2. /\ FracSize \in Nat \ {0} /\ ExpSize \in Nat \ {0} /\ HalfSize = FracSize * ExpSize /\ ExpSize >= 4
      /\ Infinity = (ExpSize - 1) * FracSize /\ FRAC \in 0..W - 1 /\ HalfSize \in Nat \ {0}
  BY FloatSizes, Sizes
<1>3. /\ Infinity \in Nat /\ Infinity < HalfSize
      /\ c >= Infinity <=> e = ExpSize - 1
      /\ IsNaN(uf) <=> e = ExpSize - 1 /\ f # 0
  BY Infinite
<1>4. float_twice(uf) = CASE e = 0 -> Or(And(uf, SignMask), Shl(uf, 1))
                          [] e = ExpSize - 2 -> Or(And(uf, SignMask), Shl(Bin(2^EXP - 1), FRAC))
                          [] e = ExpSize - 1 -> uf
                          [] OTHER -> Add(uf, Shl(One, FRAC))
  BY ExpTaken, Zenon DEF float_twice, ExpSize
<1>5. test_float_twice(uf) = IF IsNaN(uf) THEN uf ELSE Float(neg, IF c = Infinity THEN Infinity ELSE rest)
  BY DEF test_float_twice, Negative
<1>6. And(uf, SignMask) = SignBit(neg)
  BY SignTaken
<1> HIDE DEF c, e, f, neg, rest
<1>7. CASE e = ExpSize - 1
  <2>1. float_twice(uf) = uf
    BY <1>1, <1>2, <1>4, <1>7
  <2>2. ~IsNaN(uf) => c = Infinity
    <3> SUFFICES ASSUME f = 0 PROVE c = Infinity
      BY <1>3, <1>7
    <3>1. FracSize * (ExpSize - 1) = (ExpSize - 1) * FracSize
      BY <1>2
    <3> QED BY <1>1, <1>2, <1>3, <1>7, <3>1
  <2> QED BY <1>1, <1>5, <2>1, <2>2
<1>8. CASE e = ExpSize - 2
  <2>1. e # 0 /\ e # ExpSize - 1 /\ e \in Nat /\ c < Infinity /\ c \in Nat
    BY <1>1, <1>2, <1>3, <1>8
  <2>2. float_twice(uf) = Or(SignBit(neg), Shl(Bin(2^EXP - 1), FRAC))
    BY <1>4, <1>6, <1>8, <2>1
  <2>3. Shl(Bin(2^EXP - 1), FRAC) = Bin(Infinity)
    <3>1. ExpSize - 1 \in Int
      BY <1>2
    <3>2. Shl(Bin(ExpSize - 1), FRAC) = Bin((ExpSize - 1) * FracSize)
      BY <1>2, <3>1, ShlNumber DEF FracSize
    <3> QED BY <1>2, <3>2 DEF ExpSize
  <2>4. float_twice(uf) = Float(neg, Infinity)
    <3>1. Infinity \in 0..HalfSize - 1
      BY <1>2, <1>3
    <3> QED BY <1>1, <2>2, <2>3, <3>1, SignPut
  <2>5. 2 * Magnitude(c) >= Magnitude(Infinity)
    <3>1. Magnitude(c + FracSize) = 2 * Magnitude(c)
      BY <1>1, <2>1, MagnitudeTwice
    <3>2. c + FracSize \in Nat /\ c + FracSize >= Infinity
      <4>1. FracSize * (ExpSize - 2) = (ExpSize - 1) * FracSize - FracSize
        BY <1>2
      <4> QED BY <1>1, <1>2, <1>3, <1>8, <2>1, <4>1
    <3>3. Magnitude(c + FracSize) >= Magnitude(Infinity)
      <4>1. CASE c + FracSize = Infinity
        BY <1>3, <4>1, MagnitudeUp
      <4>2. CASE c + FracSize > Infinity
        <5>1. Magnitude(Infinity) < Magnitude(c + FracSize)
          BY <1>3, <3>2, <4>2, MagnitudeOrder
        <5>2. Magnitude(Infinity) \in Nat /\ Magnitude(c + FracSize) \in Nat
          BY <1>3, <3>2, MagnitudeUp
        <5> QED BY <5>1, <5>2
      <4> QED BY <1>3, <3>2, <4>1, <4>2
    <3> QED BY <3>1, <3>3
  <2>6. rest = Infinity
    BY <2>5 DEF Nearest, rest
  <2> QED BY <1>3, <1>5, <2>1, <2>4, <2>6
<1>9. CASE e # 0 /\ e # ExpSize - 2 /\ e # ExpSize - 1
  <2>1. c < Infinity /\ c \in Nat /\ ~IsNaN(uf) /\ e \in Nat
    BY <1>1, <1>3, <1>9
  <2>2. float_twice(uf) = Add(uf, Shl(One, FRAC))
    BY <1>4, <1>9
  <2>3. Add(uf, Shl(One, FRAC)) = Float(neg, c + FracSize)
    <3>1. Shl(One, FRAC) = Bin(1 * FracSize) /\ 1 * FracSize = FracSize
      BY <1>2, ShlNumber DEF One, FracSize
    <3> DEFINE u == Unsigned(uf)
    <3>2. uf = Bin(u) /\ u \in Int
      BY WordNumber, WordNumbers
    <3>3. u + FracSize = (c + FracSize) + (IF neg THEN HalfSize ELSE 0)
      <4>1. u = c + (IF neg THEN HalfSize ELSE 0)
        BY <1>1
      <4> HIDE DEF u
      <4> QED BY <1>2, <2>1, <4>1
    <3> HIDE DEF u
    <3>4. FracSize \in Int
      BY <1>2
    <3>5. Add(uf, Bin(FracSize)) = Bin(u + FracSize)
      <4>1. Add(Bin(u), Bin(FracSize)) = Bin(u + FracSize)
        BY <3>2, <3>4, AddNumbers
      <4> QED BY <3>2, <4>1
    <3>6. Float(neg, c + FracSize) = Bin((c + FracSize) + (IF neg THEN HalfSize ELSE 0))
      BY DEF Float, HalfSize
    <3> QED BY <3>1, <3>3, <3>5, <3>6
  <2>4. rest = c + FracSize
    <3>1. Magnitude(c + FracSize) = 2 * Magnitude(c)
      BY <1>1, <1>9, <2>1, MagnitudeTwice
    <3>2. c + FracSize \in 0..Infinity - 1
      <4>1. FracSize * e <= FracSize * (ExpSize - 3)
        <5>1. e <= ExpSize - 3 /\ ExpSize - 3 \in Nat
          BY <1>1, <1>2, <1>9
        <5>2. \A a, b, d \in Nat : b <= d => a * b <= a * d
          OBVIOUS
        <5> QED BY <1>2, <2>1, <5>1, <5>2
      <4>2. FracSize * (ExpSize - 3) = (ExpSize - 1) * FracSize - 2 * FracSize
        BY <1>2
      <4>3. FracSize * e \in Nat /\ (ExpSize - 1) * FracSize \in Nat
        BY <1>2, <1>3, <2>1
      <4> QED BY <1>1, <1>2, <2>1, <4>1, <4>2, <4>3
    <3>3. Nearest(Magnitude(c + FracSize)) = c + FracSize
      BY <3>2, NearestSame
    <3> QED BY <3>1, <3>3 DEF rest
  <2> QED BY <1>3, <1>5, <2>1, <2>2, <2>3, <2>4
<1>10. CASE e = 0
  <2>1. e # ExpSize - 1 /\ c = f /\ c < Infinity /\ c \in Nat /\ ~IsNaN(uf)
    <3>1. FracSize * 0 = 0
      BY <1>2
    <3> QED BY <1>1, <1>2, <1>3, <1>10, <3>1
  <2>2. float_twice(uf) = Or(SignBit(neg), Shl(uf, 1))
    BY <1>2, <1>4, <1>6, <1>10
  <2>3. 2 * c < Infinity /\ 2 * c \in Nat
    <3>1. FracSize * 3 <= FracSize * (ExpSize - 1) /\ FracSize * (ExpSize - 1) = Infinity
      <4>1. 3 <= ExpSize - 1 /\ ExpSize - 1 \in Nat /\ 3 \in Nat
        BY <1>2
      <4>2. \A a, b, d \in Nat : b <= d => a * b <= a * d
        OBVIOUS
      <4> QED BY <1>2, <4>1, <4>2
    <3> QED BY <1>1, <1>2, <2>1, <3>1
  <2>4. Shl(uf, 1) = Bin(2 * c)
    <3> DEFINE u == Unsigned(uf)
               n == IF neg THEN 1 ELSE 0
    <3>1. uf = Bin(u) /\ u \in Int
      BY WordNumber, WordNumbers
    <3>2. u * 2 = 2 * c + WordSize * n /\ n \in Int
      <4>1. u = c + (IF neg THEN HalfSize ELSE 0)
        BY <1>1
      <4> HIDE DEF u
      <4>2. CASE neg
        BY <1>2, <2>1, <4>1, <4>2, Sizes
      <4>3. CASE ~neg
        BY <1>2, <2>1, <4>1, <4>3, Sizes
      <4> QED BY <4>2, <4>3
    <3> HIDE DEF u, n
    <3>3. Shl(Bin(u), 1) = Bin(u * 2)
      <4>1. 1 \in 0..W - 1 /\ 2^1 = 2
        BY Twice
      <4>2. Shl(Bin(u), 1) = Bin(u * 2^1)
        BY <3>1, <4>1, ShlNumber
      <4> QED BY <4>1, <4>2
    <3>4. Bin(2 * c + WordSize * n) = Bin(2 * c)
      <4>1. 2 * c \in Int
        BY <2>1
      <4> QED BY <3>2, <4>1, BinSame
    <3> QED BY <3>1, <3>2, <3>3, <3>4
  <2>5. float_twice(uf) = Float(neg, 2 * c)
    <3>1. 2 * c \in 0..HalfSize - 1
      BY <1>2, <1>3, <2>3
    <3> QED BY <1>1, <2>2, <2>4, <3>1, SignPut
  <2>6. rest = 2 * c
    <3>1. Magnitude(2 * c) = 2 * Magnitude(c)
      <4>1. 0 \in Nat /\ f \in 0..FracSize - 1
        BY <1>1
      <4> QED BY <2>1, <4>1, MagnitudeTwice
    <3>2. 2 * c \in 0..Infinity - 1
      BY <1>3, <2>3
    <3>3. Nearest(Magnitude(2 * c)) = 2 * c
      BY <3>2, NearestSame
    <3> QED BY <3>1, <3>3 DEF rest
  <2> QED BY <1>3, <1>5, <2>1, <2>5, <2>6
<1> QED BY <1>7, <1>8, <1>9, <1>10

-----------------------------------------------------------------------------
(***************************************************************************)
(* Ints as floats.                                                         *)
(***************************************************************************)

LEMMA LowestFlag == ASSUME NEW x \in Word PROVE And(x, One) = Flag(x[0])
<1>1. 0 \in BitNos /\ x[0] \in BOOLEAN
  BY DEF BitNos, Word
<1>2. \A k \in BitNos : (x[k] /\ One[k]) = (x[0] /\ k = 0)
  <2> SUFFICES ASSUME NEW k \in BitNos PROVE (x[k] /\ One[k]) = (x[0] /\ k = 0)
    OBVIOUS
  <2>1. One[k] = (k = 0)
    BY ZeroOne
  <2>2. x[k] \in BOOLEAN
    BY DEF Word, BitNos
  <2> QED BY <2>1, <2>2
<1>3. And(x, One) = [k \in BitNos |-> x[0] /\ k = 0]
  BY <1>2 DEF And, BitNos
<1>4. CASE x[0]
  BY <1>3, <1>4, ZeroOne DEF Flag
<1>5. CASE ~x[0]
  BY <1>3, <1>5, ZeroOne DEF Flag
<1> QED BY <1>1, <1>4, <1>5

\* A quotient is not above what is divided.
LEMMA Below == ASSUME NEW m \in Nat \ {0}, NEW n \in Nat
               PROVE  /\ n \div m \in Nat /\ n \div m <= n /\ n % m \in 0..m - 1
                      /\ n = m * (n \div m) + (n % m)
                      /\ n \div m = 0 <=> n < m
<1> DEFINE q == n \div m
           r == n % m
<1>1. q \in Int /\ r \in 0..m - 1 /\ n = m * q + r
  BY Divide
<1> HIDE DEF q, r
<1>2. q \in Nat
  <2>1. ASSUME q <= -1 PROVE FALSE
    <3>1. m * q <= -m
      BY <1>1, <2>1
    <3> QED BY <1>1, <3>1
  <2> QED BY <1>1, <2>1
<1>3. q <= n
  <2>1. \A a \in Nat \ {0}, b \in Nat : b <= a * b /\ a * b \in Nat
    OBVIOUS
  <2> QED BY <1>1, <1>2, <2>1
<1>4. q = 0 <=> n < m
  <2>1. CASE q = 0
    <3>1. m * 0 = 0
      OBVIOUS
    <3> QED BY <1>1, <2>1, <3>1
  <2>2. CASE q # 0
    <3>1. \A a \in Nat \ {0}, b \in Nat \ {0} : a <= a * b /\ a * b \in Nat
      OBVIOUS
    <3>2. m <= m * q /\ m * q \in Nat
      BY <1>2, <2>2, <3>1
    <3> QED BY <1>1, <2>2, <3>2
  <2> QED BY <2>1, <2>2
<1> QED BY <1>1, <1>2, <1>3, <1>4 DEF q, r

LEMMA LowestBit == ASSUME NEW x \in Word PROVE x[0] <=> Unsigned(x) % 2 = 1
<1> DEFINE u == Unsigned(x)
<1>1. u \in Nat
  BY WordNumber
<1>2. \A v \in Nat : v \div 1 = v
  <2> TAKE v \in Nat
  <2>1. v = 1 * v + 0 /\ 0 \in 0..1 - 1 /\ v \in Int /\ 1 \in Nat \ {0}
    OBVIOUS
  <2> QED BY <2>1, Quotient
<1>3. ASSUME NEW k \in 0..W - 1, k = 0 PROVE (u \div 1) % 2 = 1 <=> x[k]
  <2>1. 2^k = 1
    BY <1>3
  <2>2. (u \div 2^k) % 2 = 1 <=> x[k]
    BY BitOf
  <2> HIDE DEF u
  <2> QED BY <2>1, <2>2
<1>4. 0 \in 0..W - 1
  OBVIOUS
<1> HIDE DEF u
<1> QED BY <1>1, <1>2, <1>3, <1>4 DEF u

\* k + 1 bits are cut off: the last of them, the others, and the lowest bit
\* that is left say whether the rest is rounded up.
LEMMA RoundOffIs ==
    ASSUME NEW n \in 0..WordSize - 1, NEW k \in 0..W - 2
    PROVE  LET q == n \div 2^(k + 1)
               up == /\ (n \div 2^k) % 2 = 1
                     /\ n % 2^k # 0 \/ q % 2 = 1
           IN RoundOff(Bin(n), k) = Bin(q + (IF up THEN 1 ELSE 0))
<1> DEFINE q == n \div 2^(k + 1)
           p == n \div 2^k
           f == Bin(n)
           c == Flag(\E j \in 0..k - 1 : f[j])
           g == Shr(f, k)
           h == Shr(g, 1)
           sticky == n % 2^k # 0
           odd == q % 2 = 1
           half == p % 2 = 1
<1>1. /\ k \in 0..W /\ k + 1 \in 0..W /\ k \in 0..W - 1 /\ 1 \in 0..W - 1 /\ 0 \in 0..W - 1
      /\ 2^k \in Nat \ {0} /\ 2^(k + 1) \in Nat \ {0} /\ 2^(k + 1) = 2^k * 2
      /\ n \in Nat /\ n \in Int /\ WordSize \in Nat
  <2>1. k \in 0..W /\ k + 1 \in 0..W /\ k \in 0..W - 1 /\ 1 \in 0..W - 1 /\ 0 \in 0..W - 1
    OBVIOUS
  <2>2. 2^k \in Nat \ {0} /\ 2^(k + 1) \in Nat \ {0} /\ 2^(k + 1) = 2 * 2^k
    BY <2>1, Twice
  <2> QED BY <2>1, <2>2, Sizes
<1>2. f \in Word /\ Unsigned(f) = n
  <2>1. f \in Word /\ Unsigned(f) = n % WordSize
    BY <1>1, WordNumbers DEF WordSize
  <2>2. n = WordSize * 0 + n /\ WordSize \in Nat \ {0} /\ 0 \in Int
    BY <1>1, Sizes
  <2>3. n % WordSize = n
    BY <1>1, <2>2, Quotient
  <2> QED BY <2>1, <2>3
<1>3. p \in Nat /\ p <= n /\ q \in Nat /\ q <= n /\ p \div 2 = q
  <2>1. p \in Nat /\ p <= n /\ q \in Nat /\ q <= n
    BY <1>1, Below
  <2> DEFINE m == 2^k
             t == 2
  <2>2. m \in Nat \ {0} /\ t \in Nat \ {0} /\ 2^(k + 1) = m * t
    BY <1>1
  <2> HIDE DEF m, t
  <2>3. (n \div m) \div t = n \div (m * t)
    BY <1>1, <2>2, DivideTwice
  <2>4. (n \div m) \div t = q
    BY <2>2, <2>3
  <2> QED BY <2>1, <2>4 DEF m, t
<1>4. g = Bin(p) /\ g \in Word /\ Unsigned(g) = p
  <2>1. g = Bin(Unsigned(f) \div 2^k)
    BY <1>1, <1>2, ShrNumber
  <2>2. g = Bin(p)
    BY <1>2, <2>1
  <2>3. p \in Int /\ p = WordSize * 0 + p /\ p \in 0..WordSize - 1 /\ WordSize \in Nat \ {0} /\ 0 \in Int
    BY <1>1, <1>3, Sizes
  <2>4. Bin(p) \in Word /\ Unsigned(Bin(p)) = p % WordSize
    BY <2>3, WordNumbers DEF WordSize
  <2>5. p % WordSize = p
    <3> HIDE DEF p
    <3> QED BY <2>3, Quotient
  <2> QED BY <2>2, <2>4, <2>5
<1> HIDE DEF g
<1>5. h = Bin(q) /\ h \in Word /\ Unsigned(h) = q
  <2>1. h = Bin(Unsigned(g) \div 2^1) /\ 2^1 = 2
    BY <1>1, <1>4, ShrNumber, Twice
  <2>2. h = Bin(q)
    BY <1>3, <1>4, <2>1
  <2>3. q \in Int /\ q = WordSize * 0 + q /\ q \in 0..WordSize - 1 /\ WordSize \in Nat \ {0} /\ 0 \in Int
    BY <1>1, <1>3, Sizes
  <2>4. Bin(q) \in Word /\ Unsigned(Bin(q)) = q % WordSize
    BY <2>3, WordNumbers DEF WordSize
  <2>5. q % WordSize = q
    <3> HIDE DEF q
    <3> QED BY <2>3, Quotient
  <2> QED BY <2>2, <2>4, <2>5
<1> HIDE DEF h
<1>6. g[0] = half /\ h[0] = odd
  <2>2. g[0] <=> p % 2 = 1
    BY <1>4, LowestBit
  <2>3. h[0] <=> q % 2 = 1
    BY <1>5, LowestBit
  <2>4. g[0] \in BOOLEAN /\ h[0] \in BOOLEAN
    BY <1>1, <1>4, <1>5 DEF Word
  <2> QED BY <2>2, <2>3, <2>4
<1>7. c = Flag(sticky)
  <2>1. Bin(n % 2^k) = [j \in BitNos |-> j < k /\ f[j]]
    BY <1>1, CutOff
  <2>2. Bin(n % 2^k) = Zero <=> n % 2^k = 0
    <3>1. n % 2^k \in Nat /\ n % 2^k <= n
      <4>1. n % 2^k \in 0..2^k - 1 /\ n = 2^k * p + (n % 2^k)
        BY <1>1, Below
      <4>2. \A a, b \in Nat : a * b \in Nat
        OBVIOUS
      <4>3. 2^k * p \in Nat /\ n % 2^k \in Nat
        BY <1>1, <1>3, <4>1, <4>2
      <4> HIDE DEF p
      <4> QED BY <1>1, <4>1, <4>3
    <3>2. n % 2^k \in Int /\ n % 2^k > -WordSize /\ n % 2^k < WordSize
      BY <1>1, <3>1
    <3> QED BY <3>2, IsZero
  <2>3. Bin(n % 2^k) = Zero <=> ~\E j \in 0..k - 1 : f[j]
    <3> DEFINE z == [j \in BitNos |-> j < k /\ f[j]]
    <3>1. \A j \in BitNos : z[j] \in BOOLEAN /\ (z[j] <=> j < k /\ f[j])
      OBVIOUS
    <3>2. \A j \in 0..k - 1 : j \in BitNos /\ j < k
      BY DEF BitNos
    <3>3. ASSUME z = Zero, NEW j \in 0..k - 1, f[j] PROVE FALSE
      BY <3>1, <3>2, <3>3, ZeroOne
    <3>4. ASSUME ~\E j \in 0..k - 1 : f[j] PROVE z = Zero
      <4>1. \A j \in BitNos : j < k => j \in 0..k - 1
        BY DEF BitNos
      <4>2. \A j \in BitNos : z[j] = FALSE
        BY <3>1, <3>4, <4>1
      <4>3. z = [j \in BitNos |-> z[j]]
        OBVIOUS
      <4> HIDE DEF z
      <4> QED BY <4>2, <4>3, ZeroOne
    <3> HIDE DEF f
    <3> QED BY <2>1, <3>3, <3>4
  <2>4. (\E j \in 0..k - 1 : f[j]) = sticky
    BY <2>2, <2>3
  <2> HIDE DEF f
  <2> QED BY <2>4
<1> HIDE DEF c
<1>8. And(And(g, Or(c, h)), One) = Flag(half /\ (sticky \/ odd))
  <2> DEFINE z == And(g, Or(c, h))
  <2>1. 0 \in BitNos
    BY DEF BitNos
  <2>2. c[0] = sticky
    <3>1. CASE sticky
      BY <1>7, <2>1, <3>1, ZeroOne DEF Flag
    <3>2. CASE ~sticky
      BY <1>7, <2>1, <3>2, ZeroOne DEF Flag
    <3> QED BY <3>1, <3>2
  <2> HIDE DEF half, sticky, odd
  <2>3. z[0] = (half /\ (sticky \/ odd))
    <3>1. z[0] = (g[0] /\ (c[0] \/ h[0]))
      BY <2>1 DEF And, Or, BitNos
    <3> QED BY <1>6, <2>2, <3>1
  <2>4. z \in Word
    BY DEF And, Word
  <2> HIDE DEF z
  <2>5. And(z, One) = Flag(z[0])
    BY <2>4, LowestFlag
  <2> QED BY <2>3, <2>5 DEF z
<1>9. RoundOff(f, k) = Add(h, And(And(g, Or(c, h)), One))
  BY Zenon DEF RoundOff, c, g, h
<1> DEFINE b == IF half /\ (sticky \/ odd) THEN 1 ELSE 0
<1>10. Add(h, Flag(half /\ (sticky \/ odd))) = Bin(q + b)
  <2> HIDE DEF half, sticky, odd
  <2>1. (half /\ (sticky \/ odd)) \in BOOLEAN
    OBVIOUS
  <2>2. Flag(half /\ (sticky \/ odd)) = Bin(b)
    BY <2>1, Flags
  <2>3. b \in Int
    OBVIOUS
  <2> HIDE DEF b, q
  <2>4. q \in Int
    BY <1>3
  <2> QED BY <1>5, <2>2, <2>3, <2>4, AddNumbers
<1>11. RoundOff(f, k) = Bin(q + b)
  BY <1>8, <1>9, <1>10
<1> QED BY <1>11

\* The digits of a number.
LEMMA DigitsAre ==
    ASSUME NEW n \in 0..WordSize - 1
    PROVE  LET b == Digits(Bin(n))
           IN /\ b \in 0..W /\ (b = 0 <=> n = 0)
              /\ b # 0 => 2^(b - 1) <= n /\ n < 2^b
<1> DEFINE t == Bin(n)
           P(k) == t[k] /\ Shr(t, k + 1) = Zero
           k == CHOOSE j \in 0..W - 1 : P(j)
<1>1. n \in Int /\ n \in Nat /\ t \in Word /\ Unsigned(t) = n /\ (t = Zero <=> n = 0) /\ WordSize \in Nat \ {0}
  <2>1. n \in Int /\ n \in Nat /\ WordSize \in Nat \ {0} /\ n > -WordSize /\ n < WordSize
    BY Sizes
  <2>2. t \in Word /\ Unsigned(t) = n % WordSize
    BY <2>1, WordNumbers DEF WordSize
  <2>3. n = WordSize * 0 + n /\ 0 \in Int
    BY <2>1
  <2>4. n % WordSize = n
    BY <2>1, <2>3, Quotient
  <2>5. t = Zero <=> n = 0
    BY <2>1, IsZero
  <2> QED BY <2>1, <2>2, <2>4, <2>5
<1>2. Digits(t) = IF t = Zero THEN 0 ELSE 1 + k
  BY Zenon DEF Digits
<1> HIDE DEF t
<1>3. CASE n = 0
  <2>1. Digits(t) = 0
    BY <1>1, <1>2, <1>3
  <2> QED BY <1>3, <2>1 DEF t
<1>4. CASE n # 0
  <2>1. \E j \in 0..W - 1 : P(j)
    <3> DEFINE j == Highest(t)
    <3>1. j \in 0..W - 1 /\ t[j] /\ \A i \in j + 1..W - 1 : ~t[i]
      BY <1>1, <1>4, HighestIs
    <3> HIDE DEF j
    <3>2. \A i \in BitNos : (i + (j + 1) <= W - 1 /\ t[i + (j + 1)]) = FALSE
      <4> SUFFICES ASSUME NEW i \in BitNos, i + (j + 1) <= W - 1 PROVE ~t[i + (j + 1)]
        OBVIOUS
      <4>1. i + (j + 1) \in j + 1..W - 1
        BY <3>1 DEF BitNos
      <4> QED BY <3>1, <4>1
    <3>3. Shr(t, j + 1) = Zero
      BY <3>2, ZeroOne DEF Shr, BitNos
    <3> QED BY <3>1, <3>3
  <2>2. k \in 0..W - 1 /\ P(k)
    <3> HIDE DEF P
    <3> QED BY <2>1
  <2> HIDE DEF k
  <2>3. 1 + k \in 1..W /\ k + 1 = 1 + k /\ (1 + k) - 1 = k /\ Digits(t) = 1 + k /\ k \in 0..W /\ k + 1 \in 0..W
    BY <1>1, <1>2, <1>4, <2>2
  <2>4. 2^k \in Nat \ {0} /\ 2^(k + 1) \in Nat \ {0}
    BY <2>3, Twice
  <2>5. 2^k <= n
    <3>1. (n \div 2^k) % 2 = 1
      BY <1>1, <2>2, BitOf
    <3>2. n \div 2^k # 0
      <4>1. 0 % 2 = 0
        OBVIOUS
      <4> QED BY <3>1, <4>1
    <3>3. n \div 2^k = 0 <=> n < 2^k
      BY <1>1, <2>4, Below
    <3> QED BY <1>1, <2>4, <3>2, <3>3
  <2>6. n < 2^(k + 1)
    <3>1. CASE k + 1 = W
      BY <3>1 DEF WordSize
    <3>2. CASE k + 1 # W
      <4>1. k + 1 \in 0..W - 1
        BY <2>2, <3>2
      <4> DEFINE q == n \div 2^(k + 1)
      <4>2. Bin(q) = Zero
        BY <1>1, <2>2, <4>1, ShrNumber
      <4>3. q \in Nat /\ q <= n /\ (q = 0 <=> n < 2^(k + 1))
        BY <1>1, <2>4, Below
      <4> HIDE DEF q
      <4>4. q \in Int /\ q > -WordSize /\ q < WordSize
        BY <1>1, <4>3
      <4>5. q = 0
        BY <4>2, <4>4, IsZero
      <4> QED BY <4>3, <4>5
    <3> QED BY <3>1, <3>2
  <2>7. 2^((1 + k) - 1) <= n /\ n < 2^(1 + k)
    BY <2>3, <2>5, <2>6
  <2> HIDE DEF P
  <2> QED BY <1>4, <2>3, <2>7 DEF t
<1> QED BY <1>3, <1>4

\* Fraction and exponent are put beside each other.
LEMMA PartsPut ==
    ASSUME NEW e \in Nat, NEW f \in 0..FracSize - 1
    PROVE  Or(Bin(f), Shl(Bin(e), FRAC)) = Bin(FracSize * e + f)
<1> DEFINE c == FracSize * e + f
           x == Bin(c)
<1>1. FracSize \in Nat \ {0} /\ FRAC \in 0..W - 1 /\ FRAC \in 0..W /\ f \in Int /\ e \in Int
  BY FloatSizes
<1>2. c \in Int
  <2>1. FracSize * e \in Int
    BY <1>1
  <2> HIDE DEF FracSize
  <2> QED BY <1>1, <2>1
<1>3. c % FracSize = f
  <2>1. c = FracSize * e + f
    OBVIOUS
  <2> HIDE DEF c, FracSize
  <2> QED BY <1>1, <1>2, <2>1, Quotient
<1>4. x \in Word
  BY <1>2, WordNumbers
<1>5. Bin(f) = [k \in BitNos |-> k < FRAC /\ x[k]]
  <2> HIDE DEF c
  <2>1. Bin(c % 2^FRAC) = [k \in BitNos |-> k < FRAC /\ Bin(c)[k]]
    BY <1>1, <1>2, CutOff
  <2> QED BY <1>3, <2>1 DEF FracSize
\* The bits of e * FracSize are those of c but for the lowest.
<1>6. Shl(Bin(e), FRAC) = [k \in BitNos |-> k >= FRAC /\ x[k]]
  <2> DEFINE s == Shl(Bin(e), FRAC)
             y == Bin(e)
  <2>1. \A k \in BitNos : s[k] <=> k >= FRAC /\ y[k - FRAC]
    BY DEF Shl, BitNos
  <2>2. ASSUME NEW k \in BitNos, k >= FRAC PROVE y[k - FRAC] <=> x[k]
    <3> DEFINE i == k - FRAC
    <3>1. i \in 0..W - 1 /\ k \in 0..W - 1 /\ FRAC \in 0..W /\ i \in 0..W - FRAC /\ FRAC + i = k /\ i \in 0..W /\ k \in 0..W
      BY <1>1, <2>2 DEF BitNos
    <3> HIDE DEF i
    <3>2. y[i] <=> (e \div 2^i) % 2 = 1
      BY <3>1 DEF Bin
    <3>3. x[k] <=> (c \div 2^k) % 2 = 1
      BY <3>1 DEF Bin
    <3>4. 2^k = FracSize * 2^i /\ 2^i \in Nat \ {0}
      BY <3>1, PowerSum, Twice DEF FracSize
    <3>5. c \div FracSize = e
      <4>1. c = FracSize * e + f
        OBVIOUS
      <4> HIDE DEF c, FracSize
      <4> QED BY <1>1, <1>2, <4>1, Quotient
    <3> HIDE DEF c, FracSize
    <3>6. c \div (FracSize * 2^i) = (c \div FracSize) \div 2^i
      BY <1>1, <1>2, <3>4, DivideTwice
    <3>7. c \div 2^k = e \div 2^i
      BY <3>4, <3>5, <3>6
    <3> HIDE DEF x, y
    <3> QED BY <3>2, <3>3, <3>7 DEF i
  <2>3. \A k \in BitNos : s[k] \in BOOLEAN /\ x[k] \in BOOLEAN
    <3>1. Shl(y, FRAC) \in [BitNos -> BOOLEAN]
      <4>1. \A k \in BitNos : (k >= FRAC /\ y[k - FRAC]) \in BOOLEAN
        OBVIOUS
      <4> QED BY <4>1 DEF Shl, BitNos
    <3> HIDE DEF x
    <3> QED BY <1>4, <3>1 DEF Word, BitNos
  <2>4. s = [k \in BitNos |-> s[k]]
    BY DEF Shl, BitNos
  <2> HIDE DEF s, x, y
  <2>5. \A k \in BitNos : s[k] = (k >= FRAC /\ x[k])
    BY <2>1, <2>2, <2>3
  <2>6. s = [k \in BitNos |-> k >= FRAC /\ x[k]]
    BY <2>4, <2>5
  <2> QED BY <2>6 DEF s
<1> HIDE DEF x
<1>7. Or(Bin(f), Shl(Bin(e), FRAC)) = x
  <2>1. \A k \in BitNos : (Bin(f)[k] \/ Shl(Bin(e), FRAC)[k]) = x[k]
    <3> SUFFICES ASSUME NEW k \in BitNos PROVE (Bin(f)[k] \/ Shl(Bin(e), FRAC)[k]) = x[k]
      OBVIOUS
    <3>1. Bin(f)[k] = (k < FRAC /\ x[k]) /\ Shl(Bin(e), FRAC)[k] = (k >= FRAC /\ x[k])
      BY <1>5, <1>6
    <3>2. x[k] \in BOOLEAN
      BY <1>4 DEF Word, BitNos
    <3>3. k < FRAC \/ k >= FRAC
      BY <1>1 DEF BitNos
    <3> QED BY <3>1, <3>2, <3>3
  <2>2. x = [k \in BitNos |-> x[k]]
    BY <1>4 DEF Word, BitNos
  <2>3. Or(Bin(f), Shl(Bin(e), FRAC)) = [k \in BitNos |-> Bin(f)[k] \/ Shl(Bin(e), FRAC)[k]]
    BY DEF Or, BitNos
  <2> QED BY <2>1, <2>2, <2>3
<1> QED BY <1>7 DEF x

\* A significand of one digit more than a fraction, in the units of its
\* exponent: the next power of two is the first of the next exponent.
LEMMA Significand ==
    ASSUME NEW b \in Nat, NEW t \in FracSize..2 * FracSize
    PROVE  Magnitude(FracSize * b + t) = t * Power[b]
<1>1. FracSize \in Nat \ {0} /\ FracSize * b \in Nat
  BY FloatSizes
<1> HIDE DEF FracSize
<1>2. CASE t < 2 * FracSize
  <2>1. b + 1 \in Nat /\ b + 1 # 0 /\ (b + 1) - 1 = b /\ t - FracSize \in 0..FracSize - 1
        /\ FracSize + (t - FracSize) = t
        /\ FracSize * (b + 1) + (t - FracSize) = FracSize * b + t
    BY <1>1, <1>2
  <2>2. Magnitude(FracSize * (b + 1) + (t - FracSize)) = (FracSize + (t - FracSize)) * Power[b]
    BY <2>1, MagnitudeIs
  <2> QED BY <2>1, <2>2
<1>3. CASE t = 2 * FracSize
  <2>1. b + 2 \in Nat /\ b + 2 # 0 /\ (b + 2) - 1 = b + 1 /\ 0 \in 0..FracSize - 1
        /\ FracSize + 0 = FracSize
        /\ FracSize * (b + 2) + 0 = FracSize * b + t
    BY <1>1, <1>3
  <2>2. Magnitude(FracSize * (b + 2) + 0) = (FracSize + 0) * Power[b + 1]
    BY <2>1, MagnitudeIs
  <2>3. Power[b + 1] = 2 * Power[b] /\ Power[b] \in Nat
    BY PowerIs
  <2>4. FracSize * (2 * Power[b]) = (2 * FracSize) * Power[b]
    BY <1>1, <2>3
  <2> QED BY <1>3, <2>1, <2>2, <2>3, <2>4
<1>4. t < 2 * FracSize \/ t = 2 * FracSize
  BY <1>1
<1> QED BY <1>2, <1>3, <1>4

\* A number that is cut at 2 * h: the last bit that goes, and the others.
LEMMA CutAt ==
    ASSUME NEW h \in Nat \ {0}, NEW n \in Nat
    PROVE  LET r == n % (h * 2)
           IN /\ (n \div h) % 2 = 1 <=> r >= h
              /\ n % h # 0 <=> r # 0 /\ r # h
<1> DEFINE m == h * 2
           q == n \div m
           r == n % m
<1>1. m \in Nat \ {0} /\ n \in Int
  OBVIOUS
<1>2. q \in Nat /\ r \in 0..m - 1 /\ n = m * q + r
  BY <1>1, Below
<1> HIDE DEF q, r
<1>3. \A a \in Int : (2 * a) % 2 = 0 /\ (2 * a + 1) % 2 = 1
  OBVIOUS
<1>4. CASE r < h
  <2>1. n = h * (2 * q) + r /\ 2 * q \in Int /\ r \in 0..h - 1
    BY <1>2, <1>4
  <2>2. n \div h = 2 * q /\ n % h = r
    <3> DEFINE a == 2 * q
    <3> HIDE DEF a
    <3>1. n = h * a + r /\ a \in Int
      BY <2>1 DEF a
    <3>2. n \div h = a /\ n % h = r
      BY <1>1, <2>1, <3>1, Quotient
    <3> QED BY <3>2 DEF a
  <2> QED BY <1>2, <1>3, <1>4, <2>1, <2>2 DEF r
<1>5. CASE r >= h
  <2>1. n = h * (2 * q + 1) + (r - h) /\ 2 * q + 1 \in Int /\ r - h \in 0..h - 1
    BY <1>2, <1>5
  <2>2. n \div h = 2 * q + 1 /\ n % h = r - h
    <3> DEFINE a == 2 * q + 1
               b == r - h
    <3> HIDE DEF a, b
    <3>1. n = h * a + b /\ a \in Int /\ b \in 0..h - 1
      BY <2>1 DEF a, b
    <3>2. n \div h = a /\ n % h = b
      BY <1>1, <3>1, Quotient
    <3> QED BY <3>2 DEF a, b
  <2> QED BY <1>2, <1>3, <1>5, <2>1, <2>2 DEF r
<1> QED BY <1>2, <1>4, <1>5

\* The code of a number with b digits, given its rounded significand.
LEMMA CodeOf ==
    ASSUME NEW b \in 1..W, NEW t \in FracSize..2 * FracSize
    PROVE  LET e == IF t = 2 * FracSize THEN b + 1 ELSE b
               c == FracSize * (b + Bias - 2) + t
           IN /\ Or(Bin(t % FracSize), Shl(Bin(e + Bias - 1), FRAC)) = Bin(c)
              /\ c \in 0..Infinity /\ (t < 2 * FracSize => c < Infinity) /\ Infinity \in Nat
              /\ b + Bias - 2 \in Nat
<1> DEFINE e == IF t = 2 * FracSize THEN b + 1 ELSE b
           c == FracSize * (b + Bias - 2) + t
           g == b + Bias - 2
<1>1. /\ FracSize \in Nat \ {0} /\ ExpSize \in Nat \ {0} /\ Bias \in Nat \ {0} /\ ExpSize = 2 * Bias + 2
      /\ W <= Bias + 1 /\ Infinity = (ExpSize - 1) * FracSize
  BY FloatSizes
<1> HIDE DEF FracSize, ExpSize, Bias, Infinity
<1>2. g \in Nat /\ g + 1 \in Nat /\ g + 2 \in Nat /\ g + 2 <= ExpSize - 1
      /\ e + Bias - 1 = (IF t = 2 * FracSize THEN g + 2 ELSE g + 1)
  BY <1>1
<1> HIDE DEF e
<1> HIDE DEF g
<1>3. FracSize * g \in Nat /\ FracSize * (g + 1) = FracSize * g + FracSize
      /\ FracSize * (g + 2) = FracSize * g + 2 * FracSize
      /\ FracSize * (g + 2) <= Infinity /\ Infinity \in Nat
  <2>1. \A a, i, j \in Nat : i <= j => a * i <= j * a
    OBVIOUS
  <2>2. ExpSize - 1 \in Nat
    BY <1>1
  <2>3. FracSize * (g + 2) <= (ExpSize - 1) * FracSize
    BY <1>1, <1>2, <2>1, <2>2
  <2>4. FracSize * g \in Nat /\ FracSize * (g + 1) = FracSize * g + FracSize
        /\ FracSize * (g + 2) = FracSize * g + 2 * FracSize /\ (ExpSize - 1) * FracSize \in Nat
    BY <1>1, <1>2, <2>2
  <2> QED BY <1>1, <2>3, <2>4
<1>4. c \in 0..Infinity /\ (t < 2 * FracSize => c < Infinity)
  <2>1. c = FracSize * g + t
    BY DEF g
  <2> HIDE DEF c
  <2> QED BY <1>1, <1>3, <2>1
<1>5. Or(Bin(t % FracSize), Shl(Bin(e + Bias - 1), FRAC)) = Bin(c)
  <2>1. CASE t < 2 * FracSize
    <3> DEFINE f == t - FracSize
    <3>1. f \in 0..FracSize - 1 /\ t = FracSize * 1 + f /\ t \in Int /\ 1 \in Int
      BY <1>1, <2>1
    <3>2. t % FracSize = f
      <4> HIDE DEF f
      <4> QED BY <1>1, <3>1, Quotient
    <3>3. e + Bias - 1 = g + 1
      BY <1>1, <1>2, <2>1
    <3> HIDE DEF f
    <3>4. Or(Bin(f), Shl(Bin(g + 1), FRAC)) = Bin(FracSize * (g + 1) + f)
      BY <1>2, <3>1, PartsPut
    <3>5. FracSize * (g + 1) + f = c
      BY <1>1, <1>3, <3>1 DEF f, g
    <3> QED BY <3>2, <3>3, <3>4, <3>5
  <2>2. CASE t = 2 * FracSize
    <3>1. t = FracSize * 2 + 0 /\ t \in Int /\ 2 \in Int /\ 0 \in 0..FracSize - 1
      BY <1>1, <2>2
    <3>2. t % FracSize = 0
      BY <1>1, <3>1, Quotient
    <3>3. e + Bias - 1 = g + 2
      BY <1>2, <2>2
    <3>4. Or(Bin(0), Shl(Bin(g + 2), FRAC)) = Bin(FracSize * (g + 2) + 0)
      BY <1>2, <3>1, PartsPut
    <3>5. FracSize * (g + 2) + 0 = c
      BY <1>1, <1>3, <2>2 DEF g
    <3> QED BY <3>2, <3>3, <3>4, <3>5
  <2> QED BY <1>1, <2>1, <2>2
<1>6. b + Bias - 2 \in Nat
  BY <1>2 DEF g
<1> QED BY <1>3, <1>4, <1>5, <1>6 DEF e

\* The quotient q of n and 2 * h, rounded up when more than one half is lost, or
\* one half of an odd one.
Rounded(n, h, q) == q + (IF (n \div h) % 2 = 1 /\ (n % h # 0 \/ q % 2 = 1) THEN 1 ELSE 0)

\* A number of the units of u is n; cut at d and rounded to nearest, the even one
\* if there are two.
LEMMA RoundedTo ==
    ASSUME NEW n \in Nat, NEW h \in Nat \ {0}, NEW u \in Nat \ {0}, NEW g \in Nat,
           NEW d \in Nat \ {0}, d = h * 2, Power[g] = d * u,
           n \div d \in FracSize..2 * FracSize - 1, FracSize * g + (n \div d) < Infinity
    PROVE  Nearest(n * u) = FracSize * g + Rounded(n, h, n \div d)
<1> DEFINE q == n \div d
           r == n % d
           lo == FracSize * g + q
           up == (n \div h) % 2 = 1 /\ (n % h # 0 \/ q % 2 = 1)
<1>1. d \in Nat \ {0} /\ n \in Int /\ FracSize \in Nat \ {0} /\ FracSize * g \in Nat
  BY FloatSizes
<1>2. q \in Nat /\ r \in 0..d - 1 /\ n = d * q + r /\ q % 2 \in 0..1
  <2>1. q \in Nat /\ r \in 0..d - 1 /\ n = d * q + r
    BY <1>1, Below
  <2> HIDE DEF q
  <2> QED BY <2>1
<1>3. up <=> r > h \/ (r = h /\ q % 2 = 1)
  <2>1. ((n \div h) % 2 = 1 <=> r >= h) /\ (n % h # 0 <=> r # 0 /\ r # h)
    BY CutAt
  <2> HIDE DEF r, q
  <2> QED BY <1>1, <1>2, <2>1
<1> HIDE DEF up
<1>4. lo \in 0..Infinity - 1 /\ q \in FracSize..2 * FracSize /\ q + 1 \in FracSize..2 * FracSize
      /\ lo + 1 = FracSize * g + (q + 1)
  <2>1. q \in FracSize..2 * FracSize - 1 /\ lo < Infinity
    OBVIOUS
  <2>2. Infinity \in Nat
    <3>1. Infinity = (ExpSize - 1) * FracSize /\ ExpSize - 1 \in Nat
      BY FloatSizes
    <3>2. \A a, b \in Nat : a * b \in Nat
      OBVIOUS
    <3> QED BY <1>1, <3>1, <3>2
  <2> HIDE DEF q, FracSize, Infinity
  <2> QED BY <1>1, <1>2, <2>1, <2>2
<1>5. Magnitude(lo) = q * (d * u) /\ Magnitude(lo + 1) = (q + 1) * (d * u)
  <2>1. Magnitude(FracSize * g + q) = q * Power[g]
    BY <1>4, Significand
  <2>2. Magnitude(FracSize * g + (q + 1)) = (q + 1) * Power[g]
    BY <1>4, Significand
  <2> HIDE DEF q
  <2> QED BY <1>4, <2>1, <2>2
<1>6. lo % 2 = q % 2
  <2>1. PICK k \in Nat \ {0} : FracSize = 2 * k
    BY FloatSizes
  <2> DEFINE a == q \div 2
             c == q % 2
  <2>2. a \in Int /\ c \in 0..2 - 1 /\ q = 2 * a + c
    <3> HIDE DEF q
    <3>1. 2 \in Nat \ {0} /\ q \in Int
      BY <1>2
    <3> QED BY <3>1, Divide
  <2> HIDE DEF a, c
  <2>3. lo = 2 * (k * g + a) + c /\ k * g + a \in Int /\ lo \in Int
    <3>1. FracSize * g = 2 * (k * g) /\ k * g \in Int
      BY <2>1
    <3> HIDE DEF q
    <3> QED BY <2>2, <3>1
  <2>4. lo % 2 = c
    <3> DEFINE b == k * g + a
    <3> HIDE DEF b, lo
    <3>1. lo = 2 * b + c /\ b \in Int /\ lo \in Int /\ 2 \in Nat \ {0}
      BY <2>3 DEF b
    <3> QED BY <2>2, <3>1, Quotient
  <2> QED BY <2>4 DEF c
<1> HIDE DEF q, r
<1>7. n * u = q * (d * u) + r * u /\ (q + 1) * (d * u) = q * (d * u) + d * u
      /\ q * (d * u) \in Nat /\ r * u \in Nat /\ d * u \in Nat /\ n * u \in Nat
  <2>1. r \in Nat
    BY <1>1, <1>2
  <2>2. \A a, b \in Nat : a * b \in Nat
    OBVIOUS
  <2>3. d * u \in Nat /\ r * u \in Nat /\ n * u \in Nat
    BY <1>1, <2>1, <2>2
  <2>4. q * (d * u) \in Nat
    BY <1>2, <2>2, <2>3
  <2>5. \A i, j, k, m \in Nat : (i * j + k) * m = j * (i * m) + k * m
    OBVIOUS
  <2>6. (d * q + r) * u = q * (d * u) + r * u
    BY <1>1, <1>2, <2>1, <2>5
  <2>7. \A a, b \in Nat : (a + 1) * b = a * b + b
    OBVIOUS
  <2> QED BY <1>2, <2>3, <2>4, <2>6, <2>7
\* What is compared are r and the rest of d.
<1>8. r * u < d * u
      /\ (r * u < d * u - r * u <=> r < h) /\ (r * u = d * u - r * u <=> r = h)
  <2>1. \A a, b \in Nat : a < b => a * u < b * u
    OBVIOUS
  <2>2. r \in Nat /\ d \in Nat /\ r < d
    BY <1>1, <1>2
  <2>3. d * u = h * u + h * u /\ h * u \in Nat
    OBVIOUS
  <2>4. r < h => r * u < h * u
    BY <2>1, <2>2
  <2>5. h < r => h * u < r * u
    BY <2>1, <2>2
  <2>6. r = h => r * u = h * u
    OBVIOUS
  <2>7. r * u < d * u
    BY <2>1, <2>2
  <2>8. r < h \/ r = h \/ h < r
    BY <2>2
  <2> QED BY <1>7, <2>3, <2>4, <2>5, <2>6, <2>7, <2>8
<1> HIDE DEF lo
<1>9. Nearest(n * u) = IF \/ n * u - Magnitude(lo) < Magnitude(lo + 1) - n * u
                          \/ n * u - Magnitude(lo) = Magnitude(lo + 1) - n * u /\ lo % 2 = 0
                       THEN lo ELSE lo + 1
  <2> DEFINE m == n * u
  <2>1. m \in Nat /\ Magnitude(lo) <= m /\ m < Magnitude(lo + 1)
    BY <1>5, <1>7, <1>8
  <2> HIDE DEF m
  <2>2. Nearest(m) = IF \/ m - Magnitude(lo) < Magnitude(lo + 1) - m
                        \/ m - Magnitude(lo) = Magnitude(lo + 1) - m /\ lo % 2 = 0
                     THEN lo ELSE lo + 1
    BY <1>4, <2>1, NearestIs
  <2> QED BY <2>2 DEF m
<1>10. n * u - Magnitude(lo) = r * u /\ Magnitude(lo + 1) - n * u = d * u - r * u
  BY <1>5, <1>7
<1>11. Nearest(n * u) = IF r < h \/ (r = h /\ q % 2 = 0) THEN lo ELSE lo + 1
  BY <1>6, <1>8, <1>9, <1>10
<1>12. Nearest(n * u) = lo + (IF up THEN 1 ELSE 0)
  <2>1. r \in Nat /\ lo \in Nat
    BY <1>1, <1>2, <1>4
  <2>2. r < h \/ (r = h /\ q % 2 = 0) <=> ~up
    BY <1>2, <1>3, <2>1
  <2> QED BY <1>11, <2>1, <2>2
<1>13. lo + (IF up THEN 1 ELSE 0) = FracSize * g + (q + (IF up THEN 1 ELSE 0))
  BY <1>1, <1>2 DEF lo
<1> QED BY <1>12, <1>13 DEF q, up, Rounded

\* The number 1 in the units of the smallest float.
Unit == Power[Bias - 1 + FRAC]

\* The digits that are kept of a number of b digits, and the exponent they get.
LEMMA FewDigits ==
    ASSUME NEW n \in Nat, NEW b \in 1..W, 2^(b - 1) <= n, n < 2^b, b <= FRAC + 1
    PROVE  LET t == n * 2^(FRAC + 1 - b)
           IN t \in FracSize..2 * FracSize - 1 /\ Nearest(n * Unit) = FracSize * (b + Bias - 2) + t
<1> DEFINE s == FRAC + 1 - b
           p == 2^s
           g == b + Bias - 2
           t == n * p
<1>1. /\ FRAC \in 2..W - 3 /\ FracSize \in Nat \ {0} /\ Bias \in Nat \ {0}
      /\ s \in Nat /\ s \in 0..W /\ b - 1 \in 0..W /\ b \in 0..W /\ (b - 1) + s = FRAC /\ b + s = FRAC + 1
      /\ s \in 0..W - (b - 1) /\ s \in 0..W - b /\ FRAC \in 0..W - 1
      /\ g + s = Bias - 1 + FRAC
  BY FloatSizes
<1>2. p \in Nat \ {0} /\ 2^(b - 1) * p = FracSize /\ 2^b * p = 2 * FracSize /\ 2^(b - 1) \in Nat /\ 2^b \in Nat
  <2>1. 2^((b - 1) + s) = 2^(b - 1) * 2^s /\ 2^(b + s) = 2^b * 2^s
    BY <1>1, PowerSum
  <2>2. 2^(FRAC + 1) = 2 * 2^FRAC /\ 2^s \in Nat \ {0} /\ 2^(b - 1) \in Nat /\ 2^b \in Nat
    BY <1>1, Twice
  <2> QED BY <1>1, <2>1, <2>2 DEF FracSize
<1>3. t \in FracSize..2 * FracSize - 1
  <2> DEFINE x == 2^(b - 1)
             y == 2^b
  <2>1. x \in Nat /\ y \in Nat /\ x <= n /\ n < y /\ x * p = FracSize /\ y * p = 2 * FracSize
    BY <1>2
  <2> HIDE DEF x, y, p, FracSize
  <2>2. \A i, j \in Nat : (i <= j => i * p <= j * p) /\ (i < j => i * p < j * p) /\ i * p \in Nat
    BY <1>2
  <2>3. FracSize <= t /\ t < 2 * FracSize /\ t \in Nat
    BY <2>1, <2>2
  <2> QED BY <1>1, <2>3
<1>4. g \in Nat /\ FracSize * g + t \in 0..Infinity - 1
  <2>1. t \in FracSize..2 * FracSize /\ t < 2 * FracSize
    BY <1>1, <1>3
  <2> HIDE DEF t
  <2>2. g \in Nat /\ FracSize * g + t \in 0..Infinity /\ FracSize * g + t < Infinity /\ Infinity \in Nat
    BY <2>1, CodeOf
  <2> HIDE DEF g
  <2> QED BY <2>2
<1>5. Unit = p * Power[g] /\ Power[g] \in Nat
  <2>1. Power[g + s] = 2^s * Power[g]
    BY <1>1, <1>4, PowerAdds
  <2> QED BY <1>1, <1>4, <2>1, PowerIs DEF Unit
<1>6. n * Unit = Magnitude(FracSize * g + t)
  <2>1. t \in FracSize..2 * FracSize
    BY <1>1, <1>3
  <2>2. Magnitude(FracSize * g + t) = t * Power[g]
    <3> HIDE DEF t, g
    <3> QED BY <1>4, <2>1, Significand
  <2>3. n * (p * Power[g]) = (n * p) * Power[g]
    <3> HIDE DEF p, g
    <3> QED BY <1>2, <1>5
  <2> QED BY <1>5, <2>2, <2>3
<1>7. Nearest(n * Unit) = FracSize * g + t
  <2> HIDE DEF g, t
  <2> QED BY <1>4, <1>6, NearestSame
<1> QED BY <1>3, <1>7

LEMMA ManyDigits ==
    ASSUME NEW n \in 0..WordSize - 1, NEW b \in 1..W, 2^(b - 1) <= n, n < 2^b, b > FRAC + 1
    PROVE  \E t \in FracSize..2 * FracSize :
              /\ RoundOff(Bin(n), b - (FRAC + 2)) = Bin(t)
              /\ Nearest(n * Unit) = FracSize * (b + Bias - 2) + t
<1> DEFINE k == b - (FRAC + 2)
           h == 2^k
           d == 2^(k + 1)
           q == n \div d
           g == b + Bias - 2
           up == (n \div h) % 2 = 1 /\ (n % h # 0 \/ q % 2 = 1)
           t == q + (IF up THEN 1 ELSE 0)
           e == Bias - 1 + FRAC
<1>1. /\ FRAC \in 2..W - 3 /\ FracSize \in Nat \ {0} /\ Bias \in Nat \ {0} /\ n \in Nat
      /\ k \in 0..W - 2 /\ k \in 0..W - 1 /\ k \in 0..W /\ k + 1 \in 0..W
      /\ FRAC + (k + 1) = b - 1 /\ (FRAC + 1) + (k + 1) = b /\ FRAC \in 0..W /\ FRAC \in 0..W - 1 /\ FRAC + 1 \in 0..W
      /\ k + 1 \in 0..W - FRAC /\ k + 1 \in 0..W - (FRAC + 1)
      /\ e \in Nat /\ e + (k + 1) = g /\ WordSize \in Nat
  BY FloatSizes, Sizes
<1>2. /\ h \in Nat \ {0} /\ d \in Nat \ {0} /\ d = h * 2
      /\ 2^(b - 1) = FracSize * d /\ 2^b = (2 * FracSize) * d
  <2>1. 2^(FRAC + (k + 1)) = 2^FRAC * 2^(k + 1) /\ 2^((FRAC + 1) + (k + 1)) = 2^(FRAC + 1) * 2^(k + 1)
    BY <1>1, PowerSum
  <2>2. 2^k \in Nat \ {0} /\ 2^(k + 1) \in Nat \ {0} /\ 2^(k + 1) = 2 * 2^k /\ 2^(FRAC + 1) = 2 * 2^FRAC
    BY <1>1, Twice
  <2> QED BY <1>1, <2>1, <2>2 DEF FracSize
<1> HIDE DEF h, d
<1>3. q \in FracSize..2 * FracSize - 1
  <2>1. q \in Nat /\ n % d \in 0..d - 1 /\ n = d * q + (n % d)
    BY <1>1, <1>2, Below
  <2> HIDE DEF q, FracSize
  <2>2. FracSize * d <= n /\ n < (2 * FracSize) * d
    BY <1>2
  <2>3. ASSUME q < FracSize PROVE FALSE
    <3>1. \A i, j \in Nat : i + 1 <= j => i * d + d <= j * d
      <4> SUFFICES ASSUME NEW i \in Nat, NEW j \in Nat, i + 1 <= j PROVE i * d + d <= j * d
        OBVIOUS
      <4>1. (i + 1) * d <= j * d
        BY <1>2
      <4>2. (i + 1) * d = i * d + d
        BY <1>2
      <4> QED BY <4>1, <4>2
    <3>2. q + 1 <= FracSize
      BY <1>1, <2>1, <2>3
    <3>3. q * d + d <= FracSize * d /\ d * q = q * d /\ q * d \in Nat /\ FracSize * d \in Nat
      BY <1>1, <1>2, <2>1, <3>1, <3>2
    <3> QED BY <1>1, <1>2, <2>1, <2>2, <3>3
  <2>4. ASSUME q >= 2 * FracSize PROVE FALSE
    <3>1. (2 * FracSize) * d <= q * d /\ d * q = q * d /\ q * d \in Nat /\ (2 * FracSize) * d \in Nat
      BY <1>1, <1>2, <2>1, <2>4
    <3> QED BY <1>1, <1>2, <2>1, <2>2, <3>1
  <2> QED BY <1>1, <2>1, <2>3, <2>4
<1>4. FracSize * g + q < Infinity /\ g \in Nat
  <2>1. q \in FracSize..2 * FracSize /\ q < 2 * FracSize
    BY <1>1, <1>3
  <2> HIDE DEF q
  <2> QED BY <2>1, CodeOf
<1>5. Power[g] = d * Unit /\ Unit \in Nat \ {0}
  <2>1. Power[e + (k + 1)] = 2^(k + 1) * Power[e]
    BY <1>1, PowerAdds
  <2> QED BY <1>1, <1>2, <2>1, PowerIs DEF Unit, d
<1>6. Nearest(n * Unit) = FracSize * g + t
  <2> HIDE DEF g
  <2> DEFINE u == Unit
  <2>1. u \in Nat \ {0} /\ Power[g] = d * u /\ n \div d \in FracSize..2 * FracSize - 1
        /\ FracSize * g + (n \div d) < Infinity
    BY <1>3, <1>4, <1>5
  <2> HIDE DEF u
  <2>2. Nearest(n * u) = FracSize * g + Rounded(n, h, n \div d)
    BY <1>1, <1>2, <1>4, <2>1, RoundedTo
  <2> QED BY <2>2, Zenon DEF u, Rounded
<1>7. RoundOff(Bin(n), k) = Bin(t)
  BY <1>1, RoundOffIs DEF h, d
<1>8. t \in FracSize..2 * FracSize
  <2> HIDE DEF q, up
  <2> QED BY <1>1, <1>3
<1> HIDE DEF t, g, k
<1> QED BY <1>6, <1>7, <1>8 DEF g, k

\* float_i2f: every int becomes the float next to it, the even one of two.
THEOREM FloatI2fRight == \A x \in Word : float_i2f(x) = test_float_i2f(x)
<1> SUFFICES ASSUME NEW x \in Word PROVE float_i2f(x) = test_float_i2f(x)
  OBVIOUS
<1> DEFINE v == Signed(x)
           neg == v < 0
           n == IF neg THEN -v ELSE v
           ab == IF neg THEN Add(Not(x), One) ELSE x
           b == Digits(ab)
           s == FRAC + 1 - b
           lossy == s < 0
           f == IF lossy THEN RoundOff(ab, b - (FRAC + 2)) ELSE ab
           digits == IF b = 0 THEN 1 - Bias
                     ELSE IF lossy /\ Shr(f, FRAC + 1) # Zero THEN b + 1 ELSE b
           frac == And(Shl(f, IF lossy THEN 0 ELSE s), FracMask)
           exps == Shl(Bin(digits + Bias - 1), FRAC)
           code == Nearest(n * Unit)
<1>1. v \in Ints /\ v \in Int /\ x = Bin(v) /\ n \in 0..HalfSize /\ n \in 0..WordSize - 1 /\ n \in Nat
  <2>1. v \in Ints /\ v \in Int /\ x = Bin(v)
    BY IntOf
  <2> HIDE DEF v
  <2>2. HalfSize \in Nat \ {0} /\ WordSize = 2 * HalfSize /\ v \in -HalfSize..HalfSize - 1
    BY <2>1, Sizes DEF Ints
  <2> QED BY <2>1, <2>2
<1>2. (Sar(x, W - 1) # Zero) = neg
  <2>1. Sar(x, W - 1) = Bin(IF neg THEN -1 ELSE 0)
    BY SignWord
  <2>2. Bin(-1) # Zero
    <3>1. 0 \in BitNos
      BY DEF BitNos
    <3>2. Bin(-1)[0] /\ ~Zero[0]
      BY <3>1, AllOnes, ZeroOne
    <3> QED BY <3>2
  <2> HIDE DEF v
  <2> QED BY <2>1, <2>2 DEF Zero
<1>3. ab = Bin(n)
  <2>1. CASE neg
    <3>1. Add(Not(Bin(v)), One) = Bin((-v - 1) + 1)
      <4>1. Not(Bin(v)) = Bin(-v - 1)
        BY <1>1, NotNumber
      <4>2. -v - 1 \in Int /\ 1 \in Int
        BY <1>1
      <4> QED BY <4>1, <4>2, AddNumbers DEF One
    <3>2. (-v - 1) + 1 = -v
      BY <1>1
    <3> HIDE DEF v
    <3> QED BY <1>1, <2>1, <3>1, <3>2
  <2>2. CASE ~neg
    BY <1>1, <2>2
  <2> QED BY <2>1, <2>2
<1>4. float_i2f(x) = Or(Or(SignBit(neg), frac), exps)
  <2> HIDE DEF v
  <2>1. float_i2f(x) = LET nn == Sar(x, W - 1) # Zero
                           aa == IF nn THEN Add(Not(x), One) ELSE x
                           bb == Digits(aa)
                           ss == FRAC + 1 - bb
                           ll == ss < 0
                           ff == IF ll THEN RoundOff(aa, bb - (FRAC + 2)) ELSE aa
                           dd == IF bb = 0 THEN 1 - Bias
                                 ELSE IF ll /\ Shr(ff, FRAC + 1) # Zero THEN bb + 1 ELSE bb
                           rr == And(Shl(ff, IF ll THEN 0 ELSE ss), FracMask)
                       IN Or(Or(IF nn THEN SignMask ELSE Zero, rr), Shl(Bin(dd + Bias - 1), FRAC))
    BY Zenon DEF float_i2f
  <2> QED BY <1>2, <2>1, Zenon DEF SignBit
<1>5. test_float_i2f(x) = Float(neg, code)
  BY Zenon DEF test_float_i2f, Unit
<1> HIDE DEF v, ab, f, digits, frac, exps, code
<1>6. Or(Or(SignBit(neg), frac), exps) = Or(SignBit(neg), Or(frac, exps))
  <2> DEFINE l == Or(Or(SignBit(neg), frac), exps)
             r == Or(SignBit(neg), Or(frac, exps))
  <2>1. \A k \in BitNos : l[k] = r[k]
    BY DEF Or, BitNos
  <2>2. l = [k \in BitNos |-> l[k]] /\ r = [k \in BitNos |-> r[k]]
    BY DEF Or, BitNos
  <2> HIDE DEF l, r
  <2>3. l = r
    BY <2>1, <2>2
  <2> QED BY <2>3 DEF l, r
<1>7. /\ FRAC \in 2..W - 3 /\ FracSize \in Nat \ {0} /\ Bias \in Nat \ {0} /\ Infinity \in Nat /\ Infinity < HalfSize
      /\ HalfSize \in Nat /\ FRAC \in 0..W - 1 /\ FRAC + 1 \in 0..W - 1 /\ 0 \in 0..W - 1
      /\ 2^(FRAC + 1) = 2 * FracSize /\ 2 * FracSize \in Nat \ {0}
  <2>1. FRAC \in 2..W - 3 /\ FracSize \in Nat \ {0} /\ Bias \in Nat \ {0}
    BY FloatSizes
  <2>2. FRAC \in 0..W - 1 /\ FRAC + 1 \in 0..W - 1 /\ 0 \in 0..W - 1
    BY <2>1
  <2>3. 2^(FRAC + 1) = 2 * FracSize
    BY <2>2, Twice DEF FracSize
  <2> QED BY <2>1, <2>2, <2>3, Infinite, Sizes
<1>8. /\ b \in 0..W /\ (b = 0 <=> n = 0)
      /\ b # 0 => 2^(b - 1) <= n /\ n < 2^b
  BY <1>1, <1>3, DigitsAre
<1> HIDE DEF b
\* A significand t, of which the fraction and the exponent are taken.
<1>9. ASSUME NEW t \in FracSize..2 * FracSize, b # 0, frac = Bin(t % FracSize),
             digits = (IF t = 2 * FracSize THEN b + 1 ELSE b), code = FracSize * (b + Bias - 2) + t
      PROVE  Or(frac, exps) = Bin(code) /\ code \in 0..HalfSize - 1
  <2>1. b \in 1..W
    BY <1>8, <1>9
  <2>2. /\ Or(Bin(t % FracSize), Shl(Bin(digits + Bias - 1), FRAC)) = Bin(code)
        /\ code \in 0..Infinity
    BY <1>9, <2>1, CodeOf
  <2> QED BY <1>7, <1>9, <2>2 DEF exps
<1>10. Or(frac, exps) = Bin(code) /\ code \in 0..HalfSize - 1
  <2>1. CASE b = 0
    <3>1. n = 0 /\ ~lossy /\ s = FRAC + 1 /\ s \in 0..W - 1
      BY <1>7, <1>8, <2>1
    <3>2. f = Bin(0)
      BY <1>3, <3>1 DEF f
    <3>3. frac = Bin(0)
      <4>1. Shl(Bin(0), s) = Bin(0)
        <5>1. \A k \in BitNos : k >= s => k - s \in BitNos
          BY <3>1 DEF BitNos
        <5> HIDE DEF s
        <5>2. \A k \in BitNos : (k >= s /\ Zero[k - s]) = FALSE
          BY <5>1, ZeroOne
        <5>3. Shl(Zero, s) = Zero
          BY <5>2, ZeroOne DEF Shl, BitNos
        <5> QED BY <5>3 DEF Zero
      <4>3. And(Bin(0), FracMask) = Bin(0 % FracSize)
        BY FracTaken
      <4>4. 0 % FracSize = 0
        <5>1. 0 = FracSize * 0 + 0 /\ 0 \in 0..FracSize - 1 /\ 0 \in Int
          BY <1>7
        <5> QED BY <1>7, <5>1, Quotient
      <4> QED BY <3>1, <3>2, <4>1, <4>3, <4>4 DEF frac
    <3>4. exps = Shl(Bin(0), FRAC)
      <4>1. digits + Bias - 1 = 0
        BY <1>7, <2>1 DEF digits
      <4> QED BY <4>1 DEF exps
    <3>5. Or(Bin(0), Shl(Bin(0), FRAC)) = Bin(FracSize * 0 + 0) /\ FracSize * 0 + 0 = 0
      <4>1. 0 \in 0..FracSize - 1 /\ 0 \in Nat
        BY <1>7
      <4>2. FracSize * 0 + 0 = 0
        BY <1>7
      <4> QED BY <4>1, <4>2, PartsPut
    <3>6. code = 0
      <4>1. 0 \in 0..FracSize - 1 /\ 0 \in Nat /\ FracSize * 0 + 0 = 0
        BY <1>7
      <4>2. Magnitude(0) = 0
        BY <4>1, MagnitudeIs
      <4>3. Unit \in Nat /\ 0 * Unit = 0
        <5>1. Bias - 1 + FRAC \in Nat
          BY <1>7
        <5>2. Unit \in Nat
          BY <5>1, PowerIs DEF Unit
        <5> QED BY <5>2
      <4>4. 0 \in 0..Infinity - 1
        <5>1. Infinity = (ExpSize - 1) * FracSize /\ ExpSize - 1 \in Nat \ {0}
          BY FloatSizes
        <5>2. \A i, j \in Nat \ {0} : i * j \in Nat \ {0}
          OBVIOUS
        <5>3. (ExpSize - 1) * FracSize \in Nat \ {0}
          BY <1>7, <5>1, <5>2
        <5>4. Infinity \in Nat \ {0}
          BY <5>1, <5>3
        <5> QED BY <5>4
      <4>5. Nearest(Magnitude(0)) = 0
        BY <4>4, NearestSame
      <4> QED BY <3>1, <4>2, <4>3, <4>5 DEF code
    <3> QED BY <1>7, <3>3, <3>4, <3>5, <3>6
  <2>2. CASE b # 0 /\ ~lossy
    <3> DEFINE t == n * 2^s
    <3>1. b \in 1..W /\ b <= FRAC + 1 /\ s \in 0..W - 1
      BY <1>7, <1>8, <2>2
    <3>2. t \in FracSize..2 * FracSize - 1 /\ code = FracSize * (b + Bias - 2) + t
      BY <1>1, <1>8, <2>2, <3>1, FewDigits DEF code
    <3>3. f = Bin(n)
      BY <1>3, <2>2 DEF f
    <3>4. Shl(f, s) = Bin(t)
      BY <1>1, <3>1, <3>3, ShlNumber
    <3> HIDE DEF t
    <3>5. t \in FracSize..2 * FracSize /\ t # 2 * FracSize /\ t \in Int
      BY <1>7, <3>2
    <3>6. frac = Bin(t % FracSize)
      <4>1. And(Bin(t), FracMask) = Bin(t % FracSize)
        BY <3>5, FracTaken
      <4> QED BY <2>2, <3>4, <4>1 DEF frac
    <3>7. digits = b
      BY <2>2 DEF digits
    <3> QED BY <1>9, <2>2, <3>2, <3>5, <3>6, <3>7
  <2>3. CASE b # 0 /\ lossy
    <3>1. b \in 1..W /\ b > FRAC + 1
      BY <1>7, <1>8, <2>3
    <3>2. PICK t \in FracSize..2 * FracSize : /\ RoundOff(Bin(n), b - (FRAC + 2)) = Bin(t)
                                              /\ Nearest(n * Unit) = FracSize * (b + Bias - 2) + t
      BY <1>1, <1>8, <2>3, <3>1, ManyDigits
    <3>3. f = Bin(t) /\ code = FracSize * (b + Bias - 2) + t
      BY <1>3, <2>3, <3>2 DEF f, code
    <3>4. t \in Int /\ t \in Nat /\ t <= 2 * FracSize
      BY <1>7, <3>2
    <3>5. frac = Bin(t % FracSize)
      <4>1. Shl(Bin(t), 0) = Bin(t)
        <5>1. \A j \in 0..W - 1 : j = 0 => 2^j = 1
          OBVIOUS
        <5>2. \A j \in 0..W - 1 : j = 0 => Shl(Bin(t), j) = Bin(t * 1)
          BY <3>4, <5>1, ShlNumber
        <5>3. t * 1 = t
          BY <3>4
        <5> QED BY <1>7, <5>2, <5>3
      <4>2. And(Bin(t), FracMask) = Bin(t % FracSize)
        BY <3>4, FracTaken
      <4> QED BY <2>3, <3>3, <4>1, <4>2 DEF frac
    <3>6. Shr(f, FRAC + 1) # Zero <=> t = 2 * FracSize
      <4> DEFINE q == t \div (2 * FracSize)
      <4>1. 2 * FracSize <= HalfSize
        <5>1. HalfSize = FracSize * ExpSize /\ ExpSize = 2 * Bias + 2 /\ 2 \in Nat /\ ExpSize \in Nat
          BY FloatSizes
        <5>2. \A i, j, k \in Nat : j <= k => j * i <= i * k
          OBVIOUS
        <5> QED BY <1>7, <5>1, <5>2
      <4>2. Bin(t) \in Word /\ Unsigned(Bin(t)) = t
        <5>1. t = WordSize * 0 + t /\ t \in 0..WordSize - 1 /\ WordSize \in Nat \ {0} /\ 0 \in Int
          BY <1>7, <3>4, <4>1, Sizes
        <5>2. Bin(t) \in Word /\ Unsigned(Bin(t)) = t % WordSize
          BY <3>4, WordNumbers DEF WordSize
        <5>3. t % WordSize = t
          BY <3>4, <5>1, Quotient
        <5> QED BY <5>2, <5>3
      <4>3. Shr(f, FRAC + 1) = Bin(q)
        BY <1>7, <3>3, <4>2, ShrNumber
      <4>4. q \in Nat /\ q <= t /\ (q = 0 <=> t < 2 * FracSize)
        BY <1>7, <3>4, Below
      <4> HIDE DEF q
      <4>5. q \in Int /\ q > -WordSize /\ q < WordSize
        BY <1>7, <3>4, <4>1, <4>4, Sizes
      <4>6. Bin(q) = Zero <=> q = 0
        BY <4>5, IsZero
      <4> QED BY <1>7, <3>4, <4>3, <4>4, <4>6
    <3>7. digits = IF t = 2 * FracSize THEN b + 1 ELSE b
      BY <2>3, <3>6 DEF digits
    <3> QED BY <1>9, <2>3, <3>3, <3>5, <3>7
  <2> QED BY <2>1, <2>2, <2>3
<1>11. neg \in BOOLEAN
  OBVIOUS
<1> QED BY <1>4, <1>5, <1>6, <1>10, <1>11, SignPut

=============================================================================
