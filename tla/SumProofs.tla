----------------------------- MODULE SumProofs -----------------------------
(***************************************************************************)
(* Lemmas about sums over finite sets, from the definition of the folds    *)
(* that the driver of the allocator and the harness of the puzzles use.    *)
(***************************************************************************)
EXTENDS FiniteSetsExt, FiniteSetTheorems, WellFoundedInduction, TLAPS

\* The element that a fold takes away first.
Chosen(s) == CHOOSE x \in s : TRUE

\* The sums of w over all sets of elements of S.
Sums(S, w) == LET iter[s \in SUBSET S] ==
                    IF s = {} THEN 0
                    ELSE LET x == CHOOSE y \in s : TRUE
                         IN  iter[s \ {x}] + w[x]
              IN iter

\* f has the sum of every set of at most n elements.
SumsUpTo(f, S, w, n) ==
    /\ f \in [SUBSET S -> Nat]
    /\ \A s \in SUBSET S : Cardinality(s) <= n =>
            f[s] = IF s = {} THEN 0 ELSE f[s \ {Chosen(s)}] + w[Chosen(s)]

-----------------------------------------------------------------------------
(***************************************************************************)
(* Induction, over numbers and over finite sets.                           *)
(***************************************************************************)

\* A set of numbers has a least one.
LEMMA LeastNumber == ASSUME NEW T \in SUBSET Nat, T # {} PROVE \E x \in T : \A y \in T : x <= y
<1> DEFINE R == OpToRel(<, Nat)
<1>1. IsWellFoundedOn(R, Nat)
  BY NatLessThanWellFounded
<1>2. \A x, y \in Nat : x < y => <<x, y>> \in R
  BY DEF OpToRel
<1> HIDE DEF R
<1>3. PICK x \in T : \A y \in T : ~(<<y, x>> \in R)
  BY <1>1, WFMin
<1>4. \A y \in T : x \in Nat /\ y \in Nat /\ ~(y < x)
  BY <1>2, <1>3
<1>5. \A y \in T : x <= y
  BY <1>4
<1> QED BY <1>3, <1>5

\* A set of numbers with 0 and the successor of each of its members is Nat.
LEMMA AllNumbers == ASSUME NEW A \in SUBSET Nat, 0 \in A, \A n \in A : n + 1 \in A PROVE A = Nat
<1> SUFFICES ASSUME Nat \ A # {} PROVE FALSE
  OBVIOUS
<1>1. PICK n \in Nat \ A : \A m \in Nat \ A : n <= m
  <2>1. Nat \ A \in SUBSET Nat
    OBVIOUS
  <2> QED BY <2>1, LeastNumber
<1>2. n # 0 /\ n - 1 \in Nat /\ n - 1 \in A
  BY <1>1
<1>3. (n - 1) + 1 \in A
  BY <1>2
<1> QED BY <1>1, <1>3

\* A set of subsets that has a set whenever it has all that lack one of its
\* elements has them all.
LEMMA AllSets == ASSUME NEW S, IsFiniteSet(S), NEW G \in SUBSET SUBSET S,
                        \A s \in SUBSET S : (\A x \in s : s \ {x} \in G) => s \in G
                 PROVE  G = SUBSET S
<1> DEFINE A == {n \in Nat : \A s \in SUBSET S : Cardinality(s) = n => s \in G}
<1>1. \A s \in SUBSET S : IsFiniteSet(s) /\ Cardinality(s) \in Nat
  BY FS_Subset, FS_CardinalityType
<1>2. 0 \in A
  <2>1. \A s \in SUBSET S : Cardinality(s) = 0 => s = {}
    BY <1>1, FS_EmptySet
  <2>2. {} \in G
    OBVIOUS
  <2> QED BY <2>1, <2>2
<1>3. ASSUME NEW n \in A, NEW s \in SUBSET S, Cardinality(s) = n + 1 PROVE s \in G
  <2>1. ASSUME NEW x \in s PROVE s \ {x} \in G
    <3>1. Cardinality(s \ {x}) = Cardinality(s) - 1
      BY <1>1, FS_RemoveElement
    <3>2. n \in Nat /\ Cardinality(s \ {x}) = n
      BY <1>3, <3>1
    <3> QED BY <1>3, <3>2
  <2> QED BY <2>1
<1>4. A = Nat
  <2>1. \A n \in A : n + 1 \in A
    BY <1>3
  <2> HIDE DEF A
  <2>2. A \in SUBSET Nat
    BY DEF A
  <2> QED BY <1>2, <2>1, <2>2, AllNumbers
<1> QED BY <1>1, <1>4

-----------------------------------------------------------------------------
(***************************************************************************)
(* Sums.                                                                   *)
(***************************************************************************)

\* There are such sums.
LEMMA SumsExist == ASSUME NEW S, IsFiniteSet(S), NEW w \in [S -> Nat]
                   PROVE  \E f : SumsUpTo(f, S, w, Cardinality(S))
<1> DEFINE A == {n \in Nat : \E f : SumsUpTo(f, S, w, n)}
<1>1. \A s \in SUBSET S : IsFiniteSet(s) /\ Cardinality(s) \in Nat
  BY FS_Subset, FS_CardinalityType
<1>2. \A s \in SUBSET S : s # {} => Chosen(s) \in s /\ Chosen(s) \in S /\ w[Chosen(s)] \in Nat
  BY DEF Chosen
<1>3. 0 \in A
  <2>1. SumsUpTo([s \in SUBSET S |-> 0], S, w, 0)
    BY <1>1, FS_EmptySet DEF SumsUpTo
  <2> QED BY <2>1
<1>4. ASSUME NEW n \in A PROVE n + 1 \in A
  <2>1. PICK f : SumsUpTo(f, S, w, n)
    OBVIOUS
  <2> DEFINE g == [s \in SUBSET S |-> IF Cardinality(s) <= n THEN f[s]
                                      ELSE f[s \ {Chosen(s)}] + w[Chosen(s)]]
  <2>2. \A s \in SUBSET S : Cardinality(s) > n => s # {}
    BY FS_EmptySet
  <2>3. g \in [SUBSET S -> Nat]
    <3>1. ASSUME NEW s \in SUBSET S
          PROVE (IF Cardinality(s) <= n THEN f[s] ELSE f[s \ {Chosen(s)}] + w[Chosen(s)]) \in Nat
      BY <1>1, <1>2, <2>1, <2>2 DEF SumsUpTo
    <3> QED BY <3>1
  <2>4. ASSUME NEW s \in SUBSET S, Cardinality(s) <= n + 1
        PROVE  g[s] = IF s = {} THEN 0 ELSE g[s \ {Chosen(s)}] + w[Chosen(s)]
    <3>1. CASE s = {}
      <4>1. Cardinality(s) <= n
        BY <3>1, FS_EmptySet
      <4> QED BY <2>1, <3>1, <4>1 DEF SumsUpTo
    <3>2. CASE s # {}
      <4>1. Cardinality(s \ {Chosen(s)}) = Cardinality(s) - 1 /\ s \ {Chosen(s)} \in SUBSET S
        BY <1>1, <1>2, <3>2, FS_RemoveElement
      <4>2. Cardinality(s \ {Chosen(s)}) <= n
        BY <1>1, <2>4, <4>1
      <4>3. g[s \ {Chosen(s)}] = f[s \ {Chosen(s)}]
        BY <4>1, <4>2
      <4>4. g[s] = f[s \ {Chosen(s)}] + w[Chosen(s)]
        BY <2>1, <3>2 DEF SumsUpTo
      <4> QED BY <3>2, <4>3, <4>4
    <3> QED BY <3>1, <3>2
  <2> HIDE DEF g
  <2>5. SumsUpTo(g, S, w, n + 1)
    BY <2>3, <2>4 DEF SumsUpTo
  <2> QED BY <2>5
<1>5. A = Nat
  <2> HIDE DEF A
  <2>1. A \in SUBSET Nat
    BY DEF A
  <2> QED BY <1>3, <1>4, <2>1, AllNumbers
<1>6. Cardinality(S) \in A
  BY <1>1, <1>5
<1> QED BY <1>6

\* What the sums are: the definition's choices make them.
LEMMA SumsAre ==
    ASSUME NEW S, IsFiniteSet(S), NEW w \in [S -> Nat]
    PROVE  /\ Sums(S, w)[{}] = 0
           /\ \A s \in SUBSET S : s # {} => Sums(S, w)[s] = Sums(S, w)[s \ {Chosen(s)}] + w[Chosen(s)]
<1> DEFINE E(f) == [s \in SUBSET S |-> IF s = {} THEN 0
                                       ELSE LET x == CHOOSE y \in s : TRUE
                                            IN  f[s \ {x}] + w[x]]
<1>1. PICK f : SumsUpTo(f, S, w, Cardinality(S))
  BY SumsExist
<1>2. f = E(f)
  <2>1. \A s \in SUBSET S : Cardinality(s) <= Cardinality(S)
    BY FS_Subset
  <2>2. f = [s \in SUBSET S |-> f[s]]
    BY <1>1 DEF SumsUpTo
  <2>3. \A s \in SUBSET S : f[s] = IF s = {} THEN 0 ELSE f[s \ {Chosen(s)}] + w[Chosen(s)]
    BY <1>1, <2>1 DEF SumsUpTo
  <2>4. \A s \in SUBSET S : f[s] = IF s = {} THEN 0
                                   ELSE LET x == CHOOSE y \in s : TRUE
                                        IN  f[s \ {x}] + w[x]
    BY <2>3, Zenon DEF Chosen
  <2> QED BY <2>2, <2>4
<1>3. Sums(S, w) = E(Sums(S, w))
  <2>1. Sums(S, w) = CHOOSE g : g = E(g)
    BY Zenon DEF Sums
  <2> HIDE DEF E
  <2>2. \E g : g = E(g)
    BY <1>2
  <2> QED BY <2>1, <2>2, Zenon
<1>4. \A s \in SUBSET S : Sums(S, w)[s] = IF s = {} THEN 0 ELSE Sums(S, w)[s \ {Chosen(s)}] + w[Chosen(s)]
  <2> DEFINE F == Sums(S, w)
  <2>1. F = [s \in SUBSET S |-> IF s = {} THEN 0 ELSE F[s \ {Chosen(s)}] + w[Chosen(s)]]
    BY <1>3, Zenon DEF Chosen
  <2> DEFINE R == [s \in SUBSET S |-> IF s = {} THEN 0 ELSE F[s \ {Chosen(s)}] + w[Chosen(s)]]
  <2>2. \A s \in SUBSET S : R[s] = IF s = {} THEN 0 ELSE F[s \ {Chosen(s)}] + w[Chosen(s)]
    OBVIOUS
  <2>3. F = R
    BY <2>1
  <2> HIDE DEF R, F
  <2>4. \A s \in SUBSET S : F[s] = R[s]
    BY <2>3
  <2>5. \A s \in SUBSET S : F[s] = IF s = {} THEN 0 ELSE F[s \ {Chosen(s)}] + w[Chosen(s)]
    BY <2>2, <2>4
  <2> QED BY <2>5 DEF F
<1> QED BY <1>4
\* They are numbers, and any element may be taken away first.
LEMMA SumTakes ==
    ASSUME NEW S, IsFiniteSet(S), NEW w \in [S -> Nat]
    PROVE  /\ \A s \in SUBSET S : Sums(S, w)[s] \in Nat
           /\ \A s \in SUBSET S : \A x \in s : Sums(S, w)[s] = Sums(S, w)[s \ {x}] + w[x]
<1> DEFINE F == Sums(S, w)
           N == {s \in SUBSET S : F[s] \in Nat}
           G == {s \in SUBSET S : \A x \in s : F[s] = F[s \ {x}] + w[x]}
<1>1. F[{}] = 0 /\ \A s \in SUBSET S : s # {} => F[s] = F[s \ {Chosen(s)}] + w[Chosen(s)]
  BY SumsAre
<1> HIDE DEF F
<1>2. N = SUBSET S
  <2>1. ASSUME NEW s \in SUBSET S, \A x \in s : s \ {x} \in N PROVE s \in N
    <3>1. CASE s = {}
      BY <1>1, <3>1
    <3>2. CASE s # {}
      <4>1. Chosen(s) \in s /\ w[Chosen(s)] \in Nat /\ F[s] = F[s \ {Chosen(s)}] + w[Chosen(s)]
        BY <1>1, <3>2 DEF Chosen
      <4>2. F[s \ {Chosen(s)}] \in Nat
        BY <2>1, <4>1
      <4> QED BY <4>1, <4>2
    <3> QED BY <3>1, <3>2
  <2>2. N \in SUBSET SUBSET S
    OBVIOUS
  <2> HIDE DEF N
  <2> QED BY <2>1, <2>2, AllSets
<1>3. \A s \in SUBSET S : F[s] \in Nat
  BY <1>2
<1>4. ASSUME NEW s \in SUBSET S, \A x \in s : s \ {x} \in G, NEW x \in s
      PROVE  F[s] = F[s \ {x}] + w[x]
  <2> DEFINE c == Chosen(s)
             t == (s \ {x}) \ {c}
  <2>1. c \in s /\ F[s] = F[s \ {c}] + w[c]
    BY <1>1 DEF Chosen
  <2> HIDE DEF c
  <2>2. CASE x = c
    BY <2>1, <2>2
  <2>3. CASE x # c
    <3>1. t = (s \ {c}) \ {x} /\ x \in s \ {c} /\ c \in s \ {x}
      BY <2>1, <2>3
    <3>2. s \ {x} \in G /\ s \ {c} \in G
      BY <1>4, <2>1
    <3>3. F[s \ {x}] = F[t] + w[c] /\ F[s \ {c}] = F[t] + w[x]
      BY <3>1, <3>2
    <3>4. F[t] \in Nat /\ w[x] \in Nat /\ w[c] \in Nat
      BY <1>3, <2>1
    <3> HIDE DEF t
    <3> QED BY ONLY <2>1, <3>3, <3>4
  <2> QED BY <2>2, <2>3
<1>5. G = SUBSET S
  <2>1. \A s \in SUBSET S : (\A x \in s : s \ {x} \in G) => s \in G
    BY <1>4
  <2>2. G \in SUBSET SUBSET S
    OBVIOUS
  <2> HIDE DEF G
  <2> QED BY <2>1, <2>2, AllSets
<1> QED BY <1>3, <1>5 DEF F

\* A sum does not depend on what is not summed up.
LEMMA SumsAgree ==
    ASSUME NEW S, IsFiniteSet(S), NEW v \in [S -> Nat], NEW w \in [S -> Nat]
    PROVE  \A s \in SUBSET S : (\A x \in s : v[x] = w[x]) => Sums(S, v)[s] = Sums(S, w)[s]
<1> DEFINE V == Sums(S, v)  F == Sums(S, w)
           G == {s \in SUBSET S : (\A x \in s : v[x] = w[x]) => V[s] = F[s]}
<1>1. V[{}] = F[{}]
  BY SumsAre
<1>2. \A s \in SUBSET S : \A x \in s : V[s] = V[s \ {x}] + v[x] /\ F[s] = F[s \ {x}] + w[x]
  <2> HIDE DEF V, F
  <2>1. ASSUME NEW s \in SUBSET S, NEW x \in s PROVE V[s] = V[s \ {x}] + v[x]
    BY SumTakes DEF V
  <2>2. ASSUME NEW s \in SUBSET S, NEW x \in s PROVE F[s] = F[s \ {x}] + w[x]
    BY SumTakes DEF F
  <2> QED BY <2>1, <2>2
<1> HIDE DEF V, F
<1>3. ASSUME NEW s \in SUBSET S, \A x \in s : s \ {x} \in G PROVE s \in G
  <2>1. CASE s = {}
    BY <1>1, <2>1
  <2>2. CASE s # {}
    <3>1. PICK x \in s : TRUE
      BY <2>2
    <3>2. s \ {x} \in G
      BY <1>3
    <3>3. (\A y \in s : v[y] = w[y]) => V[s \ {x}] = F[s \ {x}] /\ v[x] = w[x]
      BY <3>2
    <3> QED BY <1>2, <3>3
  <2> QED BY <2>1, <2>2
<1>4. G = SUBSET S
  <2>1. G \in SUBSET SUBSET S
    OBVIOUS
  <2> HIDE DEF G
  <2> QED BY <1>3, <2>1, AllSets
<1> QED BY <1>4 DEF V, F

\* Nothing adds up to nothing.
LEMMA SumOfZeros ==
    ASSUME NEW S, IsFiniteSet(S), NEW w \in [S -> Nat], \A x \in S : w[x] = 0
    PROVE  Sums(S, w)[S] = 0
<1> DEFINE F == Sums(S, w)  G == {s \in SUBSET S : F[s] = 0}
<1>1. F[{}] = 0
  BY SumsAre
<1>2. ASSUME NEW s \in SUBSET S, NEW x \in s PROVE F[s] = F[s \ {x}] + w[x]
  BY SumTakes
<1> HIDE DEF F
<1>3. ASSUME NEW s \in SUBSET S, \A x \in s : s \ {x} \in G PROVE s \in G
  <2>1. CASE s = {}
    BY <1>1, <2>1
  <2>2. CASE s # {}
    <3>1. PICK x \in s : TRUE
      BY <2>2
    <3>2. F[s \ {x}] = 0 /\ w[x] = 0 /\ F[s] = F[s \ {x}] + w[x]
      BY <1>2, <1>3
    <3> QED BY <3>2
  <2> QED BY <2>1, <2>2
<1>4. G = SUBSET S
  <2>1. G \in SUBSET SUBSET S
    OBVIOUS
  <2>2. \A s \in SUBSET S : (\A x \in s : s \ {x} \in G) => s \in G
    BY <1>3
  <2> HIDE DEF G
  <2> QED BY <2>1, <2>2, AllSets
<1>5. S \in G
  BY <1>4
<1> QED BY <1>5 DEF F
=============================================================================
