----------------------------- MODULE HeapProofs -----------------------------
(***************************************************************************)
(* Proofs about the allocator of mm.c and the driver that runs it, for     *)
(* heaps of any size and traces of any length.                             *)
(***************************************************************************)
EXTENDS MDriver, SumProofs

USE UnitAssumption, MaxHeapAssumption

-----------------------------------------------------------------------------
(***************************************************************************)
(* Heaps as lists of segments.                                             *)
(***************************************************************************)
Header == [size: Nat, alloc: BOOLEAN, prev: Nat]
Heaps == [brk: Nat, seg: UNION {[D -> Header] : D \in SUBSET Nat}, tree: SUBSET (Nat \X Nat), ok: BOOLEAN]

End(h) == h.brk - 1

\* The segments lie one behind the other from the first to the last, sizes lead
\* forward and footers lead back.
ListOK(h) ==
    /\ h \in Heaps
    /\ FirstNode \in DOMAIN h.seg /\ h.seg[FirstNode].prev = NULL
    /\ End(h) \in DOMAIN h.seg /\ h.seg[End(h)].size = 0
    /\ \A a \in DOMAIN h.seg : FirstNode <= a /\ a <= End(h)
    /\ \A a \in DOMAIN h.seg \ {End(h)} :
        /\ 0 < h.seg[a].size
        /\ mm_get_next(h, a) \in DOMAIN h.seg /\ h.seg[mm_get_next(h, a)].prev = a
        /\ \A b \in DOMAIN h.seg : b <= a \/ mm_get_next(h, a) <= b
    /\ \A a \in DOMAIN h.seg \ {FirstNode} :
        h.seg[a].prev \in DOMAIN h.seg \ {End(h)} /\ mm_get_next(h, h.seg[a].prev) = a

\* What the parts of a heap are.
LEMMA HeapParts ==
    ASSUME NEW h \in Heaps
    PROVE  /\ h.brk \in Nat /\ h.ok \in BOOLEAN /\ h.tree \in SUBSET (Nat \X Nat)
           /\ DOMAIN h.seg \in SUBSET Nat /\ h.seg \in [DOMAIN h.seg -> Header]
           /\ \A a \in DOMAIN h.seg : /\ a \in Nat /\ h.seg[a] \in Header
                                      /\ h.seg[a].size \in Nat /\ h.seg[a].alloc \in BOOLEAN
                                      /\ h.seg[a].prev \in Nat
<1>1. h.brk \in Nat /\ h.ok \in BOOLEAN /\ h.tree \in SUBSET (Nat \X Nat)
      /\ h.seg \in UNION {[D -> Header] : D \in SUBSET Nat}
  BY DEF Heaps
<1>2. PICK D \in SUBSET Nat : h.seg \in [D -> Header]
  BY <1>1
<1>3. DOMAIN h.seg = D
  BY <1>2
<1> QED BY <1>1, <1>2, <1>3 DEF Header

\* A heap with other segments.
LEMMA NewSegments ==
    ASSUME NEW h \in Heaps, NEW D \in SUBSET Nat, NEW f \in [D -> Header], NEW g, g = [h EXCEPT !.seg = f]
    PROVE  g \in Heaps /\ g.seg = f /\ g.brk = h.brk /\ g.tree = h.tree /\ g.ok = h.ok
<1>1. f \in UNION {[E -> Header] : E \in SUBSET Nat}
  OBVIOUS
<1> QED BY <1>1 DEF Heaps

\* A heap with another tree.
LEMMA NewTree ==
    ASSUME NEW h \in Heaps, NEW t \in SUBSET (Nat \X Nat), NEW g, g = [h EXCEPT !.tree = t]
    PROVE  g \in Heaps /\ g.seg = h.seg /\ g.brk = h.brk /\ g.tree = t /\ g.ok = h.ok
  BY DEF Heaps

\* A segment is cut in two.
LEMMA Split ==
    ASSUME NEW h, ListOK(h), NEW g \in Heaps, g.brk = h.brk,
           NEW now \in DOMAIN h.seg \ {End(h)}, NEW size \in Nat \ {0}, size < h.seg[now].size,
           DOMAIN g.seg = DOMAIN h.seg \cup {now + size},
           g.seg[now + size].size = h.seg[now].size - size, g.seg[now + size].prev = now,
           g.seg[now].size = size, g.seg[now].prev = h.seg[now].prev,
           g.seg[mm_get_next(h, now)].prev = now + size,
           g.seg[mm_get_next(h, now)].size = h.seg[mm_get_next(h, now)].size,
           \A x \in DOMAIN h.seg \ {now, mm_get_next(h, now)} : g.seg[x] = h.seg[x]
    PROVE  ListOK(g) /\ now + size \notin DOMAIN h.seg
<1> USE DEF mm_get_next
<1> DEFINE D == DOMAIN h.seg  next == now + size  end == now + h.seg[now].size
<1>0. h \in Heaps
  BY DEF ListOK
<1>1. /\ \A a \in D : a \in Nat /\ h.seg[a].size \in Nat /\ h.seg[a].prev \in Nat
      /\ now \in D /\ h.brk \in Nat
  BY <1>0, HeapParts
<1>2. /\ FirstNode \in D /\ h.seg[FirstNode].prev = NULL
      /\ End(h) \in D /\ h.seg[End(h)].size = 0
      /\ \A a \in D : FirstNode <= a /\ a <= End(h)
      /\ \A a \in D \ {End(h)} :
            /\ 0 < h.seg[a].size /\ a + h.seg[a].size \in D /\ h.seg[a + h.seg[a].size].prev = a
            /\ \A b \in D : b <= a \/ a + h.seg[a].size <= b
      /\ \A a \in D \ {FirstNode} : h.seg[a].prev \in D \ {End(h)} /\ h.seg[a].prev + h.seg[h.seg[a].prev].size = a
  BY DEF ListOK
<1>3. now \in D /\ end \in D /\ next \notin D /\ now < next /\ next < end /\ next \in Nat
      /\ End(g) = End(h) /\ end # now /\ next # End(h) /\ next # FirstNode /\ end # FirstNode
  BY <1>1, <1>2 DEF End, FirstNode
<1>4. /\ DOMAIN g.seg = D \cup {next} /\ g.seg[next].size = end - next /\ g.seg[next].prev = now
      /\ g.seg[now].size = size /\ g.seg[now].prev = h.seg[now].prev
      /\ g.seg[end].prev = next /\ g.seg[end].size = h.seg[end].size
      /\ \A x \in D \ {now, end} : g.seg[x] = h.seg[x]
  BY <1>1, <1>3
<1> HIDE DEF D, next, end
<1>5. \A x \in D : /\ x # now => g.seg[x].size = h.seg[x].size
                   /\ x # end => g.seg[x].prev = h.seg[x].prev
  BY <1>4
<1>6. FirstNode \in DOMAIN g.seg /\ g.seg[FirstNode].prev = NULL
      /\ End(g) \in DOMAIN g.seg /\ g.seg[End(g)].size = 0
      /\ \A a \in DOMAIN g.seg : FirstNode <= a /\ a <= End(g)
  <2>1. FirstNode <= next /\ next <= End(h)
    BY <1>1, <1>2, <1>3 DEF FirstNode, End
  <2> QED BY <1>2, <1>3, <1>4, <1>5, <2>1 DEF D
<1>7. ASSUME NEW a \in DOMAIN g.seg \ {End(g)}
      PROVE  /\ 0 < g.seg[a].size /\ a + g.seg[a].size \in DOMAIN g.seg
             /\ g.seg[a + g.seg[a].size].prev = a
             /\ \A b \in DOMAIN g.seg : b <= a \/ a + g.seg[a].size <= b
  <2>1. CASE a = now
    <3>1. a + g.seg[a].size = next
      BY <1>4, <2>1 DEF next
    <3>2. \A b \in D : b <= now \/ end <= b
      BY <1>2, <1>3 DEF end, D
    <3> QED BY <1>1, <1>3, <1>4, <2>1, <3>1, <3>2
  <2>2. CASE a = next
    <3>1. a + g.seg[a].size = end /\ 0 < g.seg[a].size
      BY <1>1, <1>3, <1>4, <2>2
    <3>2. \A b \in D : b <= now \/ end <= b
      BY <1>2, <1>3 DEF end, D
    <3> QED BY <1>1, <1>3, <1>4, <2>2, <3>1, <3>2
  <2>3. CASE a # now /\ a # next
    <3>1. a \in D \ {End(h)} /\ g.seg[a].size = h.seg[a].size
      BY <1>3, <1>4, <1>5, <2>3
    <3>2. a + h.seg[a].size \in D /\ h.seg[a + h.seg[a].size].prev = a /\ 0 < h.seg[a].size
          /\ \A b \in D : b <= a \/ a + h.seg[a].size <= b
      BY <1>2, <3>1
    <3>3. a + h.seg[a].size # end
      <4>1. h.seg[end].prev = now
        BY <1>2, <1>3 DEF end, D
      <4> QED BY <2>3, <3>2, <4>1
    <3>4. next <= a \/ a + h.seg[a].size <= next
      <4>1. (now <= a \/ a + h.seg[a].size <= now) /\ (a <= now \/ end <= a)
        BY <1>2, <1>3, <3>1, <3>2 DEF end, D
      <4> QED BY <1>1, <1>3, <2>3, <3>1, <4>1
    <3> QED BY <1>3, <1>4, <1>5, <3>1, <3>2, <3>3, <3>4
  <2> QED BY <2>1, <2>2, <2>3
<1>8. ASSUME NEW a \in DOMAIN g.seg \ {FirstNode}
      PROVE  /\ g.seg[a].prev \in DOMAIN g.seg \ {End(g)}
             /\ g.seg[a].prev + g.seg[g.seg[a].prev].size = a
  <2>1. CASE a = end
    BY <1>1, <1>3, <1>4, <2>1
  <2>2. CASE a = next
    BY <1>1, <1>3, <1>4, <2>2 DEF next
  <2>3. CASE a # end /\ a # next
    <3>1. a \in D \ {FirstNode} /\ g.seg[a].prev = h.seg[a].prev
      BY <1>4, <1>5, <2>3
    <3>2. h.seg[a].prev # now
      BY <1>2, <2>3, <3>1 DEF end
    <3> QED BY <1>2, <1>3, <1>4, <1>5, <3>1, <3>2
  <2> QED BY <2>1, <2>2, <2>3
<1> QED BY <1>3, <1>6, <1>7, <1>8 DEF ListOK, next, D

\* What ListOK says, in terms of the headers.
LEMMA ListFacts ==
    ASSUME NEW h, ListOK(h)
    PROVE  /\ h \in Heaps /\ h.brk \in Nat
           /\ \A a \in DOMAIN h.seg : a \in Nat /\ h.seg[a].size \in Nat /\ h.seg[a].prev \in Nat
                                      /\ h.seg[a].alloc \in BOOLEAN
           /\ FirstNode \in DOMAIN h.seg /\ h.seg[FirstNode].prev = NULL
           /\ End(h) \in DOMAIN h.seg /\ h.seg[End(h)].size = 0
           /\ \A a \in DOMAIN h.seg : FirstNode <= a /\ a <= End(h)
           /\ \A a \in DOMAIN h.seg \ {End(h)} :
                /\ 0 < h.seg[a].size /\ a + h.seg[a].size \in DOMAIN h.seg
                /\ h.seg[a + h.seg[a].size].prev = a
                /\ \A b \in DOMAIN h.seg : b <= a \/ a + h.seg[a].size <= b
           /\ \A a \in DOMAIN h.seg \ {FirstNode} :
                h.seg[a].prev \in DOMAIN h.seg \ {End(h)} /\ h.seg[a].prev + h.seg[h.seg[a].prev].size = a
<1>1. h \in Heaps
  BY DEF ListOK
<1>2. h.brk \in Nat /\ \A a \in DOMAIN h.seg : a \in Nat /\ h.seg[a].size \in Nat /\ h.seg[a].prev \in Nat
                                               /\ h.seg[a].alloc \in BOOLEAN
  BY <1>1, HeapParts
<1> QED BY <1>1, <1>2 DEF ListOK, mm_get_next

\* The address NULL is no segment's.
LEMMA NotNull == ASSUME NEW h, ListOK(h) PROVE \A a \in DOMAIN h.seg : a # NULL
  BY DEF ListOK, FirstNode, NULL

\* The segments from lo up to hi become one.
LEMMA Merge ==
    ASSUME NEW h, ListOK(h), NEW g \in Heaps, g.brk = h.brk,
           NEW lo \in DOMAIN h.seg, NEW hi \in DOMAIN h.seg, lo < hi,
           DOMAIN g.seg = {a \in DOMAIN h.seg : a <= lo \/ hi <= a},
           g.seg[lo].size = hi - lo, g.seg[lo].prev = h.seg[lo].prev,
           g.seg[hi].prev = lo, g.seg[hi].size = h.seg[hi].size,
           \A x \in DOMAIN g.seg \ {lo, hi} : g.seg[x] = h.seg[x]
    PROVE  ListOK(g)
<1> DEFINE D == DOMAIN h.seg
<1>1. /\ \A a \in D : a \in Nat /\ h.seg[a].size \in Nat /\ h.seg[a].prev \in Nat
      /\ FirstNode \in D /\ h.seg[FirstNode].prev = NULL /\ h.brk \in Nat
      /\ End(h) \in D /\ h.seg[End(h)].size = 0
      /\ \A a \in D : FirstNode <= a /\ a <= End(h)
      /\ \A a \in D \ {End(h)} :
            /\ 0 < h.seg[a].size /\ a + h.seg[a].size \in D /\ h.seg[a + h.seg[a].size].prev = a
            /\ \A b \in D : b <= a \/ a + h.seg[a].size <= b
      /\ \A a \in D \ {FirstNode} : h.seg[a].prev \in D \ {End(h)} /\ h.seg[a].prev + h.seg[h.seg[a].prev].size = a
  BY ListFacts
<1>2. lo \in D /\ hi \in D /\ lo \in Nat /\ hi \in Nat /\ End(g) = End(h) /\ FirstNode \in Nat /\ End(h) \in Nat
      /\ lo # End(h) /\ hi # FirstNode
  BY <1>1 DEF End, FirstNode
<1>3. \A x \in DOMAIN g.seg : /\ x \in D /\ (x <= lo \/ hi <= x)
                              /\ x # lo => g.seg[x].size = h.seg[x].size
                              /\ x # hi => g.seg[x].prev = h.seg[x].prev
  OBVIOUS
<1>4. \A x \in D : x <= lo \/ hi <= x => x \in DOMAIN g.seg
  OBVIOUS
<1> HIDE DEF D
<1>5. FirstNode \in DOMAIN g.seg /\ g.seg[FirstNode].prev = NULL
      /\ End(g) \in DOMAIN g.seg /\ g.seg[End(g)].size = 0
      /\ \A a \in DOMAIN g.seg : FirstNode <= a /\ a <= End(g)
  BY <1>1, <1>2, <1>3, <1>4
<1>6. ASSUME NEW a \in DOMAIN g.seg \ {End(g)}
      PROVE  /\ 0 < g.seg[a].size /\ a + g.seg[a].size \in DOMAIN g.seg
             /\ g.seg[a + g.seg[a].size].prev = a
             /\ \A b \in DOMAIN g.seg : b <= a \/ a + g.seg[a].size <= b
  <2>1. CASE a = lo
    <3>1. a + g.seg[a].size = hi /\ 0 < g.seg[a].size
      BY <1>2, <2>1
    <3> QED BY <1>2, <1>3, <1>4, <2>1, <3>1
  <2>2. CASE a # lo
    <3>1. a \in D \ {End(h)} /\ g.seg[a].size = h.seg[a].size /\ (a <= lo \/ hi <= a) /\ a \in Nat
      BY <1>1, <1>2, <1>3, <2>2
    <3>2. a + h.seg[a].size \in D /\ h.seg[a + h.seg[a].size].prev = a /\ 0 < h.seg[a].size
          /\ \A b \in D : b <= a \/ a + h.seg[a].size <= b
      BY <1>1, <3>1
    <3>3. a + h.seg[a].size \in DOMAIN g.seg /\ a + h.seg[a].size # hi
      <4>1. CASE a <= lo
        <5>1. a + h.seg[a].size <= lo
          BY <1>2, <2>2, <3>1, <3>2, <4>1
        <5> QED BY <1>1, <1>2, <1>4, <3>2, <5>1
      <4>2. CASE hi <= a
        <5>1. hi < a + h.seg[a].size
          BY <1>1, <1>2, <3>1, <3>2, <4>2
        <5>2. a + h.seg[a].size \in Nat
          BY <1>1, <3>2
        <5>3. hi <= a + h.seg[a].size /\ a + h.seg[a].size # hi
          BY ONLY <5>1, <5>2, <1>2
        <5> QED BY ONLY <1>4, <3>2, <5>3
      <4> QED BY <3>1, <4>1, <4>2
    <3> QED BY <1>3, <3>1, <3>2, <3>3
  <2> QED BY <2>1, <2>2
<1>7. ASSUME NEW a \in DOMAIN g.seg \ {FirstNode}
      PROVE  /\ g.seg[a].prev \in DOMAIN g.seg \ {End(g)}
             /\ g.seg[a].prev + g.seg[g.seg[a].prev].size = a
  <2>1. CASE a = hi
    BY <1>2, <1>4, <2>1
  <2>2. CASE a # hi
    <3> DEFINE p == h.seg[a].prev
    <3>1. a \in D \ {FirstNode} /\ g.seg[a].prev = p /\ (a <= lo \/ hi <= a) /\ a \in Nat
      BY <1>1, <1>3, <2>2
    <3>2. p \in D \ {End(h)} /\ p + h.seg[p].size = a /\ 0 < h.seg[p].size /\ p \in Nat /\ h.seg[p].size \in Nat
          /\ \A b \in D : b <= p \/ a <= b
      BY <1>1, <3>1
    <3> HIDE DEF p
    <3>3. p \in DOMAIN g.seg /\ p # lo
      <4>1. CASE a <= lo
        BY <1>2, <1>4, <3>1, <3>2, <4>1
      <4>2. CASE hi <= a
        <5>1. hi <= p
          BY <1>2, <2>2, <3>1, <3>2, <4>2
        <5> QED BY <1>2, <1>4, <3>2, <5>1
      <4> QED BY <3>1, <4>1, <4>2
    <3> QED BY <1>2, <1>3, <3>1, <3>2, <3>3
  <2> QED BY <2>1, <2>2
<1> QED BY <1>2, <1>5, <1>6, <1>7 DEF ListOK, mm_get_next

\* The heap grows by a segment of n units.
LEMMA Extend ==
    ASSUME NEW h, ListOK(h), NEW g \in Heaps, NEW n \in Nat \ {0}, g.brk = h.brk + n,
           DOMAIN g.seg = DOMAIN h.seg \cup {End(h) + n},
           g.seg[End(h) + n].size = 0, g.seg[End(h) + n].prev = End(h),
           g.seg[End(h)].size = n, g.seg[End(h)].prev = h.seg[End(h)].prev,
           \A x \in DOMAIN h.seg \ {End(h)} : g.seg[x] = h.seg[x]
    PROVE  ListOK(g) /\ End(g) = End(h) + n
<1> DEFINE D == DOMAIN h.seg  e == End(h)
<1>1. /\ \A a \in D : a \in Nat /\ h.seg[a].size \in Nat /\ h.seg[a].prev \in Nat
      /\ FirstNode \in D /\ h.seg[FirstNode].prev = NULL /\ h.brk \in Nat
      /\ e \in D /\ h.seg[e].size = 0
      /\ \A a \in D : FirstNode <= a /\ a <= e
      /\ \A a \in D \ {e} :
            /\ 0 < h.seg[a].size /\ a + h.seg[a].size \in D /\ h.seg[a + h.seg[a].size].prev = a
            /\ \A b \in D : b <= a \/ a + h.seg[a].size <= b
      /\ \A a \in D \ {FirstNode} : h.seg[a].prev \in D \ {e} /\ h.seg[a].prev + h.seg[h.seg[a].prev].size = a
  BY ListFacts
<1>2. End(g) = e + n /\ e + n \notin D /\ e \in Nat /\ FirstNode \in Nat /\ FirstNode # e + n /\ n \in Nat
      /\ e + n # e
  BY <1>1 DEF End, FirstNode
<1>3. /\ DOMAIN g.seg = D \cup {e + n} /\ g.seg[e + n].size = 0 /\ g.seg[e + n].prev = e /\ g.seg[e].size = n
      /\ \A x \in D : /\ x # e => g.seg[x].size = h.seg[x].size
                      /\ g.seg[x].prev = h.seg[x].prev
  OBVIOUS
<1> HIDE DEF D, e
<1>4. FirstNode \in DOMAIN g.seg /\ g.seg[FirstNode].prev = NULL
      /\ End(g) \in DOMAIN g.seg /\ g.seg[End(g)].size = 0
      /\ \A a \in DOMAIN g.seg : FirstNode <= a /\ a <= End(g)
  <2>1. \A a \in D : FirstNode <= a /\ a <= e + n
    BY <1>1, <1>2
  <2>2. FirstNode <= e + n
    BY <1>1, <1>2
  <2>3. \A a \in DOMAIN g.seg : FirstNode <= a /\ a <= e + n
    <3> SUFFICES ASSUME NEW a \in D \cup {e + n} PROVE FirstNode <= a /\ a <= e + n
      BY <1>3
    <3>1. CASE a = e + n
      BY <1>2, <2>2, <3>1
    <3> QED BY <2>1, <3>1
  <2>4. FirstNode \in DOMAIN g.seg /\ g.seg[FirstNode].prev = NULL
    BY <1>1, <1>3
  <2> QED BY <1>2, <1>3, <2>3, <2>4
<1>5. ASSUME NEW a \in DOMAIN g.seg \ {End(g)}
      PROVE  /\ 0 < g.seg[a].size /\ a + g.seg[a].size \in DOMAIN g.seg
             /\ g.seg[a + g.seg[a].size].prev = a
             /\ \A b \in DOMAIN g.seg : b <= a \/ a + g.seg[a].size <= b
  <2>1. CASE a = e
    <3>1. \A b \in D : b <= e
      BY <1>1
    <3> QED BY <1>2, <1>3, <2>1, <3>1
  <2>2. CASE a # e
    <3>1. a \in D \ {e} /\ g.seg[a].size = h.seg[a].size
      BY <1>2, <1>3, <2>2
    <3>2. a + h.seg[a].size \in D /\ h.seg[a + h.seg[a].size].prev = a /\ 0 < h.seg[a].size
          /\ a + h.seg[a].size <= e + n /\ \A b \in D : b <= a \/ a + h.seg[a].size <= b
      BY <1>1, <1>2, <3>1
    <3> QED BY <1>2, <1>3, <3>1, <3>2
  <2> QED BY <2>1, <2>2
<1>6. ASSUME NEW a \in DOMAIN g.seg \ {FirstNode}
      PROVE  /\ g.seg[a].prev \in DOMAIN g.seg \ {End(g)}
             /\ g.seg[a].prev + g.seg[g.seg[a].prev].size = a
  <2>1. CASE a = e + n
    BY <1>1, <1>2, <1>3, <2>1
  <2>2. CASE a # e + n
    <3>1. a \in D \ {FirstNode} /\ g.seg[a].prev = h.seg[a].prev
      BY <1>3, <2>2
    <3>2. h.seg[a].prev \in D \ {e} /\ h.seg[a].prev + h.seg[h.seg[a].prev].size = a
      BY <1>1, <3>1
    <3>3. g.seg[h.seg[a].prev].size = h.seg[h.seg[a].prev].size /\ h.seg[a].prev # End(g)
      BY <1>2, <1>3, <3>2
    <3> QED BY <1>3, <3>1, <3>2, <3>3
  <2> QED BY <2>1, <2>2
<1> QED BY <1>2, <1>4, <1>5, <1>6 DEF ListOK, mm_get_next, e

-----------------------------------------------------------------------------
(***************************************************************************)
(* The routines of mm.c.                                                   *)
(***************************************************************************)
Allocated(h) == {a \in DOMAIN h.seg \ {End(h)} : h.seg[a].alloc}

\* The tree holds the free segments, except the one at x, and each of these is
\* large enough for a node.
TreeOK(h, x) == \A k : k \in h.tree <=> \E a \in DOMAIN h.seg \ {End(h), x} :
                                            ~h.seg[a].alloc /\ k = <<h.seg[a].size, a>>
FitOK(h, x) == \A a \in DOMAIN h.seg \ {End(h), x} : ~h.seg[a].alloc => NodeUnits <= h.seg[a].size

HeapOK(h) == ListOK(h) /\ TreeOK(h, NULL) /\ FitOK(h, NULL) /\ h.brk <= MAX_HEAP /\ h.ok

\* From heap h to heap g, other segments than those in X are neither allocated
\* nor freed, and those that are allocated keep their place and their size.
Keeps(h, g, X) == \A a : a \notin X => /\ a \in Allocated(g) <=> a \in Allocated(h)
                                       /\ a \in Allocated(h) => g.seg[a].size = h.seg[a].size

\* A heap with one header changed is the same heap when nothing changes.
LEMMA SamePrev ==
    ASSUME NEW h \in Heaps, NEW a \in DOMAIN h.seg
    PROVE  [h EXCEPT !.seg[a].prev = h.seg[a].prev] = h
<1> DEFINE r == h.seg[a]  f == [h.seg EXCEPT ![a] = [r EXCEPT !.prev = r.prev]]
<1>1. r \in Header /\ h.seg \in [DOMAIN h.seg -> Header]
  BY HeapParts
<1>2. [r EXCEPT !.prev = r.prev] = r
  BY <1>1 DEF Header
<1>3. f = h.seg
  BY <1>1, <1>2
<1>4. [h EXCEPT !.seg = h.seg] = h
  BY DEF Heaps
<1>5. [h EXCEPT !.seg[a].prev = h.seg[a].prev] = [h EXCEPT !.seg = f]
  OBVIOUS
<1> QED BY <1>3, <1>4, <1>5

\* mm_frag_node leaves a heap in order, with at least size units at now.
LEMMA FragNode ==
    ASSUME NEW h, ListOK(h), NEW now \in DOMAIN h.seg \ {End(h)}, TreeOK(h, now), FitOK(h, now),
           NEW size \in Nat \ {0}, size <= h.seg[now].size,
           NEW g, g = mm_frag_node(h, now, size)
    PROVE  /\ ListOK(g) /\ TreeOK(g, now) /\ FitOK(g, now) /\ g.brk = h.brk /\ g.ok = h.ok
           /\ now \in DOMAIN g.seg \ {End(g)} /\ size <= g.seg[now].size
           /\ g.seg[now].alloc = h.seg[now].alloc /\ g.seg[now].size <= h.seg[now].size
           /\ \A a \in DOMAIN h.seg \ {now} : /\ a \in DOMAIN g.seg /\ g.seg[a].size = h.seg[a].size
                                              /\ g.seg[a].alloc = h.seg[a].alloc
           /\ \A a \in DOMAIN g.seg \ DOMAIN h.seg : a = now + g.seg[now].size /\ ~g.seg[a].alloc
<1> DEFINE D == DOMAIN h.seg  next == now + size  end == now + h.seg[now].size
<1>1. h \in Heaps /\ now \in D /\ now \in Nat /\ h.seg[now].size \in Nat /\ end \in D /\ h.seg[end].prev = now
      /\ end \in Nat /\ h.brk \in Nat
  BY ListFacts
<1>2. CASE h.seg[now].size < size + NodeUnits
  <2>1. g = [h EXCEPT !.seg[end].prev = now]
    BY <1>2 DEF mm_frag_node, mm_get_next
  <2>2. g = h
    BY <1>1, <2>1, SamePrev
  <2> QED BY <1>1, <2>2
<1>3. CASE ~(h.seg[now].size < size + NodeUnits)
  <2> DEFINE f == [x \in D \cup {next} |->
                    IF x = next THEN [size |-> end - next, alloc |-> FALSE, prev |-> now]
                    ELSE IF x = now THEN [h.seg[now] EXCEPT !.size = size]
                    ELSE IF x = end THEN [h.seg[end] EXCEPT !.prev = next]
                    ELSE h.seg[x]]
             k0 == <<end - next, next>>
             g1 == [h EXCEPT !.seg = f]
  <2>1. size + 2 <= h.seg[now].size /\ next \in Nat /\ next < end /\ now < next /\ end - next \in Nat
        /\ 2 <= end - next
    BY <1>1, <1>3 DEF NodeUnits
  <2>2. g = mm_insert(g1, next)
    BY <1>3 DEF mm_frag_node, mm_get_next
  <2>3. f \in [D \cup {next} -> Header] /\ D \cup {next} \in SUBSET Nat
    <3>1. ASSUME NEW x \in D \cup {next} PROVE f[x] \in Header
      <4>1. \A y \in D : h.seg[y] \in Header
        BY <1>1, HeapParts
      <4>2. [size |-> end - next, alloc |-> FALSE, prev |-> now] \in Header
        BY <1>1, <2>1 DEF Header
      <4>3. [h.seg[now] EXCEPT !.size = size] \in Header
        BY <1>1, <4>1 DEF Header
      <4>4. [h.seg[end] EXCEPT !.prev = next] \in Header
        BY <1>1, <2>1, <4>1 DEF Header
      <4> QED BY <4>1, <4>2, <4>3, <4>4
    <3>2. D \in SUBSET Nat
      BY <1>1, HeapParts
    <3> HIDE DEF D, next, end
    <3> QED BY <2>1, <3>1, <3>2
  <2>4. g1 \in Heaps /\ g1.seg = f /\ g1.brk = h.brk /\ g1.tree = h.tree /\ g1.ok = h.ok
    <3> HIDE DEF f
    <3> QED BY <1>1, <2>3, NewSegments
  <2>5. /\ f[next].size = end - next /\ f[next].alloc = FALSE /\ f[next].prev = now
        /\ f[now].size = size /\ f[now].alloc = h.seg[now].alloc /\ f[now].prev = h.seg[now].prev
        /\ f[end].prev = next /\ f[end].size = h.seg[end].size /\ f[end].alloc = h.seg[end].alloc
        /\ \A x \in D \ {now, end, next} : f[x] = h.seg[x]
    <3>1. \A y \in D : h.seg[y] \in Header
      BY <1>1, HeapParts
    <3>2. f[next] = [size |-> end - next, alloc |-> FALSE, prev |-> now]
      OBVIOUS
    <3>3. f[now] = [h.seg[now] EXCEPT !.size = size]
      BY <1>1, <2>1
    <3>4. f[end] = [h.seg[end] EXCEPT !.prev = next]
      BY <1>1, <2>1
    <3>5. \A x \in D \ {now, end, next} : f[x] = h.seg[x]
      OBVIOUS
    <3> HIDE DEF f
    <3> QED BY <1>1, <3>1, <3>2, <3>3, <3>4, <3>5 DEF Header
  <2>6. k0 \in Nat \X Nat /\ h.tree \in SUBSET (Nat \X Nat)
    BY <1>1, <2>1, HeapParts
  <2>7. g = [g1 EXCEPT !.tree = h.tree \cup {k0}]
    <3> HIDE DEF f, g1
    <3> QED BY <2>2, <2>4, <2>5 DEF mm_insert, Key
  <2>8. DOMAIN f = D \cup {next}
    OBVIOUS
  <2> HIDE DEF f, g1
  <2>9. g \in Heaps /\ g.seg = f /\ g.brk = h.brk /\ g.tree = h.tree \cup {k0} /\ g.ok = h.ok
    <3>1. h.tree \cup {k0} \in SUBSET (Nat \X Nat)
      BY <2>6
    <3> HIDE DEF k0
    <3> QED BY <2>4, <2>7, <3>1, NewTree
  <2>10. end # now /\ end # next
    BY <1>1, <2>1
  <2>11. ListOK(g) /\ next \notin D
    <3>1. next \notin D
      <4>1. \A b \in D : b <= now \/ end <= b
        BY ListFacts
      <4> HIDE DEF D
      <4> QED BY <1>1, <2>1, <4>1
    <3>2. size < h.seg[now].size /\ end - next = h.seg[now].size - size
      BY <1>1, <2>1
    <3>3. \A x \in D \ {now, end} : f[x] = h.seg[x]
      BY <2>5, <3>1
    <3>4. mm_get_next(h, now) = end
      BY DEF mm_get_next
    <3>5. /\ DOMAIN g.seg = DOMAIN h.seg \cup {now + size}
          /\ g.seg[now + size].size = h.seg[now].size - size /\ g.seg[now + size].prev = now
          /\ g.seg[now].size = size /\ g.seg[now].prev = h.seg[now].prev
          /\ g.seg[mm_get_next(h, now)].prev = now + size
          /\ g.seg[mm_get_next(h, now)].size = h.seg[mm_get_next(h, now)].size
          /\ \A x \in DOMAIN h.seg \ {now, mm_get_next(h, now)} : g.seg[x] = h.seg[x]
      BY <2>5, <2>8, <2>9, <3>2, <3>3, <3>4
    <3> HIDE DEF D, next, end
    <3>6. ListOK(g)
      BY <2>9, <3>2, <3>5, Split
    <3> QED BY <3>1, <3>6
  <2>12. End(g) = End(h) /\ End(h) # next /\ End(h) \in D
    BY <2>9, <2>11, ListFacts DEF End
  <2>13. \A a \in D \ {now} : a \in DOMAIN g.seg /\ g.seg[a].size = h.seg[a].size
                                /\ g.seg[a].alloc = h.seg[a].alloc
    <3>1. \A x \in D : x # next
      BY <2>11
    <3> HIDE DEF D, next, end
    <3> QED BY <2>5, <2>8, <2>9, <3>1
  <2>14. FitOK(g, now)
    <3> HIDE DEF D, next, end
    <3> QED BY <2>1, <2>5, <2>8, <2>9, <2>12, <2>13 DEF FitOK, D, NodeUnits
  <2>15. TreeOK(g, now)
    <3> SUFFICES ASSUME NEW k
                 PROVE  k \in h.tree \cup {k0} <=> \E a \in (D \cup {next}) \ {End(h), now} :
                                                        ~g.seg[a].alloc /\ k = <<g.seg[a].size, a>>
      BY <2>8, <2>9, <2>12 DEF TreeOK
    <3>1. k \in h.tree <=> \E a \in D \ {End(h), now} : ~h.seg[a].alloc /\ k = <<h.seg[a].size, a>>
      BY DEF TreeOK
    <3>2. g.seg[next].size = end - next /\ ~g.seg[next].alloc /\ next # now /\ next # End(h)
      BY <1>1, <2>1, <2>5, <2>9, <2>12
    <3> HIDE DEF D, next, end
    <3> QED BY <2>13, <3>1, <3>2
  <2>16. now \in DOMAIN g.seg \ {End(g)} /\ size <= g.seg[now].size /\ g.seg[now].size = size
         /\ g.seg[now].alloc = h.seg[now].alloc /\ g.seg[now].size <= h.seg[now].size
    BY <1>1, <2>1, <2>5, <2>8, <2>9, <2>12
  <2>17. \A a \in DOMAIN g.seg \ D : a = now + g.seg[now].size /\ ~g.seg[a].alloc
    BY <2>5, <2>8, <2>9, <2>16
  <2> HIDE DEF D, next, end
  <2> QED BY <2>9, <2>11, <2>13, <2>14, <2>15, <2>16, <2>17 DEF D
<1> QED BY <1>2, <1>3

\* The heap grows, or mem_sbrk fails.
LEMMA GrowHeap ==
    ASSUME NEW h, HeapOK(h), NEW n \in Nat \ {0}, NEW g, g = Grow(h, n), g.ok
    PROVE  /\ HeapOK(g) /\ g.brk = h.brk + n
           /\ DOMAIN g.seg = DOMAIN h.seg \cup {End(h) + n}
           /\ g.seg[End(h)].size = n /\ g.seg[End(h)].alloc
           /\ \A a \in DOMAIN h.seg \ {End(h)} : g.seg[a] = h.seg[a]
<1> DEFINE D == DOMAIN h.seg  e == End(h)
           f == [x \in D \cup {e + n} |->
                    IF x = e + n THEN [size |-> 0, alloc |-> FALSE, prev |-> e]
                    ELSE IF x = e THEN [h.seg[e] EXCEPT !.size = n, !.alloc = TRUE]
                    ELSE h.seg[x]]
<1>1. ListOK(h) /\ h \in Heaps /\ h.brk \in Nat /\ e \in D /\ e \in Nat /\ h.ok
      /\ \A a \in D : a \in Nat /\ a <= e
  BY ListFacts DEF HeapOK
<1>2. e + n \notin D /\ e + n \in Nat /\ e + n # e
  BY <1>1
<1>3. h.brk + n <= MAX_HEAP
  <2> SUFFICES ASSUME ~(h.brk + n <= MAX_HEAP) PROVE FALSE
    OBVIOUS
  <2>1. h.brk + n > MAX_HEAP
    BY <1>1
  <2>2. g = [h EXCEPT !.ok = FALSE]
    BY <2>1 DEF Grow
  <2> QED BY <1>1, <2>2 DEF Heaps
<1>4. g = [h EXCEPT !.brk = h.brk + n, !.seg = f]
  <2>1. ~(h.brk + n > MAX_HEAP)
    BY <1>1, <1>3
  <2> QED BY <1>1, <2>1 DEF Grow, End
<1>5. f \in [D \cup {e + n} -> Header] /\ D \cup {e + n} \in SUBSET Nat
  <2>1. ASSUME NEW x \in D \cup {e + n} PROVE f[x] \in Header
    <3>1. \A y \in D : h.seg[y] \in Header
      BY <1>1, HeapParts
    <3>2. [size |-> 0, alloc |-> FALSE, prev |-> e] \in Header
      BY <1>1 DEF Header
    <3>3. [h.seg[e] EXCEPT !.size = n, !.alloc = TRUE] \in Header
      BY <1>1, <3>1 DEF Header
    <3> QED BY <3>1, <3>2, <3>3
  <2>2. D \in SUBSET Nat
    BY <1>1, HeapParts
  <2> HIDE DEF D, e
  <2> QED BY <1>2, <2>1, <2>2
<1>6. /\ f[e + n].size = 0 /\ f[e + n].alloc = FALSE /\ f[e + n].prev = e
      /\ f[e].size = n /\ f[e].alloc = TRUE /\ f[e].prev = h.seg[e].prev
      /\ \A x \in D \ {e} : f[x] = h.seg[x]
      /\ DOMAIN f = D \cup {e + n}
  <2>1. h.seg[e] \in Header
    BY <1>1, HeapParts
  <2>2. f[e + n] = [size |-> 0, alloc |-> FALSE, prev |-> e]
    OBVIOUS
  <2>3. f[e] = [h.seg[e] EXCEPT !.size = n, !.alloc = TRUE]
    BY <1>1, <1>2
  <2>4. (\A x \in D \ {e} : f[x] = h.seg[x]) /\ DOMAIN f = D \cup {e + n}
    BY <1>2
  <2> HIDE DEF f
  <2> QED BY <2>1, <2>2, <2>3, <2>4 DEF Header
<1> HIDE DEF f
<1>7. g \in Heaps /\ g.seg = f /\ g.brk = h.brk + n /\ g.tree = h.tree /\ g.ok = h.ok
  <2> DEFINE b == h.brk + n  E == D \cup {e + n}
  <2>1. b \in Nat /\ E \in SUBSET Nat /\ f \in [E -> Header] /\ g = [h EXCEPT !.brk = b, !.seg = f]
    BY <1>1, <1>4, <1>5
  <2> HIDE DEF b, E
  <2>2. g \in Heaps /\ g.seg = f /\ g.brk = b /\ g.tree = h.tree /\ g.ok = h.ok
    <3>1. f \in UNION {[S -> Header] : S \in SUBSET Nat}
      BY <2>1
    <3> QED BY <1>1, <2>1, <3>1 DEF Heaps
  <2> QED BY <2>2 DEF b
<1>8. ListOK(g) /\ End(g) = e + n
  BY <1>1, <1>6, <1>7, Extend
<1> HIDE DEF D, e
<1>9. \A a : a \in DOMAIN g.seg \ {End(g), NULL} /\ ~g.seg[a].alloc
                <=> a \in DOMAIN h.seg \ {e, NULL} /\ ~h.seg[a].alloc
  BY <1>2, <1>6, <1>7, <1>8 DEF D
<1>10. \A a \in DOMAIN h.seg \ {e, NULL} : g.seg[a].size = h.seg[a].size
  BY <1>6, <1>7 DEF D
<1>11. TreeOK(g, NULL)
  <2>1. TreeOK(h, NULL)
    BY DEF HeapOK
  <2> QED BY <1>7, <1>9, <1>10, <2>1 DEF TreeOK, e
<1>12. FitOK(g, NULL)
  <2>1. FitOK(h, NULL)
    BY DEF HeapOK
  <2> QED BY <1>9, <1>10, <2>1 DEF FitOK, e
<1>13. HeapOK(g)
  BY <1>1, <1>3, <1>7, <1>8, <1>11, <1>12 DEF HeapOK
<1> QED BY <1>6, <1>7, <1>8, <1>13 DEF e, D

\* mm_sbrk appends an allocated segment of at least n units, at the place of
\* the old last header.
LEMMA SbrkHeap ==
    ASSUME NEW h, HeapOK(h), NEW n \in Nat \ {0}, NEW g, g = mm_sbrk(h, n), g.ok
    PROVE  /\ HeapOK(g) /\ h.brk <= g.brk
           /\ End(h) \in Allocated(g) /\ n <= g.seg[End(h)].size
           /\ \A a \in DOMAIN h.seg \ {End(h)} : /\ a \in DOMAIN g.seg /\ g.seg[a].size = h.seg[a].size
                                                 /\ g.seg[a].alloc = h.seg[a].alloc
           /\ \A a \in DOMAIN g.seg \ DOMAIN h.seg : /\ End(h) + g.seg[End(h)].size <= a
                                                     /\ a = End(g) \/ ~g.seg[a].alloc
<1> DEFINE e == End(h)
<1>1. ListOK(h) /\ h.brk \in Nat /\ e \in DOMAIN h.seg /\ e \in Nat
  BY ListFacts DEF HeapOK
<1>2. CASE n >= MM_UNIT
  <2>1. g = Grow(h, n)
    BY <1>2 DEF mm_sbrk
  <2>2. /\ HeapOK(g) /\ g.brk = h.brk + n
        /\ DOMAIN g.seg = DOMAIN h.seg \cup {e + n}
        /\ g.seg[e].size = n /\ g.seg[e].alloc
        /\ \A a \in DOMAIN h.seg \ {e} : g.seg[a] = h.seg[a]
    BY <2>1, GrowHeap
  <2>3. e \in DOMAIN g.seg \ {End(g)} /\ End(g) = e + n /\ e + n \in Nat
    BY <1>1, <2>2 DEF End
  <2> QED BY <1>1, <2>2, <2>3 DEF Allocated
<1>3. CASE ~(n >= MM_UNIT)
  <2> DEFINE u == Grow(h, MM_UNIT)
  <2>1. g = IF u.ok THEN mm_frag_node(u, e, n + 1) ELSE u
    BY <1>3 DEF mm_sbrk, End
  <2>2. u.ok /\ g = mm_frag_node(u, e, n + 1)
    BY <2>1
  <2> HIDE DEF u
  <2>3. /\ HeapOK(u) /\ u.brk = h.brk + MM_UNIT
        /\ DOMAIN u.seg = DOMAIN h.seg \cup {e + MM_UNIT}
        /\ u.seg[e].size = MM_UNIT /\ u.seg[e].alloc
        /\ \A a \in DOMAIN h.seg \ {e} : u.seg[a] = h.seg[a]
    BY <2>2, GrowHeap DEF u
  <2>4. ListOK(u) /\ e \in DOMAIN u.seg \ {End(u)} /\ End(u) = e + MM_UNIT
    BY <1>1, <2>3 DEF HeapOK, End
  <2>5. TreeOK(u, e) /\ FitOK(u, e)
    <3>1. \A a \in DOMAIN u.seg : ~u.seg[a].alloc => a # e /\ a # NULL
      BY <2>3, <2>4, NotNull
    <3> QED BY <2>3, <3>1 DEF HeapOK, TreeOK, FitOK
  <2>6. n + 1 \in Nat \ {0} /\ n + 1 <= u.seg[e].size /\ n \in Nat
    BY <1>3, <2>3
  <2>7. /\ ListOK(g) /\ TreeOK(g, e) /\ FitOK(g, e) /\ g.brk = u.brk /\ g.ok = u.ok
        /\ e \in DOMAIN g.seg \ {End(g)} /\ n + 1 <= g.seg[e].size
        /\ g.seg[e].alloc = u.seg[e].alloc /\ g.seg[e].size <= u.seg[e].size
        /\ \A a \in DOMAIN u.seg \ {e} : /\ a \in DOMAIN g.seg /\ g.seg[a].size = u.seg[a].size
                                         /\ g.seg[a].alloc = u.seg[a].alloc
        /\ \A a \in DOMAIN g.seg \ DOMAIN u.seg : a = e + g.seg[e].size /\ ~g.seg[a].alloc
    <3> HIDE DEF e
    <3> QED BY <2>2, <2>4, <2>5, <2>6, FragNode
  <2>8. TreeOK(g, NULL) /\ FitOK(g, NULL)
    <3>1. \A a \in DOMAIN g.seg : ~g.seg[a].alloc => a # e /\ a # NULL
      BY <2>3, <2>7, NotNull
    <3> QED BY <2>7, <3>1 DEF TreeOK, FitOK
  <2>9. HeapOK(g)
    BY <2>3, <2>7, <2>8 DEF HeapOK
  <2>10. End(g) = End(u) /\ e + g.seg[e].size <= e + MM_UNIT /\ g.seg[e].size \in Nat
    BY <1>1, <2>3, <2>7, ListFacts DEF End
  <2>11. h.brk <= g.brk /\ n <= g.seg[e].size
    BY <1>1, <2>3, <2>6, <2>7, <2>10
  <2>12. e \in Allocated(g)
    BY <2>3, <2>7 DEF Allocated
  <2>13. \A a \in DOMAIN g.seg \ DOMAIN h.seg : e + g.seg[e].size <= a /\ (a = End(g) \/ ~g.seg[a].alloc)
    <3> HIDE DEF e
    <3> QED BY <1>1, <2>3, <2>4, <2>7, <2>10
  <2> QED BY <2>3, <2>7, <2>9, <2>11, <2>12, <2>13
<1> QED BY <1>2, <1>3

\* Nothing but the appended segment is allocated by mm_sbrk.
LEMMA SbrkKeeps ==
    ASSUME NEW h, HeapOK(h), NEW n \in Nat \ {0}, NEW g, g = mm_sbrk(h, n), g.ok
    PROVE  Keeps(h, g, {End(h)})
<1>1. /\ HeapOK(g) /\ h.brk <= g.brk
      /\ \A a \in DOMAIN h.seg \ {End(h)} : /\ a \in DOMAIN g.seg /\ g.seg[a].size = h.seg[a].size
                                            /\ g.seg[a].alloc = h.seg[a].alloc
      /\ \A a \in DOMAIN g.seg \ DOMAIN h.seg : a = End(g) \/ ~g.seg[a].alloc
  BY SbrkHeap
<1>2. h.brk \in Nat /\ g.brk \in Nat /\ \A a \in DOMAIN h.seg \ {End(h)} : a \in Nat /\ a < End(h)
  BY <1>1, ListFacts DEF HeapOK
<1>3. End(h) <= End(g) /\ End(h) \in Int /\ End(g) \in Int
  BY <1>1, <1>2 DEF End
<1>4. \A a \in DOMAIN h.seg \ {End(h)} : a # End(g)
  BY <1>2, <1>3
<1> SUFFICES ASSUME NEW a, a # End(h)
             PROVE  /\ a \in Allocated(g) <=> a \in Allocated(h)
                    /\ a \in Allocated(h) => g.seg[a].size = h.seg[a].size
  BY DEF Keeps
<1>5. CASE a \in DOMAIN h.seg
  BY <1>1, <1>4, <1>5 DEF Allocated
<1>6. CASE a \notin DOMAIN h.seg
  BY <1>1, <1>6 DEF Allocated
<1> QED BY <1>5, <1>6

\* The search in the tree finds a segment when one is large enough.
LEMMA BestFitFound ==
    ASSUME NEW S \in SUBSET (Nat \X Nat), NEW size \in Nat, Index!Fitting(S, size) # {}
    PROVE  Index!BestFit(S, size) \in Index!Fitting(S, size)
<1> DEFINE F == Index!Fitting(S, size)
           sizes == {k[1] : k \in F}
<1>1. \A k \in F : k \in S /\ k[1] \in Nat /\ k[2] \in Nat /\ k = <<k[1], k[2]>>
  BY DEF Index!Fitting
<1> HIDE DEF F
<1>2. sizes \in SUBSET Nat /\ sizes # {}
  BY <1>1 DEF F
<1>3. PICK m \in sizes : \A n \in sizes : m <= n
  BY <1>2, LeastNumber
<1> DEFINE places == {k[2] : k \in {j \in F : j[1] = m}}
<1>4. places \in SUBSET Nat /\ places # {}
  BY <1>1, <1>3
<1>5. PICK a \in places : \A b \in places : a <= b
  BY <1>4, LeastNumber
<1>6. PICK k \in F : k[1] = m /\ k[2] = a
  BY <1>5
<1>7. ASSUME NEW j \in F PROVE j = k \/ Index!mm_cmp_node(k, j)
  <2>1. m <= j[1] /\ j[1] \in Nat /\ m \in Nat /\ j[2] \in Nat /\ a \in Nat
    BY <1>1, <1>3, <1>6
  <2>2. CASE j[1] = m
    <3>1. a <= j[2]
      BY <1>5, <2>2
    <3>2. j[2] = a => j = k
      BY <1>1, <1>6, <2>2
    <3> QED BY <1>6, <2>1, <2>2, <3>1, <3>2 DEF Index!mm_cmp_node
  <2>3. CASE j[1] # m
    BY <1>6, <2>1, <2>3 DEF Index!mm_cmp_node
  <2> QED BY <2>2, <2>3
<1>8. \E c \in F : \A j \in F : j = c \/ Index!mm_cmp_node(c, j)
  BY <1>6, <1>7
<1> QED BY <1>8 DEF Index!BestFit, F

\* The order of a list is that of its sizes and footers.
LEMMA SameList ==
    ASSUME NEW h, ListOK(h), NEW g \in Heaps, g.brk = h.brk, DOMAIN g.seg = DOMAIN h.seg,
           \A x \in DOMAIN h.seg : g.seg[x].size = h.seg[x].size /\ g.seg[x].prev = h.seg[x].prev
    PROVE  ListOK(g)
<1> DEFINE D == DOMAIN h.seg
<1>1. /\ FirstNode \in D /\ h.seg[FirstNode].prev = NULL
      /\ End(h) \in D /\ h.seg[End(h)].size = 0
      /\ \A a \in D : FirstNode <= a /\ a <= End(h)
      /\ \A a \in D \ {End(h)} :
            /\ 0 < h.seg[a].size /\ a + h.seg[a].size \in D /\ h.seg[a + h.seg[a].size].prev = a
            /\ \A b \in D : b <= a \/ a + h.seg[a].size <= b
      /\ \A a \in D \ {FirstNode} : h.seg[a].prev \in D \ {End(h)} /\ h.seg[a].prev + h.seg[h.seg[a].prev].size = a
  BY ListFacts
<1>2. End(g) = End(h)
  BY DEF End
<1> HIDE DEF D
<1>3. DOMAIN g.seg = D /\ \A x \in D : g.seg[x].size = h.seg[x].size /\ g.seg[x].prev = h.seg[x].prev
  BY DEF D
<1> QED BY <1>1, <1>2, <1>3 DEF ListOK, mm_get_next

\* A heap with the flag of one segment set to v.
Flagged(h, a, v) == [h EXCEPT !.seg[a].alloc = v]

\* One flag is set or cleared: the list and the sizes stay.
LEMMA SetAlloc ==
    ASSUME NEW h, ListOK(h), NEW a \in DOMAIN h.seg, NEW v \in BOOLEAN, NEW g, g = Flagged(h, a, v)
    PROVE  /\ ListOK(g) /\ g.brk = h.brk /\ g.tree = h.tree /\ g.ok = h.ok /\ DOMAIN g.seg = DOMAIN h.seg
           /\ g.seg[a].alloc = v /\ \A x \in DOMAIN h.seg : /\ g.seg[x].size = h.seg[x].size
                                                            /\ x # a => g.seg[x].alloc = h.seg[x].alloc
<1> DEFINE D == DOMAIN h.seg  r == [h.seg[a] EXCEPT !.alloc = v]  f == [h.seg EXCEPT ![a] = r]
<1>1. h \in Heaps /\ D \in SUBSET Nat /\ h.seg \in [D -> Header] /\ h.seg[a] \in Header
  BY ListFacts, HeapParts
<1>2. r \in Header /\ r.alloc = v /\ r.size = h.seg[a].size /\ r.prev = h.seg[a].prev
  BY <1>1 DEF Header
<1> HIDE DEF r
<1>3. f \in [D -> Header] /\ f[a] = r /\ \A x \in D \ {a} : f[x] = h.seg[x]
  BY <1>1, <1>2
<1>4. g = [h EXCEPT !.seg = f]
  BY DEF r, Flagged
<1> HIDE DEF f, D
<1>5. g \in Heaps /\ g.seg = f /\ g.brk = h.brk /\ g.tree = h.tree /\ g.ok = h.ok
  <2>1. f \in UNION {[S -> Header] : S \in SUBSET Nat}
    BY <1>1, <1>3
  <2> QED BY <1>1, <1>4, <2>1 DEF Heaps
<1>6. DOMAIN g.seg = DOMAIN h.seg
  BY <1>3, <1>5 DEF D
<1>7. \A x \in DOMAIN h.seg : /\ g.seg[x].size = h.seg[x].size /\ g.seg[x].prev = h.seg[x].prev
                              /\ x # a => g.seg[x].alloc = h.seg[x].alloc
  BY <1>2, <1>3, <1>5 DEF D
<1>8. ListOK(g)
  BY <1>5, <1>6, <1>7, SameList
<1> QED BY <1>2, <1>3, <1>5, <1>6, <1>7, <1>8

\* mm_malloc: nothing that is in use changes, and the new segment is large
\* enough, whether it comes from the tree or from the end of the heap.
LEMMA Malloc ==
    ASSUME NEW h, HeapOK(h), NEW bytes \in Nat, NEW r, r = mm_malloc(h, bytes), r.heap.ok
    PROVE  /\ HeapOK(r.heap) /\ h.brk <= r.heap.brk
           /\ r.ptr \notin Allocated(h) /\ r.ptr \in Allocated(r.heap)
           /\ SegmentSize(bytes) <= r.heap.seg[r.ptr].size
           /\ Keeps(h, r.heap, {r.ptr})
<1> DEFINE size == SegmentSize(bytes)
<1>1. size \in Nat \ {0}
  BY DEF SegmentSize
<1> HIDE DEF size
<1>2. ListOK(h) /\ TreeOK(h, NULL) /\ FitOK(h, NULL) /\ h \in Heaps /\ h.brk \in Nat /\ h.brk <= MAX_HEAP /\ h.ok
      /\ h.tree \in SUBSET (Nat \X Nat)
  BY ListFacts, HeapParts DEF HeapOK
<1>3. CASE Index!Fitting(h.tree, size) = {}
  <2> DEFINE g == mm_sbrk(h, size)
  <2>1. r = [heap |-> g, ptr |-> End(h)]
    BY <1>3 DEF mm_malloc, size, End
  <2> HIDE DEF g
  <2>2. r.heap = g /\ r.ptr = End(h) /\ g.ok
    BY <2>1
  <2>3. HeapOK(g) /\ h.brk <= g.brk /\ End(h) \in Allocated(g) /\ size <= g.seg[End(h)].size
        /\ Keeps(h, g, {End(h)})
    BY <1>1, <2>2, SbrkHeap, SbrkKeeps DEF g
  <2>4. End(h) \notin Allocated(h)
    BY DEF Allocated
  <2> QED BY <2>2, <2>3, <2>4 DEF size
<1>4. CASE Index!Fitting(h.tree, size) # {}
  <2> DEFINE k == Index!BestFit(h.tree, size)  p == k[2]
             d == mm_delete(h, p)  g == mm_frag_node(d, p, size)  w == [g EXCEPT !.seg[p].alloc = TRUE]
  <2>1. k \in h.tree /\ size <= k[1]
    <3>1. k \in Index!Fitting(h.tree, size)
      BY <1>1, <1>2, <1>4, BestFitFound
    <3> HIDE DEF k
    <3> QED BY <3>1 DEF Index!Fitting
  <2>2. r = [heap |-> w, ptr |-> p]
    BY <1>4 DEF mm_malloc, size
  <2> HIDE DEF k
  <2>3. p \in DOMAIN h.seg \ {End(h), NULL} /\ ~h.seg[p].alloc /\ k = <<h.seg[p].size, p>>
    <3>1. PICK a \in DOMAIN h.seg \ {End(h), NULL} : ~h.seg[a].alloc /\ k = <<h.seg[a].size, a>>
      BY <1>2, <2>1 DEF TreeOK
    <3> QED BY <3>1
  <2>4. size <= h.seg[p].size
    BY <2>1, <2>3
  <2>5. d = [h EXCEPT !.tree = h.tree \ {<<h.seg[p].size, p>>}]
    BY DEF mm_delete, Key
  <2> HIDE DEF p, d
  <2>6. d \in Heaps /\ d.seg = h.seg /\ d.brk = h.brk /\ d.tree = h.tree \ {<<h.seg[p].size, p>>} /\ d.ok = h.ok
    <3> DEFINE t == h.tree \ {<<h.seg[p].size, p>>}
    <3>1. t \in SUBSET (Nat \X Nat) /\ d = [h EXCEPT !.tree = t]
      BY <1>2, <2>5
    <3> HIDE DEF t
    <3>2. d \in Heaps /\ d.seg = h.seg /\ d.brk = h.brk /\ d.tree = t /\ d.ok = h.ok
      BY <1>2, <3>1 DEF Heaps
    <3> QED BY <3>2 DEF t
  <2>7. ListOK(d) /\ End(d) = End(h)
    BY <1>2, <2>6, SameList DEF End
  <2>8. TreeOK(d, p) /\ FitOK(d, p)
    <3>1. \A a \in DOMAIN h.seg : a # NULL
      BY <1>2, NotNull
    <3>2. FitOK(d, p)
      BY <1>2, <2>6, <2>7, <3>1 DEF FitOK
    <3>3. ASSUME NEW j PROVE j \in h.tree \ {<<h.seg[p].size, p>>} <=>
                        \E a \in DOMAIN h.seg \ {End(h), p} : ~h.seg[a].alloc /\ j = <<h.seg[a].size, a>>
      <4>1. j \in h.tree <=> \E a \in DOMAIN h.seg \ {End(h)} : ~h.seg[a].alloc /\ j = <<h.seg[a].size, a>>
        BY <1>2, <3>1 DEF TreeOK
      <4>2. \A a \in DOMAIN h.seg : <<h.seg[a].size, a>> = <<h.seg[p].size, p>> <=> a = p
        OBVIOUS
      <4> QED BY <4>1, <4>2
    <3> QED BY <2>6, <2>7, <3>2, <3>3 DEF TreeOK
  <2>9. /\ ListOK(g) /\ TreeOK(g, p) /\ FitOK(g, p) /\ g.brk = d.brk /\ g.ok = d.ok
        /\ p \in DOMAIN g.seg \ {End(g)} /\ size <= g.seg[p].size
        /\ \A a \in DOMAIN d.seg \ {p} : /\ a \in DOMAIN g.seg /\ g.seg[a].size = d.seg[a].size
                                         /\ g.seg[a].alloc = d.seg[a].alloc
        /\ \A a \in DOMAIN g.seg \ DOMAIN d.seg : ~g.seg[a].alloc
    <3>1. p \in DOMAIN d.seg \ {End(d)} /\ size <= d.seg[p].size
      BY <2>3, <2>4, <2>6, <2>7
    <3> QED BY <1>1, <2>7, <2>8, <3>1, FragNode
  <2> HIDE DEF g
  <2>10. /\ ListOK(w) /\ w.brk = g.brk /\ w.tree = g.tree /\ w.ok = g.ok /\ DOMAIN w.seg = DOMAIN g.seg
         /\ w.seg[p].alloc = TRUE /\ \A x \in DOMAIN g.seg : /\ w.seg[x].size = g.seg[x].size
                                                             /\ x # p => w.seg[x].alloc = g.seg[x].alloc
    <3>1. PICK v \in BOOLEAN : v = TRUE
      OBVIOUS
    <3>2. p \in DOMAIN g.seg /\ w = Flagged(g, p, v) /\ ListOK(g)
      BY <2>9, <3>1 DEF Flagged
    <3> HIDE DEF w
    <3>3. /\ ListOK(w) /\ w.brk = g.brk /\ w.tree = g.tree /\ w.ok = g.ok /\ DOMAIN w.seg = DOMAIN g.seg
          /\ w.seg[p].alloc = v /\ \A x \in DOMAIN g.seg : /\ w.seg[x].size = g.seg[x].size
                                                           /\ x # p => w.seg[x].alloc = g.seg[x].alloc
      BY <3>2, SetAlloc
    <3> QED BY <3>1, <3>3
  <2> HIDE DEF w
  <2>11. End(w) = End(g) /\ End(w) = End(h)
    BY <2>6, <2>9, <2>10 DEF End
  <2>12. TreeOK(w, NULL) /\ FitOK(w, NULL)
    <3>1. \A a : a \in DOMAIN w.seg \ {End(w), NULL} /\ ~w.seg[a].alloc
                    <=> a \in DOMAIN g.seg \ {End(g), p} /\ ~g.seg[a].alloc
      BY <2>9, <2>10, <2>11, NotNull
    <3> QED BY <2>9, <2>10, <3>1 DEF TreeOK, FitOK
  <2>13. HeapOK(w)
    BY <1>2, <2>6, <2>9, <2>10, <2>12 DEF HeapOK
  <2>14. Keeps(h, w, {p})
    <3> SUFFICES ASSUME NEW a, a # p
                 PROVE  /\ a \in Allocated(w) <=> a \in Allocated(h)
                        /\ a \in Allocated(h) => w.seg[a].size = h.seg[a].size
      BY DEF Keeps
    <3>1. CASE a \in DOMAIN h.seg
      BY <2>6, <2>9, <2>10, <2>11, <3>1 DEF Allocated
    <3>2. CASE a \notin DOMAIN h.seg
      BY <2>6, <2>9, <2>10, <2>11, <3>2 DEF Allocated
    <3> QED BY <3>1, <3>2
  <2>15. p \notin Allocated(h) /\ p \in Allocated(w) /\ size <= w.seg[p].size
    BY <2>3, <2>9, <2>10, <2>11 DEF Allocated
  <2>16. r.heap = w /\ r.ptr = p /\ h.brk <= w.brk
    BY <1>2, <2>2, <2>6, <2>9, <2>10
  <2> QED BY <2>13, <2>14, <2>15, <2>16 DEF size
<1> QED BY <1>3, <1>4

\* In c the segments of h from lo up to hi are one, which is not in the tree.
Joined(h, lo, hi, c) ==
    /\ ListOK(c) /\ TreeOK(c, lo) /\ c.brk = h.brk /\ c.ok = h.ok
    /\ \A a : a \in DOMAIN c.seg <=> a \in DOMAIN h.seg /\ (a <= lo \/ hi <= a)
    /\ c.seg[lo].size = hi - lo /\ c.seg[lo].alloc = h.seg[lo].alloc
    /\ \A x \in DOMAIN c.seg \ {lo} : c.seg[x].size = h.seg[x].size /\ c.seg[x].alloc = h.seg[x].alloc

\* What mm_free and mm_realloc do to join segments joins them.
LEMMA CoalesceHeap ==
    ASSUME NEW h, ListOK(h), TreeOK(h, NULL), NEW lo \in DOMAIN h.seg, NEW hi \in DOMAIN h.seg, lo < hi,
           NEW c, c = Coalesce(h, lo, hi)
    PROVE  Joined(h, lo, hi, c)
<1> DEFINE D == DOMAIN h.seg
           inside == {a \in D : lo <= a /\ a < hi}
           E == {a \in D : a <= lo \/ hi <= a}
           t == h.tree \ {<<h.seg[a].size, a>> : a \in inside}
           f == [x \in E |-> IF x = lo THEN [h.seg[lo] EXCEPT !.size = hi - lo]
                             ELSE IF x = hi THEN [h.seg[hi] EXCEPT !.prev = lo]
                             ELSE h.seg[x]]
<1>1. h \in Heaps /\ D \in SUBSET Nat /\ lo \in Nat /\ hi \in Nat /\ lo \in D /\ hi \in D
      /\ h.tree \in SUBSET (Nat \X Nat) /\ \A a \in D : h.seg[a] \in Header
  BY ListFacts, HeapParts
<1>2. (D \ inside) \cup {lo} = E
  BY <1>1
<1>3. c = [h EXCEPT !.tree = t, !.seg = f]
  BY <1>2 DEF Coalesce, Key
<1>4. f[lo] = [h.seg[lo] EXCEPT !.size = hi - lo] /\ f[hi] = [h.seg[hi] EXCEPT !.prev = lo]
      /\ (\A x \in E \ {lo, hi} : f[x] = h.seg[x]) /\ lo \in E /\ hi \in E /\ DOMAIN f = E
  BY <1>1
<1>5. f \in [E -> Header]
  <2>1. [h.seg[lo] EXCEPT !.size = hi - lo] \in Header
    BY <1>1 DEF Header
  <2>2. [h.seg[hi] EXCEPT !.prev = lo] \in Header
    BY <1>1 DEF Header
  <2>3. ASSUME NEW x \in E PROVE f[x] \in Header
    <3>1. h.seg[x] \in Header
      BY <1>1
    <3> QED BY <2>1, <2>2, <3>1
  <2> QED BY <2>3
<1>6. /\ f[lo].size = hi - lo /\ f[lo].prev = h.seg[lo].prev /\ f[lo].alloc = h.seg[lo].alloc
      /\ f[hi].prev = lo /\ f[hi].size = h.seg[hi].size /\ f[hi].alloc = h.seg[hi].alloc
  <2> HIDE DEF f
  <2> QED BY <1>1, <1>4 DEF Header
<1> HIDE DEF f
<1>7. c \in Heaps /\ c.seg = f /\ c.tree = t /\ c.brk = h.brk /\ c.ok = h.ok
  <2>1. f \in UNION {[S -> Header] : S \in SUBSET Nat}
    BY <1>1, <1>5
  <2>2. t \in SUBSET (Nat \X Nat)
    BY <1>1
  <2> HIDE DEF t
  <2> QED BY <1>1, <1>3, <2>1, <2>2 DEF Heaps
<1>8. ListOK(c)
  <2>1. \A x \in DOMAIN c.seg \ {lo, hi} : c.seg[x] = h.seg[x]
    BY <1>4, <1>7
  <2> QED BY <1>4, <1>6, <1>7, <2>1, Merge
<1>9. \A x \in DOMAIN c.seg \ {lo} : c.seg[x].size = h.seg[x].size /\ c.seg[x].alloc = h.seg[x].alloc
  <2> SUFFICES ASSUME NEW x \in E \ {lo} PROVE f[x].size = h.seg[x].size /\ f[x].alloc = h.seg[x].alloc
    BY <1>4, <1>7
  <2>1. CASE x = hi
    BY <1>6, <2>1
  <2>2. CASE x # hi
    <3>1. f[x] = h.seg[x]
      BY <1>4, <2>2
    <3> QED BY <3>1
  <2> QED BY <2>1, <2>2
<1>10. TreeOK(c, lo)
  <2> SUFFICES ASSUME NEW k
               PROVE  k \in t <=> \E a \in E \ {End(h), lo} : ~c.seg[a].alloc /\ k = <<c.seg[a].size, a>>
    BY <1>4, <1>7 DEF TreeOK, End
  <2>1. k \in h.tree <=> \E a \in D \ {End(h)} : ~h.seg[a].alloc /\ k = <<h.seg[a].size, a>>
    BY NotNull DEF TreeOK
  <2>2. \A a \in E \ {lo} : c.seg[a].size = h.seg[a].size /\ c.seg[a].alloc = h.seg[a].alloc
    BY <1>4, <1>7, <1>9
  <2>3. \A a \in D : a \in E \ {lo} <=> a \notin inside
    BY <1>1
  <2>4. \A a \in D, b \in inside : <<h.seg[a].size, a>> = <<h.seg[b].size, b>> => a = b
    OBVIOUS
  <2>5. k \in t <=> k \in h.tree /\ \A b \in inside : k # <<h.seg[b].size, b>>
    OBVIOUS
  <2>6. E \subseteq D
    OBVIOUS
  <2> HIDE DEF t, E, inside, D
  <2>7. ASSUME k \in t PROVE \E a \in E \ {End(h), lo} : ~c.seg[a].alloc /\ k = <<c.seg[a].size, a>>
    <3>1. PICK a \in D \ {End(h)} : ~h.seg[a].alloc /\ k = <<h.seg[a].size, a>>
      BY <2>1, <2>5, <2>7
    <3>2. a \in E \ {End(h), lo}
      BY <2>3, <2>5, <2>7, <3>1
    <3> QED BY <2>2, <3>1, <3>2
  <2>8. ASSUME NEW a \in E \ {End(h), lo}, ~c.seg[a].alloc, k = <<c.seg[a].size, a>> PROVE k \in t
    <3>1. a \in D \ {End(h)} /\ a \notin inside /\ ~h.seg[a].alloc /\ k = <<h.seg[a].size, a>>
      BY <2>2, <2>3, <2>6, <2>8
    <3>2. \A b \in inside : k # <<h.seg[b].size, b>>
      BY <2>4, <3>1
    <3> QED BY <2>1, <2>5, <3>1, <3>2
  <2> QED BY <2>7, <2>8
<1> QED BY <1>4, <1>6, <1>7, <1>8, <1>9, <1>10 DEF Joined

\* A segment goes into the tree.
LEMMA InsertHeap ==
    ASSUME NEW h, ListOK(h), NEW a \in DOMAIN h.seg \ {End(h)}, TreeOK(h, a), ~h.seg[a].alloc,
           NEW g, g = mm_insert(h, a)
    PROVE  ListOK(g) /\ TreeOK(g, NULL) /\ g.seg = h.seg /\ g.brk = h.brk /\ g.ok = h.ok
<1> DEFINE t == h.tree \cup {<<h.seg[a].size, a>>}
<1>1. h \in Heaps /\ h.tree \in SUBSET (Nat \X Nat) /\ h.seg[a].size \in Nat /\ a \in Nat
  BY ListFacts, HeapParts
<1>2. t \in SUBSET (Nat \X Nat) /\ g = [h EXCEPT !.tree = t]
  BY <1>1 DEF mm_insert, Key
<1> HIDE DEF t
<1>3. g \in Heaps /\ g.seg = h.seg /\ g.brk = h.brk /\ g.tree = t /\ g.ok = h.ok
  BY <1>1, <1>2 DEF Heaps
<1>4. ListOK(g) /\ End(g) = End(h)
  BY <1>3, SameList DEF End
<1>5. TreeOK(g, NULL)
  <2>1. \A b \in DOMAIN h.seg : b # NULL
    BY NotNull
  <2> QED BY <1>3, <1>4, <2>1 DEF TreeOK, t
<1> QED BY <1>3, <1>4, <1>5

\* mm_free gives back one segment, joined with its free neighbours.
LEMMA Freed ==
    ASSUME NEW h, HeapOK(h), NEW now \in Allocated(h), NodeUnits <= h.seg[now].size,
           NEW g, g = mm_free(h, now)
    PROVE  HeapOK(g) /\ g.brk = h.brk /\ now \notin Allocated(g) /\ Keeps(h, g, {now})
<1> DEFINE D == DOMAIN h.seg
           prev == h.seg[now].prev
           next == now + h.seg[now].size
           lo == IF prev # NULL /\ ~h.seg[prev].alloc THEN prev ELSE now
           hi == IF h.seg[next].size # 0 /\ ~h.seg[next].alloc THEN next + h.seg[next].size ELSE next
           c == Coalesce(h, lo, hi)
           w == [c EXCEPT !.seg[lo].alloc = FALSE]
<1>1. ListOK(h) /\ TreeOK(h, NULL) /\ FitOK(h, NULL) /\ h.brk <= MAX_HEAP /\ h.ok
      /\ now \in D \ {End(h)} /\ h.seg[now].alloc
  BY DEF HeapOK, Allocated
<1>2. /\ \A a \in D : a \in Nat /\ h.seg[a].size \in Nat /\ h.seg[a].prev \in Nat /\ a <= End(h) /\ a # NULL
      /\ End(h) \in D /\ h.seg[End(h)].size = 0
      /\ \A a \in D \ {End(h)} :
            /\ 0 < h.seg[a].size /\ a + h.seg[a].size \in D
            /\ \A b \in D : b <= a \/ a + h.seg[a].size <= b
      /\ \A a \in D \ {FirstNode} : h.seg[a].prev \in D \ {End(h)} /\ h.seg[a].prev + h.seg[h.seg[a].prev].size = a
      /\ h.seg[FirstNode].prev = NULL
  BY <1>1, ListFacts, NotNull
<1>3. g = mm_insert(w, lo)
  BY DEF mm_free, mm_get_next, IsFree
<1> HIDE DEF D
<1>4. now \in Nat /\ next \in D /\ next \in Nat /\ now < next /\ 2 <= next - now
      /\ (\A b \in D : b <= now \/ next <= b)
  BY <1>1, <1>2 DEF NodeUnits
<1>5. /\ lo \in D \ {End(h)} /\ lo \in Nat /\ lo <= now
      /\ \A b \in D : b < lo \/ b = lo \/ now <= b
      /\ lo # now => ~h.seg[lo].alloc
  <2>1. CASE prev # NULL /\ ~h.seg[prev].alloc
    <3>1. lo = prev /\ now \in D \ {FirstNode}
      BY <1>1, <1>2, <2>1
    <3>2. prev \in D \ {End(h)} /\ prev + h.seg[prev].size = now /\ prev \in Nat /\ h.seg[prev].size \in Nat
          /\ 0 < h.seg[prev].size /\ \A b \in D : b <= prev \/ now <= b
      BY <1>2, <3>1
    <3> HIDE DEF lo, prev
    <3>3. \A b \in D : b < prev \/ b = prev \/ now <= b
      BY <1>2, <3>2
    <3>4. prev <= now
      BY <1>4, <3>2
    <3> QED BY <2>1, <3>1, <3>2, <3>3, <3>4
  <2>2. CASE ~(prev # NULL /\ ~h.seg[prev].alloc)
    <3>1. lo = now
      BY <2>2
    <3> QED BY <1>1, <1>2, <1>4, <3>1
  <2> QED BY <2>1, <2>2
<1>6. /\ hi \in D /\ hi \in Nat /\ next <= hi
      /\ \A b \in D : b <= now \/ b = next \/ hi <= b
      /\ hi # next => ~h.seg[next].alloc
  <2>1. CASE h.seg[next].size # 0 /\ ~h.seg[next].alloc
    <3>1. hi = next + h.seg[next].size /\ next \in D \ {End(h)}
      BY <1>2, <1>4, <2>1
    <3>2. hi \in D /\ h.seg[next].size \in Nat /\ \A b \in D : b <= next \/ hi <= b
      BY <1>2, <3>1
    <3>3. \A b \in D : b <= now \/ b = next \/ hi <= b
      <4> SUFFICES ASSUME NEW b \in D PROVE b <= now \/ b = next \/ hi <= b
        OBVIOUS
      <4>1. (b <= now \/ next <= b) /\ (b <= next \/ hi <= b) /\ b \in Nat
        BY <1>2, <1>4, <3>2
      <4> HIDE DEF next, hi
      <4> QED BY <1>4, <4>1
    <3> QED BY <1>2, <1>4, <2>1, <3>1, <3>2, <3>3
  <2>2. CASE ~(h.seg[next].size # 0 /\ ~h.seg[next].alloc)
    <3>1. hi = next
      BY <2>2
    <3> HIDE DEF next, hi
    <3> QED BY <1>4, <3>1
  <2> QED BY <2>1, <2>2
<1> HIDE DEF lo, hi, prev, next
<1>7. lo < hi /\ 2 <= hi - lo
  BY <1>4, <1>5, <1>6
<1>8. /\ ListOK(c) /\ TreeOK(c, lo) /\ c.brk = h.brk /\ c.ok = h.ok
      /\ \A a : a \in DOMAIN c.seg <=> a \in D /\ (a <= lo \/ hi <= a)
      /\ c.seg[lo].size = hi - lo
      /\ \A x \in DOMAIN c.seg \ {lo} : c.seg[x].size = h.seg[x].size /\ c.seg[x].alloc = h.seg[x].alloc
  <2>1. lo \in DOMAIN h.seg /\ hi \in DOMAIN h.seg /\ lo < hi /\ c = Coalesce(h, lo, hi) /\ ListOK(h) /\ TreeOK(h, NULL)
    BY <1>1, <1>5, <1>6, <1>7 DEF D
  <2> HIDE DEF c
  <2>2. Joined(h, lo, hi, c)
    BY <2>1, CoalesceHeap
  <2> QED BY <2>2 DEF D, Joined
<1> HIDE DEF c
<1>9. lo \in DOMAIN c.seg /\ End(c) = End(h)
  BY <1>5, <1>8 DEF End
<1>10. /\ ListOK(w) /\ w.brk = c.brk /\ w.tree = c.tree /\ w.ok = c.ok /\ DOMAIN w.seg = DOMAIN c.seg
       /\ w.seg[lo].alloc = FALSE
       /\ \A x \in DOMAIN c.seg : /\ w.seg[x].size = c.seg[x].size
                                  /\ x # lo => w.seg[x].alloc = c.seg[x].alloc
  <2>1. PICK v \in BOOLEAN : v = FALSE
    OBVIOUS
  <2>2. w = Flagged(c, lo, v)
    BY <2>1 DEF Flagged
  <2> HIDE DEF w
  <2>3. /\ ListOK(w) /\ w.brk = c.brk /\ w.tree = c.tree /\ w.ok = c.ok /\ DOMAIN w.seg = DOMAIN c.seg
        /\ w.seg[lo].alloc = v
        /\ \A x \in DOMAIN c.seg : /\ w.seg[x].size = c.seg[x].size
                                   /\ x # lo => w.seg[x].alloc = c.seg[x].alloc
    BY <1>8, <1>9, <2>2, SetAlloc
  <2> QED BY <2>1, <2>3
<1> HIDE DEF w
<1>11. End(w) = End(h) /\ lo \in DOMAIN w.seg \ {End(w)} /\ ~w.seg[lo].alloc
  BY <1>5, <1>8, <1>9, <1>10 DEF End
<1>12. TreeOK(w, lo)
  <2>1. \A a \in DOMAIN c.seg \ {lo} : w.seg[a].size = c.seg[a].size /\ w.seg[a].alloc = c.seg[a].alloc
    BY <1>10
  <2> QED BY <1>8, <1>9, <1>10, <1>11, <2>1 DEF TreeOK
<1>13. ListOK(g) /\ TreeOK(g, NULL) /\ g.seg = w.seg /\ g.brk = h.brk /\ g.ok = h.ok
  BY <1>3, <1>8, <1>10, <1>11, <1>12, InsertHeap
<1>14. /\ \A a : a \in DOMAIN g.seg <=> a \in D /\ (a <= lo \/ hi <= a)
       /\ g.seg[lo].size = hi - lo /\ ~g.seg[lo].alloc
       /\ \A x \in DOMAIN g.seg \ {lo} : g.seg[x].size = h.seg[x].size /\ g.seg[x].alloc = h.seg[x].alloc
       /\ End(g) = End(h)
  BY <1>8, <1>9, <1>10, <1>11, <1>13 DEF End
<1>15. FitOK(g, NULL)
  <2>1. \A a \in D \ {End(h)} : ~h.seg[a].alloc => NodeUnits <= h.seg[a].size
    BY <1>1, <1>2 DEF FitOK, D
  <2> SUFFICES ASSUME NEW a \in DOMAIN g.seg \ {End(g)}, ~g.seg[a].alloc PROVE NodeUnits <= g.seg[a].size
    BY DEF FitOK
  <2>2. CASE a = lo
    BY <1>7, <1>14, <2>2 DEF NodeUnits
  <2>3. CASE a # lo
    BY <1>14, <2>1, <2>3
  <2> QED BY <2>2, <2>3
<1>16. HeapOK(g)
  BY <1>1, <1>13, <1>15 DEF HeapOK
<1>17. now \notin Allocated(g)
  <2>1. now \in DOMAIN g.seg => now = lo
    BY <1>4, <1>5, <1>6, <1>14
  <2> QED BY <1>14, <2>1 DEF Allocated
<1>18. Keeps(h, g, {now})
  <2> SUFFICES ASSUME NEW a, a # now
               PROVE  /\ a \in Allocated(g) <=> a \in Allocated(h)
                      /\ a \in Allocated(h) => g.seg[a].size = h.seg[a].size
    BY DEF Keeps
  <2>1. CASE a \in DOMAIN g.seg \ {lo}
    BY <1>14, <2>1 DEF Allocated, D
  <2>2. CASE a \notin DOMAIN g.seg \ {lo}
    <3>1. a \notin Allocated(g)
      BY <1>14, <2>2 DEF Allocated
    <3>2. a \notin Allocated(h)
      <4> SUFFICES ASSUME a \in D \ {End(h)}, h.seg[a].alloc PROVE FALSE
        BY DEF Allocated, D
      <4>1. a \in Nat /\ (a = lo \/ (lo < a /\ a < hi))
        BY <1>2, <1>5, <1>6, <1>14, <2>2
      <4>2. a # lo
        BY <1>5
      <4>3. (a < lo \/ a = lo \/ now <= a) /\ (a <= now \/ a = next \/ hi <= a)
        BY <1>5, <1>6
      <4>4. a = next /\ hi # next
        BY <1>4, <1>5, <1>6, <4>1, <4>2, <4>3
      <4> QED BY <1>6, <4>4
    <3> QED BY <3>1, <3>2
  <2> QED BY <2>1, <2>2
<1> QED BY <1>13, <1>16, <1>17, <1>18

\* Where the loops of mm_realloc stop, and what they have passed.
LEMMA ScanStops ==
    ASSUME NEW h, ListOK(h), NEW now \in DOMAIN h.seg \ {End(h)}, NEW size \in Nat,
           NEW e, e = ScanEnd(h, now, size)
    PROVE  /\ e \in DOMAIN h.seg /\ now < e /\ (~IsFree(h, e) \/ e - now >= size)
           /\ \A a \in DOMAIN h.seg : now < a /\ a < e => IsFree(h, a) /\ a - now < size
<1> DEFINE T == {a \in DOMAIN h.seg : now < a /\ (~IsFree(h, a) \/ a - now >= size)}
<1>1. /\ \A a \in DOMAIN h.seg : a \in Nat /\ a <= End(h)
      /\ End(h) \in DOMAIN h.seg /\ h.seg[End(h)].size = 0 /\ now \in DOMAIN h.seg
  BY ListFacts
<1>2. now \in Nat /\ End(h) \in Nat /\ now < End(h)
  BY <1>1
<1>3. End(h) \in T
  BY <1>1, <1>2 DEF IsFree
<1>4. T \in SUBSET Nat /\ T # {}
  BY <1>1, <1>3
<1>5. e = CHOOSE x \in T : \A y \in T : x <= y
  BY DEF ScanEnd, Min
<1> HIDE DEF T
<1>6. \E x \in T : \A y \in T : x <= y
  BY <1>4, LeastNumber
<1>7. e \in T /\ \A y \in T : e <= y
  BY <1>5, <1>6
<1>8. e \in DOMAIN h.seg /\ now < e /\ (~IsFree(h, e) \/ e - now >= size)
  BY <1>7 DEF T
<1>9. ASSUME NEW a \in DOMAIN h.seg, now < a, a < e PROVE IsFree(h, a) /\ a - now < size
  <2>1. a \notin T
    BY <1>1, <1>7, <1>8, <1>9
  <2>2. IsFree(h, a) /\ ~(a - now >= size)
    BY <1>9, <2>1 DEF T
  <2> QED BY <1>1, <1>2, <2>2
<1> QED BY <1>8, <1>9

\* mm_realloc joins a segment with the free ones after it, one of which (x) may be
\* too small for a node.
LEMMA JoinRight ==
    ASSUME NEW h, ListOK(h), TreeOK(h, NULL), h.brk <= MAX_HEAP, h.ok,
           NEW now \in Allocated(h), NEW hi \in DOMAIN h.seg, now < hi,
           \A a \in DOMAIN h.seg : now < a /\ a < hi => ~h.seg[a].alloc,
           NEW x, FitOK(h, x), x = NULL \/ (x \in DOMAIN h.seg /\ now < x /\ x < hi),
           NEW c, c = Coalesce(h, now, hi)
    PROVE  /\ HeapOK(c) /\ c.brk = h.brk /\ now \in Allocated(c) /\ c.seg[now].size = hi - now
           /\ Keeps(h, c, {now})
<1>1. now \in DOMAIN h.seg \ {End(h)} /\ h.seg[now].alloc
  BY DEF Allocated
<1>2. /\ \A a \in DOMAIN h.seg : a \in Nat /\ a # NULL
  BY ListFacts, NotNull
<1>3. Joined(h, now, hi, c)
  BY <1>1, CoalesceHeap
<1>4. /\ ListOK(c) /\ TreeOK(c, now) /\ c.brk = h.brk /\ c.ok = h.ok
      /\ \A a : a \in DOMAIN c.seg <=> a \in DOMAIN h.seg /\ (a <= now \/ hi <= a)
      /\ c.seg[now].size = hi - now /\ c.seg[now].alloc = h.seg[now].alloc
      /\ \A y \in DOMAIN c.seg \ {now} : c.seg[y].size = h.seg[y].size /\ c.seg[y].alloc = h.seg[y].alloc
  BY <1>3 DEF Joined
<1>5. End(c) = End(h) /\ now \in DOMAIN c.seg \ {End(c)}
  BY <1>1, <1>2, <1>4 DEF End
<1>6. TreeOK(c, NULL)
  <2>1. \A a : a \in DOMAIN c.seg \ {End(c), NULL} /\ ~c.seg[a].alloc
                 <=> a \in DOMAIN c.seg \ {End(c), now} /\ ~c.seg[a].alloc
    BY <1>1, <1>2, <1>4
  <2> QED BY <1>4, <2>1 DEF TreeOK
<1>7. FitOK(c, NULL)
  <2> SUFFICES ASSUME NEW a \in DOMAIN c.seg \ {End(c)}, ~c.seg[a].alloc PROVE NodeUnits <= c.seg[a].size
    BY DEF FitOK
  <2>1. a # now /\ a \in DOMAIN h.seg \ {End(h)} /\ (a <= now \/ hi <= a)
    BY <1>1, <1>4, <1>5
  <2>2. a # x
    BY <1>1, <1>2, <2>1
  <2> QED BY <1>4, <2>1, <2>2 DEF FitOK
<1>8. HeapOK(c) /\ now \in Allocated(c)
  BY <1>1, <1>4, <1>5, <1>6, <1>7 DEF HeapOK, Allocated
<1>9. Keeps(h, c, {now})
  <2> SUFFICES ASSUME NEW a, a # now
               PROVE  /\ a \in Allocated(c) <=> a \in Allocated(h)
                      /\ a \in Allocated(h) => c.seg[a].size = h.seg[a].size
    BY DEF Keeps
  <2>1. CASE a \in DOMAIN c.seg
    BY <1>4, <1>5, <2>1 DEF Allocated
  <2>2. CASE a \notin DOMAIN c.seg
    <3>1. a \in DOMAIN h.seg => now < a /\ a < hi
      BY <1>1, <1>2, <1>4, <2>2
    <3> QED BY <2>2, <3>1 DEF Allocated
  <2> QED BY <2>1, <2>2
<1> QED BY <1>4, <1>8, <1>9

\* When mem_sbrk fails, nothing else happens.
LEMMA GrowFails ==
    ASSUME NEW h, HeapOK(h), NEW n \in Nat \ {0}, ~Grow(h, n).ok
    PROVE  Grow(h, n) = [h EXCEPT !.ok = FALSE]
<1>1. h \in Heaps /\ h.ok
  BY ListFacts DEF HeapOK
<1> QED BY <1>1 DEF Grow, Heaps

\* mm_sbrk returns a heap also when mem_sbrk has failed.
LEMMA SbrkIsHeap ==
    ASSUME NEW h, HeapOK(h), NEW n \in Nat \ {0}, NEW g, g = mm_sbrk(h, n)
    PROVE  g \in Heaps
<1>1. h \in Heaps /\ h.ok
  BY ListFacts DEF HeapOK
<1>2. CASE g.ok
  <2>1. HeapOK(g)
    BY <1>2, SbrkHeap
  <2> QED BY <2>1, ListFacts DEF HeapOK
<1>3. CASE ~g.ok
  <2>1. CASE n >= MM_UNIT
    <3>1. g = Grow(h, n)
      BY <2>1 DEF mm_sbrk
    <3>2. g = [h EXCEPT !.ok = FALSE]
      BY <1>3, <3>1, GrowFails
    <3> QED BY <1>1, <3>2 DEF Heaps
  <2>2. CASE ~(n >= MM_UNIT)
    <3> DEFINE u == Grow(h, MM_UNIT)
    <3>1. g = IF u.ok THEN mm_frag_node(u, End(h), n + 1) ELSE u
      BY <2>2 DEF mm_sbrk, End
    <3> HIDE DEF u
    <3>2. CASE u.ok
      <4>1. HeapOK(u)
        BY <3>2, GrowHeap DEF u
      <4>2. u \in Heaps
        BY <4>1, ListFacts DEF HeapOK
      <4>3. g.ok = u.ok
        BY <3>1, <3>2, <4>2 DEF mm_frag_node, mm_insert, Heaps
      <4> QED BY <1>3, <3>2, <4>3
    <3>3. CASE ~u.ok
      <4>1. u = [h EXCEPT !.ok = FALSE]
        BY <3>3, GrowFails DEF u
      <4> QED BY <1>1, <3>1, <3>3, <4>1 DEF Heaps
    <3> QED BY <3>2, <3>3
  <2> QED BY <2>1, <2>2
<1> QED BY <1>2, <1>3

\* Heap m is heap h with a free segment of at least n units appended, which may
\* be too small for a node.
Appended(h, n, m) ==
    /\ ListOK(m) /\ TreeOK(m, NULL) /\ FitOK(m, End(h)) /\ m.brk <= MAX_HEAP /\ m.ok /\ h.brk <= m.brk
    /\ End(h) \in DOMAIN m.seg \ {End(m)} /\ n <= m.seg[End(h)].size /\ ~m.seg[End(h)].alloc
    /\ Keeps(h, m, {})
    /\ \A a \in DOMAIN h.seg \ {End(h)} : /\ a \in DOMAIN m.seg /\ m.seg[a].size = h.seg[a].size
                                          /\ m.seg[a].alloc = h.seg[a].alloc
    /\ \A a \in DOMAIN m.seg \ DOMAIN h.seg : End(h) <= a

\* mm_realloc at the end of the heap: the heap grows by a free segment.
LEMMA GrowFree ==
    ASSUME NEW h, HeapOK(h), NEW n \in Nat \ {0}, NEW g, g = mm_sbrk(h, n), g.ok,
           NEW v \in BOOLEAN, v = FALSE, NEW w, w = Flagged(g, End(h), v), NEW m, m = mm_insert(w, End(h))
    PROVE  Appended(h, n, m)
<1> DEFINE e == End(h)
<1>1. /\ HeapOK(g) /\ h.brk <= g.brk /\ e \in Allocated(g) /\ n <= g.seg[e].size
      /\ \A a \in DOMAIN h.seg \ {e} : /\ a \in DOMAIN g.seg /\ g.seg[a].size = h.seg[a].size
                                       /\ g.seg[a].alloc = h.seg[a].alloc
      /\ \A a \in DOMAIN g.seg \ DOMAIN h.seg : e + g.seg[e].size <= a
  BY SbrkHeap
<1>2. Keeps(h, g, {e})
  BY SbrkKeeps
<1> HIDE DEF e
<1>3. ListOK(g) /\ TreeOK(g, NULL) /\ FitOK(g, NULL) /\ g.brk <= MAX_HEAP /\ e \in DOMAIN g.seg \ {End(g)}
      /\ g.seg[e].alloc /\ \A a \in DOMAIN g.seg : a \in Nat /\ g.seg[a].size \in Nat /\ a # NULL
  BY <1>1, ListFacts, NotNull DEF HeapOK, Allocated
<1>4. /\ ListOK(w) /\ w.brk = g.brk /\ w.tree = g.tree /\ w.ok = g.ok /\ DOMAIN w.seg = DOMAIN g.seg
      /\ ~w.seg[e].alloc /\ \A x \in DOMAIN g.seg : /\ w.seg[x].size = g.seg[x].size
                                                    /\ x # e => w.seg[x].alloc = g.seg[x].alloc
  <2>2. ListOK(g) /\ e \in DOMAIN g.seg /\ v \in BOOLEAN /\ w = Flagged(g, e, v)
    BY <1>3 DEF e
  <2>3. /\ ListOK(w) /\ w.brk = g.brk /\ w.tree = g.tree /\ w.ok = g.ok /\ DOMAIN w.seg = DOMAIN g.seg
        /\ w.seg[e].alloc = v /\ \A x \in DOMAIN g.seg : /\ w.seg[x].size = g.seg[x].size
                                                         /\ x # e => w.seg[x].alloc = g.seg[x].alloc
    BY ONLY <2>2, SetAlloc
  <2> QED BY <2>3
<1>5. End(w) = End(g)
  BY <1>4 DEF End
<1>6. TreeOK(w, e) /\ FitOK(w, e)
  <2>1. \A a : a \in DOMAIN w.seg \ {End(w), e} /\ ~w.seg[a].alloc
                 <=> a \in DOMAIN g.seg \ {End(g), NULL} /\ ~g.seg[a].alloc
    BY <1>3, <1>4, <1>5
  <2> QED BY <1>3, <1>4, <2>1 DEF TreeOK, FitOK
<1>7. ListOK(m) /\ TreeOK(m, NULL) /\ m.seg = w.seg /\ m.brk = w.brk /\ m.ok = w.ok
  <2>1. ListOK(w) /\ e \in DOMAIN w.seg \ {End(w)} /\ TreeOK(w, e) /\ ~w.seg[e].alloc /\ m = mm_insert(w, e)
    BY <1>3, <1>4, <1>5, <1>6 DEF e
  <2> QED BY ONLY <2>1, InsertHeap
<1>8. End(m) = End(g) /\ FitOK(m, e)
  BY <1>4, <1>6, <1>7 DEF End, FitOK
<1>9. /\ e \in DOMAIN m.seg \ {End(m)} /\ n <= m.seg[e].size /\ ~m.seg[e].alloc
      /\ m.brk <= MAX_HEAP /\ m.ok /\ h.brk <= m.brk
  BY <1>1, <1>3, <1>4, <1>7, <1>8
<1>10. Keeps(h, m, {})
  <2> SUFFICES ASSUME NEW a PROVE /\ a \in Allocated(m) <=> a \in Allocated(h)
                                  /\ a \in Allocated(h) => m.seg[a].size = h.seg[a].size
    BY DEF Keeps
  <2>1. CASE a = e
    BY <1>9, <2>1 DEF Allocated, e
  <2>2. CASE a # e
    <3>1. /\ a \in Allocated(g) <=> a \in Allocated(h)
          /\ a \in Allocated(h) => g.seg[a].size = h.seg[a].size
      BY <1>2, <2>2 DEF Keeps
    <3> QED BY <1>4, <1>7, <1>8, <2>2, <3>1 DEF Allocated
  <2> QED BY <2>1, <2>2
<1>11. /\ \A a \in DOMAIN h.seg \ {e} : /\ a \in DOMAIN m.seg /\ m.seg[a].size = h.seg[a].size
                                        /\ m.seg[a].alloc = h.seg[a].alloc
  <2> SUFFICES ASSUME NEW a \in DOMAIN h.seg \ {e}
               PROVE  a \in DOMAIN m.seg /\ m.seg[a].size = h.seg[a].size /\ m.seg[a].alloc = h.seg[a].alloc
    OBVIOUS
  <2> QED BY <1>1, <1>4, <1>7
<1>12. \A a \in DOMAIN m.seg \ DOMAIN h.seg : e <= a
  BY <1>1, <1>3, <1>4, <1>7
<1> QED BY <1>7, <1>8, <1>9, <1>10, <1>11, <1>12 DEF e, Appended

\* What a caller of mm_realloc relies on: r is the result for the segment at now
\* of heap h and a request that needs size units.
Resized(h, now, size, r) ==
    /\ HeapOK(r.heap) /\ h.brk <= r.heap.brk
    /\ r.ptr \in Allocated(r.heap) /\ size <= r.heap.seg[r.ptr].size
    /\ Keeps(h, r.heap, {now, r.ptr})
    /\ \/ r.ptr = now /\ r.copied = 0
       \/ /\ r.ptr \notin Allocated(h) /\ now \notin Allocated(r.heap)
          /\ r.copied = h.seg[now].size - 1 /\ h.seg[now].size < size

\* mm_realloc that shrinks a segment.
LEMMA Shrunk ==
    ASSUME NEW h, HeapOK(h), NEW now \in Allocated(h), NEW size \in Nat \ {0}, size <= h.seg[now].size,
           NEW g, g = mm_frag_node(h, now, size)
    PROVE  Resized(h, now, size, [heap |-> g, ptr |-> now, copied |-> 0])
<1>1. ListOK(h) /\ TreeOK(h, NULL) /\ FitOK(h, NULL) /\ h.brk <= MAX_HEAP /\ h.ok /\ h.brk \in Nat
      /\ now \in DOMAIN h.seg \ {End(h)} /\ h.seg[now].alloc
  BY ListFacts DEF HeapOK, Allocated
<1>2. \A a \in DOMAIN h.seg : a # NULL
  BY <1>1, NotNull
<1>3. TreeOK(h, now) /\ FitOK(h, now)
  <2>1. \A a : a \in DOMAIN h.seg \ {End(h), now} /\ ~h.seg[a].alloc
                 <=> a \in DOMAIN h.seg \ {End(h), NULL} /\ ~h.seg[a].alloc
    BY <1>1, <1>2
  <2> QED BY <1>1, <2>1 DEF TreeOK, FitOK
<1>4. /\ ListOK(g) /\ TreeOK(g, now) /\ FitOK(g, now) /\ g.brk = h.brk /\ g.ok = h.ok
      /\ now \in DOMAIN g.seg \ {End(g)} /\ size <= g.seg[now].size
      /\ g.seg[now].alloc = h.seg[now].alloc
      /\ \A a \in DOMAIN h.seg \ {now} : /\ a \in DOMAIN g.seg /\ g.seg[a].size = h.seg[a].size
                                         /\ g.seg[a].alloc = h.seg[a].alloc
      /\ \A a \in DOMAIN g.seg \ DOMAIN h.seg : ~g.seg[a].alloc
  <2>1. ListOK(h) /\ now \in DOMAIN h.seg \ {End(h)} /\ TreeOK(h, now) /\ FitOK(h, now)
        /\ size \in Nat \ {0} /\ size <= h.seg[now].size /\ g = mm_frag_node(h, now, size)
    BY <1>1, <1>3
  <2> QED BY ONLY <2>1, FragNode
<1>5. End(g) = End(h) /\ \A a \in DOMAIN g.seg : a # NULL
  BY <1>4, NotNull DEF End
<1>6. HeapOK(g)
  <2>1. \A a : a \in DOMAIN g.seg \ {End(g), now} /\ ~g.seg[a].alloc
                 <=> a \in DOMAIN g.seg \ {End(g), NULL} /\ ~g.seg[a].alloc
    BY <1>1, <1>4, <1>5
  <2>2. TreeOK(g, NULL) /\ FitOK(g, NULL)
    BY <1>4, <2>1 DEF TreeOK, FitOK
  <2> QED BY <1>1, <1>4, <2>2 DEF HeapOK
<1>7. Keeps(h, g, {now})
  <2> SUFFICES ASSUME NEW a, a # now
               PROVE  /\ a \in Allocated(g) <=> a \in Allocated(h)
                      /\ a \in Allocated(h) => g.seg[a].size = h.seg[a].size
    BY DEF Keeps
  <2>1. CASE a \in DOMAIN h.seg
    BY <1>4, <1>5, <2>1 DEF Allocated
  <2>2. CASE a \notin DOMAIN h.seg
    BY <1>4, <1>5, <2>2 DEF Allocated
  <2> QED BY <2>1, <2>2
<1>8. now \in Allocated(g) /\ h.brk <= g.brk
  <2>1. g.seg[now].alloc
    BY <1>1, <1>4
  <2> QED BY <1>1, <1>4, <2>1 DEF Allocated
<1> QED BY <1>4, <1>6, <1>7, <1>8 DEF Resized

\* mm_realloc that moves: a new segment, and the old one is freed.
LEMMA Moved ==
    ASSUME NEW h, HeapOK(h), NEW now \in Allocated(h), NodeUnits <= h.seg[now].size,
           NEW bytes \in Nat, h.seg[now].size < SegmentSize(bytes),
           NEW n, n = mm_malloc(h, bytes), NEW g, g = mm_free(n.heap, now), n.heap.ok
    PROVE  Resized(h, now, SegmentSize(bytes), [heap |-> g, ptr |-> n.ptr, copied |-> h.seg[now].size - 1])
<1>1. /\ HeapOK(n.heap) /\ h.brk <= n.heap.brk
      /\ n.ptr \notin Allocated(h) /\ n.ptr \in Allocated(n.heap)
      /\ SegmentSize(bytes) <= n.heap.seg[n.ptr].size /\ Keeps(h, n.heap, {n.ptr})
  BY Malloc
<1>2. now # n.ptr /\ now \in Allocated(n.heap) /\ n.heap.seg[now].size = h.seg[now].size
  BY <1>1 DEF Keeps
<1>3. HeapOK(g) /\ g.brk = n.heap.brk /\ now \notin Allocated(g) /\ Keeps(n.heap, g, {now})
  BY <1>1, <1>2, Freed
<1>4. n.ptr \in Allocated(g) /\ g.seg[n.ptr].size = n.heap.seg[n.ptr].size
  BY <1>1, <1>2, <1>3 DEF Keeps
<1>5. Keeps(h, g, {now, n.ptr})
  BY <1>1, <1>3 DEF Keeps
<1> QED BY <1>1, <1>3, <1>4, <1>5 DEF Resized

\* mm_realloc that finds enough free segments after the one to grow.
LEMMA InPlace ==
    ASSUME NEW h, HeapOK(h), NEW now \in Allocated(h), NEW size \in Nat \ {0},
           NEW e, e = ScanEnd(h, now, size), size <= e - now, NEW c, c = Coalesce(h, now, e)
    PROVE  Resized(h, now, size, [heap |-> c, ptr |-> now, copied |-> 0])
<1>1. ListOK(h) /\ TreeOK(h, NULL) /\ FitOK(h, NULL) /\ h.brk <= MAX_HEAP /\ h.ok /\ h.brk \in Nat
      /\ now \in DOMAIN h.seg \ {End(h)}
  BY ListFacts DEF HeapOK, Allocated
<1>2. e \in DOMAIN h.seg /\ now < e /\ \A a \in DOMAIN h.seg : now < a /\ a < e => IsFree(h, a)
  BY <1>1, ScanStops
<1>3. \A a \in DOMAIN h.seg : now < a /\ a < e => ~h.seg[a].alloc
  BY <1>2 DEF IsFree
<1>4. HeapOK(c) /\ c.brk = h.brk /\ now \in Allocated(c) /\ c.seg[now].size = e - now /\ Keeps(h, c, {now})
  BY <1>1, <1>2, <1>3, JoinRight
<1>5. h.brk <= c.brk /\ size <= c.seg[now].size
  BY <1>1, <1>4
<1> QED BY ONLY <1>4, <1>5 DEF Resized

\* mm_realloc that reaches the end of the heap and lets it grow.
LEMMA InPlaceGrown ==
    ASSUME NEW h, HeapOK(h), NEW now \in Allocated(h), NEW size \in Nat \ {0},
           NEW e, e = ScanEnd(h, now, size), e - now < size, h.seg[e].size = 0,
           NEW g, g = mm_sbrk(h, size - (e - now)),
           NEW v \in BOOLEAN, v = FALSE, NEW w, w = Flagged(g, e, v), NEW m, m = mm_insert(w, e),
           NEW c, c = Coalesce(m, now, ScanEnd(m, now, size)), c.ok
    PROVE  Resized(h, now, size, [heap |-> c, ptr |-> now, copied |-> 0])
<1> DEFINE n == size - (e - now)  hi == ScanEnd(m, now, size)
<1>1. ListOK(h) /\ now \in DOMAIN h.seg \ {End(h)} /\ h.seg[now].alloc
  BY DEF HeapOK, Allocated
<1>2. /\ e \in DOMAIN h.seg /\ now < e
      /\ \A a \in DOMAIN h.seg : now < a /\ a < e => IsFree(h, a) /\ a - now < size
  BY <1>1, ScanStops
<1>3. e = End(h) /\ now \in Nat /\ e \in Nat /\ n \in Nat \ {0} /\ \A a \in DOMAIN h.seg : a \in Nat /\ a <= End(h)
  <2>1. /\ \A a \in DOMAIN h.seg : a \in Nat /\ a <= End(h)
        /\ \A a \in DOMAIN h.seg \ {End(h)} : 0 < h.seg[a].size
    BY <1>1, ListFacts
  <2>2. now \in Nat /\ e \in Nat /\ n \in Nat \ {0}
    BY <1>1, <1>2, <2>1
  <2>3. e = End(h)
    BY <1>2, <2>1
  <2> QED BY <2>1, <2>2, <2>3
<1>4. g = mm_sbrk(h, n)
  OBVIOUS
<1> HIDE DEF n
<1>5. g.ok
  <2>1. g \in Heaps
    BY ONLY <1>3, <1>4, HeapOK(h), SbrkIsHeap
  <2>2. w.ok = g.ok /\ DOMAIN w = DOMAIN g
    BY <2>1 DEF Flagged, Heaps
  <2>3. m.ok = w.ok /\ DOMAIN m = DOMAIN w
    BY <2>1, <2>2 DEF mm_insert, Heaps
  <2>4. c.ok = m.ok
    BY <2>1, <2>2, <2>3 DEF Coalesce, Heaps
  <2> QED BY <2>2, <2>3, <2>4
<1>6. /\ ListOK(m) /\ TreeOK(m, NULL) /\ FitOK(m, e) /\ m.brk <= MAX_HEAP /\ m.ok /\ h.brk <= m.brk
      /\ e \in DOMAIN m.seg \ {End(m)} /\ n <= m.seg[e].size /\ ~m.seg[e].alloc
      /\ Keeps(h, m, {})
      /\ \A a \in DOMAIN h.seg \ {e} : /\ a \in DOMAIN m.seg /\ m.seg[a].size = h.seg[a].size
                                       /\ m.seg[a].alloc = h.seg[a].alloc
      /\ \A a \in DOMAIN m.seg \ DOMAIN h.seg : e <= a
  <2>1. /\ HeapOK(h) /\ n \in Nat \ {0} /\ g = mm_sbrk(h, n) /\ g.ok
        /\ v \in BOOLEAN /\ v = FALSE /\ w = Flagged(g, End(h), v) /\ m = mm_insert(w, End(h))
    BY <1>3, <1>4, <1>5
  <2>2. Appended(h, n, m)
    BY ONLY <2>1, GrowFree
  <2> QED BY <1>3, <2>2 DEF Appended
<1>7. now \in Allocated(m) /\ now \in DOMAIN m.seg \ {End(m)}
  BY <1>6 DEF Keeps, Allocated
<1>8. /\ hi \in DOMAIN m.seg /\ now < hi /\ (~IsFree(m, hi) \/ hi - now >= size)
      /\ \A a \in DOMAIN m.seg : now < a /\ a < hi => IsFree(m, a) /\ a - now < size
  BY <1>6, <1>7, ScanStops
<1> HIDE DEF hi
<1>9. \A a \in DOMAIN m.seg : a \in Nat /\ m.seg[a].size \in Nat
  BY <1>6, ListFacts
<1>10. e < hi
  <2> SUFFICES ASSUME hi <= e PROVE FALSE
    BY <1>3, <1>8, <1>9
  <2>1. CASE hi = e
    BY <1>3, <1>6, <1>8, <1>9, <2>1 DEF IsFree
  <2>2. CASE hi # e
    <3>1. hi < e /\ hi \in DOMAIN h.seg
      BY <1>3, <1>6, <1>8, <1>9, <2>2
    <3>2. IsFree(h, hi) /\ hi - now < size
      BY <1>2, <1>8, <3>1
    <3>3. IsFree(m, hi)
      BY <1>6, <2>2, <3>1, <3>2 DEF IsFree
    <3> QED BY <1>3, <1>8, <1>9, <3>2, <3>3
  <2> QED BY <2>1, <2>2
<1>11. e + m.seg[e].size <= hi /\ size <= hi - now
  <2>1. \A b \in DOMAIN m.seg : b <= e \/ e + m.seg[e].size <= b
    BY <1>6, ListFacts
  <2> QED BY <1>3, <1>6, <1>8, <1>9, <1>10, <2>1 DEF n
<1>12. \A a \in DOMAIN m.seg : now < a /\ a < hi => ~m.seg[a].alloc
  BY <1>8 DEF IsFree
<1>13. HeapOK(c) /\ c.brk = m.brk /\ now \in Allocated(c) /\ c.seg[now].size = hi - now /\ Keeps(m, c, {now})
  <2>1. c = Coalesce(m, now, hi) /\ e \in DOMAIN m.seg /\ now < e
    BY <1>2, <1>6 DEF hi
  <2>2. ListOK(m) /\ TreeOK(m, NULL) /\ m.brk <= MAX_HEAP /\ m.ok /\ now \in Allocated(m)
        /\ hi \in DOMAIN m.seg /\ now < hi /\ FitOK(m, e)
    BY <1>6, <1>7, <1>8
  <2> QED BY ONLY <1>10, <1>12, <2>1, <2>2, JoinRight
<1>14. Keeps(h, c, {now})
  BY <1>6, <1>13 DEF Keeps
<1>15. h.brk <= c.brk /\ size <= c.seg[now].size
  BY <1>6, <1>11, <1>13
<1> QED BY ONLY <1>13, <1>14, <1>15 DEF Resized

\* mm_malloc returns a heap also when mem_sbrk has failed.
LEMMA MallocIsHeap ==
    ASSUME NEW h, HeapOK(h), NEW bytes \in Nat
    PROVE  mm_malloc(h, bytes).heap \in Heaps
<1> DEFINE r == mm_malloc(h, bytes)  size == SegmentSize(bytes)
<1>1. CASE r.heap.ok
  <2>1. HeapOK(r.heap)
    BY <1>1, Malloc
  <2> QED BY <2>1, ListFacts DEF HeapOK
<1>2. CASE ~r.heap.ok
  <2>1. size \in Nat \ {0}
    BY DEF SegmentSize
  <2>2. CASE Index!Fitting(h.tree, size) = {}
    <3>1. r.heap = mm_sbrk(h, size)
      BY <2>2 DEF mm_malloc
    <3> HIDE DEF size
    <3> QED BY <2>1, <3>1, SbrkIsHeap
  <2>3. CASE Index!Fitting(h.tree, size) # {}
    <3> DEFINE p == Index!BestFit(h.tree, size)[2]
    <3>1. r.heap = [mm_frag_node(mm_delete(h, p), p, size) EXCEPT !.seg[p].alloc = TRUE]
      BY <2>3 DEF mm_malloc
    <3>2. h \in Heaps /\ h.ok
      BY ListFacts DEF HeapOK
    <3> HIDE DEF size, p
    <3>3. mm_delete(h, p).ok /\ DOMAIN mm_delete(h, p) = DOMAIN h
      BY <3>2 DEF mm_delete, Heaps
    <3>4. mm_frag_node(mm_delete(h, p), p, size).ok /\ DOMAIN mm_frag_node(mm_delete(h, p), p, size) = DOMAIN h
      BY <3>2, <3>3 DEF mm_frag_node, mm_insert, Heaps
    <3>5. r.heap.ok
      BY <3>1, <3>2, <3>4 DEF Heaps
    <3> QED BY <1>2, <3>5
  <2> QED BY <2>2, <2>3
<1> QED BY <1>1, <1>2

\* mm_free changes nothing in a heap that could not grow.
LEMMA FreeKeepsOk ==
    ASSUME NEW h \in Heaps, NEW now PROVE mm_free(h, now).ok = h.ok
  BY DEF mm_free, Coalesce, mm_insert, Heaps

\* mm_realloc of a segment.
LEMMA Reallocated ==
    ASSUME NEW h, HeapOK(h), NEW now \in Allocated(h), NodeUnits <= h.seg[now].size, NEW bytes \in Nat,
           NEW r, r = Reallocate(h, now, bytes), r.heap.ok
    PROVE  Resized(h, now, SegmentSize(bytes), r)
<1> DEFINE size == SegmentSize(bytes)
           end == ScanEnd(h, now, size)
           lacking == size - (end - now)
           grown == mm_sbrk(h, lacking)
           more == IF lacking > 0 THEN mm_insert([grown EXCEPT !.seg[end].alloc = FALSE], end) ELSE h
           new == mm_malloc(h, bytes)
<1>1. size \in Nat \ {0}
  BY DEF SegmentSize
<1>2. ListOK(h) /\ now \in DOMAIN h.seg \ {End(h)} /\ now \in Nat /\ h.seg[now].size \in Nat
      /\ end \in DOMAIN h.seg /\ now < end /\ end \in Nat
  <2>1. ListOK(h) /\ now \in DOMAIN h.seg \ {End(h)}
    BY DEF HeapOK, Allocated
  <2> HIDE DEF size
  <2>2. end \in DOMAIN h.seg /\ now < end
    BY <1>1, <2>1, ScanStops
  <2> QED BY <2>1, <2>2, ListFacts
<1>3. CASE size <= h.seg[now].size
  <2> DEFINE g == mm_frag_node(h, now, size)
  <2>1. r = [heap |-> g, ptr |-> now, copied |-> 0]
    BY <1>3 DEF Reallocate
  <2> HIDE DEF size
  <2> QED BY <1>1, <1>3, <2>1, Shrunk DEF size
<1>4. CASE ~(size <= h.seg[now].size) /\ lacking > 0 /\ h.seg[end].size # 0
  <2> DEFINE g == mm_free(new.heap, now)
  <2>1. r = [heap |-> g, ptr |-> new.ptr, copied |-> h.seg[now].size - 1]
    BY <1>4 DEF Reallocate
  <2>2. new.heap.ok
    BY <2>1, FreeKeepsOk, MallocIsHeap
  <2> HIDE DEF new
  <2>3. h.seg[now].size < SegmentSize(bytes)
    BY <1>1, <1>2, <1>4
  <2>4. Resized(h, now, SegmentSize(bytes), [heap |-> g, ptr |-> new.ptr, copied |-> h.seg[now].size - 1])
    BY <2>2, <2>3, Moved DEF new
  <2> QED BY <2>1, <2>4
<1>5. CASE ~(size <= h.seg[now].size) /\ ~(lacking > 0)
  <2> DEFINE c == Coalesce(h, now, end)
  <2>1. r = [heap |-> c, ptr |-> now, copied |-> 0]
    BY <1>5 DEF Reallocate
  <2>2. size <= end - now
    BY <1>1, <1>2, <1>5
  <2> HIDE DEF size
  <2>3. Resized(h, now, size, [heap |-> c, ptr |-> now, copied |-> 0])
    BY <1>1, <2>2, InPlace
  <2> QED BY <2>1, <2>3 DEF size
<1>6. CASE ~(size <= h.seg[now].size) /\ lacking > 0 /\ h.seg[end].size = 0
  <2> DEFINE w == [grown EXCEPT !.seg[end].alloc = FALSE]
             m == mm_insert(w, end)
             c == Coalesce(m, now, ScanEnd(m, now, size))
  <2>1. r = [heap |-> c, ptr |-> now, copied |-> 0]
    BY <1>6 DEF Reallocate
  <2>2. end - now < size
    BY <1>1, <1>2, <1>6
  <2>3. PICK v \in BOOLEAN : v = FALSE
    OBVIOUS
  <2>4. w = Flagged(grown, end, v)
    BY <2>3 DEF Flagged
  <2>5. c.ok
    BY <2>1
  <2> HIDE DEF size, w
  <2>6. Resized(h, now, size, [heap |-> c, ptr |-> now, copied |-> 0])
    BY <1>1, <1>6, <2>2, <2>3, <2>4, <2>5, InPlaceGrown
  <2> QED BY <2>1, <2>6 DEF size
<1> QED BY <1>3, <1>4, <1>5, <1>6

-----------------------------------------------------------------------------
(***************************************************************************)
(* The driver: every block has a segment of its own, and in it what was    *)
(* written to the block.                                                   *)
(***************************************************************************)
Words(n) == (n + 7) \div 8

\* The units of a payload.
LEMMA WordsFacts ==
    /\ \A n \in Nat : Words(n) \in Nat /\ SegmentSize(n) = Words(n) + 1 /\ (n # 0 => 1 <= Words(n))
    /\ \A n, k \in Nat : n <= k => Words(n) <= Words(k)
  BY DEF Words, SegmentSize

\* The payload of an allocated segment lies in the heap, and the allocator does
\* not write to it.
LEMMA PayloadInside ==
    ASSUME NEW g, HeapOK(g), NEW a \in Allocated(g), NEW n \in Nat, SegmentSize(n) <= g.seg[a].size,
           NEW u \in a + 1 .. a + Words(n)
    PROVE  u \in Units /\ u \notin Overhead(g) /\ a < u /\ u < a + g.seg[a].size /\ u < End(g)
<1>1. ListOK(g) /\ TreeOK(g, NULL) /\ FitOK(g, NULL) /\ g.brk <= MAX_HEAP /\ a \in DOMAIN g.seg \ {End(g)}
      /\ g.seg[a].alloc
  BY DEF HeapOK, Allocated
<1>2. /\ g.brk \in Nat /\ \A b \in DOMAIN g.seg : b \in Nat /\ g.seg[b].size \in Nat /\ b <= End(g)
      /\ \A b \in DOMAIN g.seg \ {End(g)} :
            b + g.seg[b].size \in DOMAIN g.seg /\ \A c \in DOMAIN g.seg : c <= b \/ b + g.seg[b].size <= c
  BY <1>1, ListFacts
<1>3. Words(n) \in Nat /\ SegmentSize(n) = Words(n) + 1
  BY WordsFacts
<1>4. a \in Nat /\ u \in Nat /\ a < u /\ u < a + g.seg[a].size /\ u < End(g)
  <2>1. a \in Nat /\ g.seg[a].size \in Nat /\ a + g.seg[a].size <= End(g) /\ End(g) \in Int
    BY <1>1, <1>2 DEF End
  <2> QED BY <1>3, <2>1
<1>5. u \in Units
  BY <1>1, <1>2, <1>4 DEF Units, End
<1>6. u \notin DOMAIN g.seg
  BY <1>1, <1>2, <1>4
<1>7. \A k \in g.tree : u # k[2] + 1
  <2> SUFFICES ASSUME NEW k \in g.tree, u = k[2] + 1 PROVE FALSE
    OBVIOUS
  <2>1. PICK b \in DOMAIN g.seg \ {End(g), NULL} : ~g.seg[b].alloc /\ k = <<g.seg[b].size, b>>
    BY <1>1 DEF TreeOK
  <2>2. NodeUnits <= g.seg[b].size /\ b # a
    BY <1>1, <2>1 DEF FitOK
  <2>3. (b <= a \/ a + g.seg[a].size <= b) /\ (a <= b \/ b + g.seg[b].size <= a) /\ b \in Nat /\ g.seg[b].size \in Nat
    BY <1>1, <1>2, <2>1
  <2>4. u = b + 1
    BY <2>1
  <2> QED BY <1>2, <1>1, <1>4, <2>2, <2>3, <2>4 DEF NodeUnits
<1> QED BY <1>4, <1>5, <1>6, <1>7 DEF Overhead

\* The payloads of two segments have no unit in common.
LEMMA PayloadsApart ==
    ASSUME NEW g, HeapOK(g), NEW a \in Allocated(g), NEW b \in Allocated(g), a # b,
           NEW n \in Nat, SegmentSize(n) <= g.seg[a].size, NEW k \in Nat, SegmentSize(k) <= g.seg[b].size,
           NEW u \in a + 1 .. a + Words(n), u \in b + 1 .. b + Words(k)
    PROVE  FALSE
<1>1. a < u /\ u < a + g.seg[a].size /\ b < u /\ u < b + g.seg[b].size
  BY PayloadInside
<1>2. ListOK(g) /\ a \in DOMAIN g.seg \ {End(g)} /\ b \in DOMAIN g.seg \ {End(g)}
  BY DEF HeapOK, Allocated
<1>3. a \in Nat /\ b \in Nat /\ g.seg[a].size \in Nat /\ g.seg[b].size \in Nat
      /\ (b <= a \/ a + g.seg[a].size <= b) /\ (a <= b \/ b + g.seg[b].size <= a)
  BY <1>2, ListFacts
<1>4. u \in Int
  BY <1>3, WordsFacts
<1> QED BY <1>1, <1>3, <1>4

BlocksOK ==
    /\ blocks \in [Ids -> [ptr: Nat, size: Nat]]
    /\ \A i \in Live : /\ blocks[i].size # 0 /\ blocks[i].ptr \in Allocated(heap)
                       /\ SegmentSize(blocks[i].size) <= heap.seg[blocks[i].ptr].size
    /\ \A a \in Allocated(heap) : \E i \in Live : blocks[i].ptr = a
    /\ \A i, j \in Live : blocks[i].ptr = blocks[j].ptr => i = j

MemOK ==
    /\ mem \in [Units -> Ids \cup {0}]
    /\ \A i \in Ids : \A u \in Payload(blocks[i]) : u \in Units /\ mem[u] = i
    /\ \A u \in Units : (\A i \in Ids : u \notin Payload(blocks[i])) => mem[u] = 0

\* A request of 0 bytes makes the driver abort in add_range, with the block of
\* such a request among the others; up to then:
Inv == /\ HeapOK(heap)
       /\ verdict \in {"running", "error", "abort", "segv"}
       /\ verdict # "abort" => BlocksOK /\ MemOK

\* The heap of r, the result of a call for block i and size bytes, has a segment
\* for the block, and those of all the other blocks are as before.
Placed(r, i, size) ==
    /\ HeapOK(r.heap) /\ r.ptr \in Allocated(r.heap) /\ SegmentSize(size) <= r.heap.seg[r.ptr].size
    /\ \A j \in Live \ {i} : /\ blocks[j].ptr \in Allocated(r.heap) \ {r.ptr}
                             /\ r.heap.seg[blocks[j].ptr].size = heap.seg[blocks[j].ptr].size
    /\ \A a \in Allocated(r.heap) \ {r.ptr} : \E j \in Live \ {i} : blocks[j].ptr = a

\* What a live block's payload is.
LEMMA LivePayload ==
    ASSUME blocks \in [Ids -> [ptr: Nat, size: Nat]]
    PROVE  /\ \A i \in Ids : i \in Live => Payload(blocks[i]) = blocks[i].ptr + 1 .. blocks[i].ptr + Words(blocks[i].size)
           /\ \A i \in Ids : i \notin Live => Payload(blocks[i]) = {} /\ blocks[i] = NoBlock
           /\ \A i \in Live : i \in Ids /\ blocks[i].ptr \in Nat /\ blocks[i].size \in Nat
  BY DEF Live, Payload, Words

\* The other blocks' payloads are where no segment but their own is.
LEMMA OthersApart ==
    ASSUME BlocksOK, NEW r, NEW i \in Ids, NEW size \in Nat, Placed(r, i, size),
           NEW j \in Ids \ {i}, NEW u \in Payload(blocks[j])
    PROVE  /\ u \in Units /\ u \notin Overhead(r.heap)
           /\ u \notin r.ptr + 1 .. r.ptr + Words(size)
<1>1. blocks \in [Ids -> [ptr: Nat, size: Nat]]
  BY DEF BlocksOK
<1>2. j \in Live /\ u \in blocks[j].ptr + 1 .. blocks[j].ptr + Words(blocks[j].size) /\ blocks[j].size \in Nat
  BY <1>1, LivePayload
<1>3. HeapOK(r.heap) /\ r.ptr \in Allocated(r.heap) /\ SegmentSize(size) <= r.heap.seg[r.ptr].size
  BY DEF Placed
<1>4. blocks[j].ptr \in Allocated(r.heap) /\ blocks[j].ptr # r.ptr
      /\ SegmentSize(blocks[j].size) <= r.heap.seg[blocks[j].ptr].size
  BY <1>2 DEF Placed, BlocksOK
<1>5. u \in Units /\ u \notin Overhead(r.heap)
  BY <1>2, <1>3, <1>4, PayloadInside
<1>6. u \notin r.ptr + 1 .. r.ptr + Words(size)
  BY <1>2, <1>3, <1>4, PayloadsApart
<1> QED BY <1>5, <1>6

\* The driver takes a block over, in a state it finds no fault with.
LEMMA TakenOver ==
    ASSUME BlocksOK, MemOK, NEW r, NEW i \in Ids, NEW size \in Nat \ {0}, Placed(r, i, size),
           NEW m \in [Units -> Ids \cup {0}],
           \A j \in Ids \ {i} : \A u \in Payload(blocks[j]) : m[u] = mem[u],
           NEW b, b = [ptr |-> r.ptr, size |-> size],
           heap' = r.heap, blocks' = [blocks EXCEPT ![i] = b],
           mem' = Fill(Settle(m, r.heap, blocks'), b, i)
    PROVE  BlocksOK' /\ MemOK' /\ add_range(b, i) /\ Client!Place(i)
<1> DEFINE P == r.ptr + 1 .. r.ptr + Words(size)
<1>1. blocks \in [Ids -> [ptr: Nat, size: Nat]] /\ HeapOK(r.heap) /\ r.ptr \in Allocated(r.heap)
      /\ SegmentSize(size) <= r.heap.seg[r.ptr].size /\ r.ptr \in Nat
  <2>1. HeapOK(r.heap) /\ r.ptr \in Allocated(r.heap) /\ SegmentSize(size) <= r.heap.seg[r.ptr].size
    BY DEF Placed
  <2>2. r.ptr \in Nat
    BY <2>1, ListFacts DEF HeapOK, Allocated
  <2> QED BY <2>1, <2>2 DEF BlocksOK
<1>2. b \in [ptr: Nat, size: Nat] /\ b.ptr = r.ptr /\ b.size = size /\ b # NoBlock
  BY <1>1 DEF NoBlock
<1>3. blocks' \in [Ids -> [ptr: Nat, size: Nat]] /\ blocks'[i] = b /\ \A j \in Ids \ {i} : blocks'[j] = blocks[j]
  BY <1>1, <1>2
<1>4. Live' = (Live \ {i}) \cup {i}
  BY <1>2, <1>3 DEF Live
<1>5. Payload(b) = P /\ Payload(blocks'[i]) = P
  BY <1>2, <1>3 DEF Payload, Words
<1>6. Words(size) \in Nat /\ 1 <= Words(size) /\ r.ptr + 1 \in P
  BY <1>1, WordsFacts
<1>7. \A u \in P : u \in Units /\ u \notin Overhead(r.heap) /\ u < End(r.heap)
  BY <1>1, PayloadInside
<1>8. \A j \in Ids \ {i} : \A u \in Payload(blocks[j]) : u \in Units /\ u \notin Overhead(r.heap) /\ u \notin P
  BY OthersApart
<1> HIDE DEF P
<1>9. BlocksOK'
  <2>1. ASSUME NEW j \in Live'
        PROVE  /\ blocks'[j].size # 0 /\ blocks'[j].ptr \in Allocated(r.heap)
               /\ SegmentSize(blocks'[j].size) <= r.heap.seg[blocks'[j].ptr].size
    <3>1. CASE j = i
      BY <1>1, <1>2, <1>3, <3>1
    <3>2. CASE j # i
      <4>1. j \in Live \ {i} /\ blocks'[j] = blocks[j]
        BY <1>3, <1>4, <3>2 DEF Live
      <4> QED BY <4>1 DEF Placed, BlocksOK
    <3> QED BY <3>1, <3>2
  <2>2. \A a \in Allocated(r.heap) : \E j \in Live' : blocks'[j].ptr = a
    <3> SUFFICES ASSUME NEW a \in Allocated(r.heap) PROVE \E j \in Live' : blocks'[j].ptr = a
      OBVIOUS
    <3>1. CASE a = r.ptr
      BY <1>2, <1>3, <1>4, <3>1
    <3>2. CASE a # r.ptr
      <4>1. PICK j \in Live \ {i} : blocks[j].ptr = a
        BY <3>2 DEF Placed
      <4> QED BY <1>3, <1>4, <4>1 DEF Live
    <3> QED BY <3>1, <3>2
  <2>3. \A j, k \in Live' : blocks'[j].ptr = blocks'[k].ptr => j = k
    <3> SUFFICES ASSUME NEW j \in Live', NEW k \in Live', blocks'[j].ptr = blocks'[k].ptr, j # k PROVE FALSE
      OBVIOUS
    <3>1. \A l \in Live \ {i} : blocks'[l] = blocks[l] /\ blocks[l].ptr # r.ptr
      BY <1>3 DEF Live, Placed
    <3>2. j # i /\ k # i
      BY <1>2, <1>3, <1>4, <3>1
    <3> QED BY <1>4, <3>1, <3>2 DEF BlocksOK
  <2>4. (Allocated(heap))' = Allocated(r.heap) /\ heap' = r.heap
    BY DEF Allocated, End
  <2> QED BY <1>3, <2>1, <2>2, <2>3, <2>4 DEF BlocksOK
<1>10. \A u \in Units : mem'[u] = IF u \in P THEN i
                                  ELSE IF u \notin Overhead(r.heap) /\ \E j \in Ids : u \in Payload(blocks'[j])
                                  THEN m[u] ELSE 0
  BY <1>5 DEF Fill, Settle
<1>11. \A j \in Ids \ {i} : \A u \in Payload(blocks[j]) : u \in Units /\ mem'[u] = mem[u] /\ mem[u] = j
  <2> SUFFICES ASSUME NEW j \in Ids \ {i}, NEW u \in Payload(blocks[j]) PROVE u \in Units /\ mem'[u] = mem[u] /\ mem[u] = j
    OBVIOUS
  <2>1. u \in Units /\ u \notin Overhead(r.heap) /\ u \notin P /\ u \in Payload(blocks'[j])
    BY <1>3, <1>8
  <2>2. mem'[u] = m[u]
    BY <1>10, <2>1
  <2> QED BY <2>1, <2>2 DEF MemOK
<1>12. MemOK'
  <2>1. mem' \in [Units -> Ids \cup {0}]
    BY <1>5 DEF Fill, Settle
  <2>2. ASSUME NEW j \in Ids, NEW u \in Payload(blocks'[j]) PROVE u \in Units /\ mem'[u] = j
    <3>1. CASE j = i
      BY <1>5, <1>7, <1>10, <2>2, <3>1
    <3>2. CASE j # i
      <4>1. j \in Ids \ {i} /\ blocks'[j] = blocks[j]
        BY <1>3, <3>2
      <4>2. u \in Payload(blocks[j])
        BY <2>2, <4>1
      <4> QED BY <1>11, <4>1, <4>2
    <3> QED BY <3>1, <3>2
  <2>3. ASSUME NEW u \in Units, \A j \in Ids : u \notin Payload(blocks'[j]) PROVE mem'[u] = 0
    BY <1>5, <1>10, <2>3
  <2>4. Units' = Units /\ \A j \in Ids : (Payload(blocks[j]))' = Payload(blocks'[j])
    BY DEF Units, Payload, NoBlock
  <2> QED BY <2>1, <2>2, <2>3, <2>4 DEF MemOK
<1>13. add_range(b, i)
  <2>1. b.ptr + 1 \in P /\ b.ptr + (b.size + 7) \div 8 \in P
    BY <1>1, <1>2, <1>6 DEF P, Words
  <2>2. \A u \in P : u <= heap'.brk - 1
    <3>1. r.heap.brk \in Nat
      BY <1>1, ListFacts DEF HeapOK
    <3> QED BY <1>7, <3>1 DEF End, Units
  <2>3. ASSUME NEW j \in Live \ {i}
        PROVE  Payload(blocks[j]) = blocks[j].ptr + 1 .. blocks[j].ptr + (blocks[j].size + 7) \div 8 /\ j \in Ids
    BY <1>1, LivePayload DEF Words
  <2> QED BY <1>8, <2>1, <2>2, <2>3 DEF add_range
<1>14. Client!Place(i)
  <2> DEFINE old == [j \in Ids |-> Payload(blocks[j])]  new == [j \in Ids |-> Payload(blocks'[j])]
  <2>1. (\A j \in Ids : old[j] = Payload(blocks[j])) /\ \A j \in Ids : new[j] = Payload(blocks'[j])
    OBVIOUS
  <2>2. [j \in Ids |-> Payload(blocks[j])]' = new
    BY DEF Payload, NoBlock
  <2> HIDE DEF old, new
  <2>3. new[i] = P
    BY <1>5, <2>1
  <2>4. new[i] # {} /\ new[i] \subseteq Units
    BY <1>6, <1>7, <2>3
  <2>5. \A j \in Ids \ {i} : new[i] \cap old[j] = {}
    BY <1>8, <2>1, <2>3
  <2>6. \A u \in new[i] : mem'[u] = i
    BY <1>7, <1>10, <2>3
  <2>7. ASSUME NEW j \in Ids \ {i} PROVE new[j] = old[j] /\ \A u \in old[j] : mem'[u] = mem[u]
    <3>1. new[j] = Payload(blocks[j]) /\ old[j] = Payload(blocks[j])
      BY <1>3, <2>1
    <3> QED BY <1>11, <3>1
  <2> QED BY <2>2, <2>4, <2>5, <2>6, <2>7 DEF Client!Place, Client!Others, old
<1> QED BY <1>9, <1>12, <1>13, <1>14

\* mm_malloc for a block that is not allocated.
LEMMA AllocPlaced ==
    ASSUME HeapOK(heap), BlocksOK, NEW i \in Ids, i \notin Live, NEW size \in Nat,
           NEW r, r = mm_malloc(heap, size), r.heap.ok
    PROVE  Placed(r, i, size)
<1>1. /\ HeapOK(r.heap) /\ r.ptr \notin Allocated(heap) /\ r.ptr \in Allocated(r.heap)
      /\ SegmentSize(size) <= r.heap.seg[r.ptr].size /\ Keeps(heap, r.heap, {r.ptr})
  BY Malloc
<1>2. Live \ {i} = Live
  OBVIOUS
<1>3. \A j \in Live : /\ blocks[j].ptr \in Allocated(r.heap) \ {r.ptr}
                      /\ r.heap.seg[blocks[j].ptr].size = heap.seg[blocks[j].ptr].size
  BY <1>1 DEF BlocksOK, Keeps
<1>4. \A a \in Allocated(r.heap) \ {r.ptr} : \E j \in Live : blocks[j].ptr = a
  BY <1>1 DEF BlocksOK, Keeps
<1> QED BY <1>1, <1>2, <1>3, <1>4 DEF Placed

\* A block has a segment of at least two units.
LEMMA LiveSegment ==
    ASSUME HeapOK(heap), BlocksOK, NEW i \in Live
    PROVE  /\ i \in Ids /\ blocks[i].ptr \in Allocated(heap) /\ blocks[i].ptr \in Nat \ {NULL}
           /\ blocks[i].size \in Nat \ {0} /\ NodeUnits <= heap.seg[blocks[i].ptr].size
           /\ heap.seg[blocks[i].ptr].size \in Nat /\ Words(blocks[i].size) < heap.seg[blocks[i].ptr].size
           /\ Words(blocks[i].size) \in Nat \ {0}
<1> DEFINE p == blocks[i].ptr
<1>1. i \in Ids /\ p \in Allocated(heap) /\ blocks[i].size \in Nat \ {0} /\ p \in Nat
      /\ SegmentSize(blocks[i].size) <= heap.seg[p].size
  BY DEF BlocksOK, Live
<1>2. p # NULL /\ heap.seg[p].size \in Nat
  BY <1>1, NotNull, ListFacts DEF HeapOK, Allocated
<1>3. Words(blocks[i].size) \in Nat /\ SegmentSize(blocks[i].size) = Words(blocks[i].size) + 1 /\ 1 <= Words(blocks[i].size)
  BY <1>1, WordsFacts
<1> QED BY <1>1, <1>2, <1>3 DEF NodeUnits

\* mm_realloc for a block that is allocated.
LEMMA ReallocPlaced ==
    ASSUME HeapOK(heap), BlocksOK, NEW i \in Live, NEW size \in Nat \ {0},
           NEW r, r = mm_realloc(heap, blocks[i].ptr, size), r.heap.ok
    PROVE  Resized(heap, blocks[i].ptr, SegmentSize(size), r) /\ Placed(r, i, size)
<1> DEFINE now == blocks[i].ptr
<1>1. now \in Allocated(heap) /\ now # NULL /\ NodeUnits <= heap.seg[now].size
  BY LiveSegment
<1>2. r = Reallocate(heap, now, size)
  BY <1>1 DEF mm_realloc
<1>3. Resized(heap, now, SegmentSize(size), r)
  BY <1>1, <1>2, Reallocated
<1> HIDE DEF now
<1>4. /\ HeapOK(r.heap) /\ r.ptr \in Allocated(r.heap) /\ SegmentSize(size) <= r.heap.seg[r.ptr].size
      /\ Keeps(heap, r.heap, {now, r.ptr})
      /\ r.ptr = now \/ (r.ptr \notin Allocated(heap) /\ now \notin Allocated(r.heap))
  BY <1>3 DEF Resized
<1>5. \A j \in Live \ {i} : blocks[j].ptr \in Allocated(heap) \ {now}
  BY DEF BlocksOK, now
<1>6. \A j \in Live \ {i} : blocks[j].ptr # r.ptr
  BY <1>4, <1>5
<1>7. \A j \in Live \ {i} : /\ blocks[j].ptr \in Allocated(r.heap) \ {r.ptr}
                            /\ r.heap.seg[blocks[j].ptr].size = heap.seg[blocks[j].ptr].size
  BY <1>4, <1>5, <1>6 DEF Keeps
<1>8. \A a \in Allocated(r.heap) \ {r.ptr} : \E j \in Live \ {i} : blocks[j].ptr = a
  <2> SUFFICES ASSUME NEW a \in Allocated(r.heap) \ {r.ptr} PROVE \E j \in Live \ {i} : blocks[j].ptr = a
    OBVIOUS
  <2>1. a # now /\ a \in Allocated(heap)
    BY <1>4 DEF Keeps
  <2> QED BY <2>1 DEF BlocksOK, now
<1> QED BY <1>3, <1>4, <1>7, <1>8 DEF Placed, now

\* The contents of a block follow it, and no other block's are touched.
LEMMA Copied ==
    ASSUME HeapOK(heap), BlocksOK, MemOK, NEW i \in Live, NEW size \in Nat \ {0},
           NEW r, Resized(heap, blocks[i].ptr, SegmentSize(size), r), Placed(r, i, size),
           NEW m, m = mm_memcpy(mem, blocks[i].ptr, r.ptr, r.copied)
    PROVE  /\ m \in [Units -> Ids \cup {0}]
           /\ \A j \in Ids \ {i} : \A u \in Payload(blocks[j]) : m[u] = mem[u]
           /\ \A k \in 1 .. (IF size < blocks[i].size THEN size + 7 ELSE blocks[i].size + 7) \div 8 : m[r.ptr + k] = i
<1> DEFINE now == blocks[i].ptr
           n == (IF size < blocks[i].size THEN size + 7 ELSE blocks[i].size + 7) \div 8
<1>1. /\ i \in Ids /\ now \in Allocated(heap) /\ now \in Nat /\ blocks[i].size \in Nat
      /\ heap.seg[now].size \in Nat /\ Words(blocks[i].size) < heap.seg[now].size
      /\ Words(blocks[i].size) \in Nat \ {0}
  BY LiveSegment
<1>2. Words(size) \in Nat /\ SegmentSize(size) = Words(size) + 1
  BY WordsFacts
<1>3. n \in Nat /\ n <= Words(size) /\ n <= Words(blocks[i].size)
  BY <1>1, WordsFacts DEF Words
<1>4. HeapOK(r.heap) /\ r.ptr \in Allocated(r.heap) /\ SegmentSize(size) <= r.heap.seg[r.ptr].size /\ r.ptr \in Nat
  <2>1. HeapOK(r.heap) /\ r.ptr \in Allocated(r.heap) /\ SegmentSize(size) <= r.heap.seg[r.ptr].size
    BY DEF Placed
  <2> QED BY <2>1, ListFacts DEF HeapOK, Allocated
<1>5. mem \in [Units -> Ids \cup {0}]
  BY DEF MemOK
<1>6. \A k \in 1 .. n : r.ptr + k \in Units
  <2> SUFFICES ASSUME NEW k \in 1 .. n PROVE r.ptr + k \in Units
    OBVIOUS
  <2>1. r.ptr + k \in r.ptr + 1 .. r.ptr + Words(size)
    BY <1>2, <1>3, <1>4
  <2> QED BY <1>4, <2>1, PayloadInside
<1>7. \A k \in 1 .. n : mem[now + k] = i
  <2> SUFFICES ASSUME NEW k \in 1 .. n PROVE mem[now + k] = i
    OBVIOUS
  <2>1. now + k \in now + 1 .. now + Words(blocks[i].size)
    BY <1>1, <1>3
  <2>2. now + k \in Payload(blocks[i])
    BY <1>1, <2>1, LivePayload DEF BlocksOK
  <2> QED BY <1>1, <2>2 DEF MemOK
<1>8. m = [u \in Units |-> IF u - r.ptr \in 1 .. r.copied THEN mem[u - r.ptr + now] ELSE mem[u]]
  BY DEF mm_memcpy
<1>9. \A j \in Ids \ {i} : \A u \in Payload(blocks[j]) : u \in Units /\ u \notin r.ptr + 1 .. r.ptr + Words(size)
  BY <1>1, OthersApart
<1> HIDE DEF now, n
<1>10. CASE r.ptr = now /\ r.copied = 0
  <2>1. m = mem
    BY <1>5, <1>8, <1>10
  <2> QED BY <1>5, <1>7, <1>10, <2>1 DEF now, n
<1>11. CASE r.copied = heap.seg[now].size - 1 /\ heap.seg[now].size < SegmentSize(size)
  <2>1. r.copied \in Nat /\ n <= r.copied /\ r.copied <= Words(size)
    BY <1>1, <1>2, <1>3, <1>11
  <2>2. ASSUME NEW u \in Units, u - r.ptr \in 1 .. r.copied PROVE u - r.ptr + now \in Units
    <3>1. ListOK(heap) /\ now \in DOMAIN heap.seg \ {End(heap)} /\ heap.brk <= MAX_HEAP
      BY <1>1 DEF HeapOK, Allocated
    <3>2. now + heap.seg[now].size <= End(heap) /\ heap.brk \in Nat
      BY <3>1, ListFacts
    <3>3. u \in Nat
      BY DEF Units
    <3> QED BY <1>1, <1>4, <1>11, <2>1, <2>2, <3>1, <3>2, <3>3 DEF Units, End
  <2>3. m \in [Units -> Ids \cup {0}]
    BY <1>5, <1>8, <2>2
  <2>4. ASSUME NEW j \in Ids \ {i}, NEW u \in Payload(blocks[j]) PROVE m[u] = mem[u]
    <3>1. u \in Units /\ u \notin r.ptr + 1 .. r.ptr + Words(size)
      BY <1>9, <2>4
    <3>2. u - r.ptr \notin 1 .. r.copied
      BY <1>2, <1>4, <2>1, <3>1 DEF Units
    <3> QED BY <1>8, <3>1, <3>2
  <2>5. ASSUME NEW k \in 1 .. n PROVE m[r.ptr + k] = i
    <3>1. r.ptr + k \in Units /\ (r.ptr + k) - r.ptr \in 1 .. r.copied /\ (r.ptr + k) - r.ptr + now = now + k
      BY <1>1, <1>3, <1>4, <1>6, <2>1
    <3> QED BY <1>7, <1>8, <3>1
  <2> QED BY <2>3, <2>4, <2>5 DEF n
<1> QED BY <1>10, <1>11 DEF Resized, now

\* Heap g has the segments of all blocks but i.
Released(g, i) ==
    /\ HeapOK(g)
    /\ \A j \in Live \ {i} : blocks[j].ptr \in Allocated(g) /\ g.seg[blocks[j].ptr].size = heap.seg[blocks[j].ptr].size
    /\ \A a \in Allocated(g) : \E j \in Live \ {i} : blocks[j].ptr = a

\* mm_free of a block.
LEMMA FreeReleases ==
    ASSUME HeapOK(heap), BlocksOK, NEW i \in Live, NEW g, g = mm_free(heap, blocks[i].ptr)
    PROVE  Released(g, i)
<1> DEFINE now == blocks[i].ptr
<1>1. now \in Allocated(heap) /\ NodeUnits <= heap.seg[now].size
  BY LiveSegment
<1>2. HeapOK(g) /\ now \notin Allocated(g) /\ Keeps(heap, g, {now})
  BY <1>1, Freed
<1>3. \A j \in Live \ {i} : blocks[j].ptr \in Allocated(heap) /\ blocks[j].ptr # now
  BY DEF BlocksOK
<1>4. \A j \in Live \ {i} : blocks[j].ptr \in Allocated(g) /\ g.seg[blocks[j].ptr].size = heap.seg[blocks[j].ptr].size
  BY <1>2, <1>3 DEF Keeps
<1>5. \A a \in Allocated(g) : \E j \in Live \ {i} : blocks[j].ptr = a
  BY <1>2 DEF Keeps, BlocksOK
<1> QED BY <1>2, <1>4, <1>5 DEF Released

\* The driver gives a block up.
LEMMA GivenUp ==
    ASSUME HeapOK(heap), BlocksOK, MemOK, NEW i \in Live, Released(heap', i),
           NEW b \in [ptr: Nat, size: Nat], Payload(b) = {}, blocks' = [blocks EXCEPT ![i] = b],
           mem' = Settle(mem, heap', blocks')
    PROVE  Client!Free(i) /\ (b = NoBlock => BlocksOK' /\ MemOK')
<1>1. blocks \in [Ids -> [ptr: Nat, size: Nat]] /\ i \in Ids /\ Payload(blocks[i]) # {}
  <2>1. blocks \in [Ids -> [ptr: Nat, size: Nat]] /\ i \in Ids /\ blocks[i].ptr \in Nat /\ Words(blocks[i].size) \in Nat \ {0}
    BY LiveSegment DEF BlocksOK
  <2>2. Payload(blocks[i]) = blocks[i].ptr + 1 .. blocks[i].ptr + Words(blocks[i].size)
    BY <2>1, LivePayload
  <2>3. blocks[i].ptr + 1 \in Payload(blocks[i])
    BY <2>1, <2>2
  <2> QED BY <2>1, <2>3
<1>2. blocks' \in [Ids -> [ptr: Nat, size: Nat]] /\ blocks'[i] = b /\ \A j \in Ids \ {i} : blocks'[j] = blocks[j]
  BY <1>1
<1>3. \A u \in Units : mem'[u] = IF u \notin Overhead(heap') /\ \E j \in Ids : u \in Payload(blocks'[j]) THEN mem[u] ELSE 0
  BY DEF Settle
<1>4. ASSUME NEW j \in Ids \ {i}, NEW u \in Payload(blocks[j]) PROVE u \in Units /\ mem'[u] = mem[u] /\ mem[u] = j
  <2>1. j \in Live /\ u \in blocks[j].ptr + 1 .. blocks[j].ptr + Words(blocks[j].size) /\ blocks[j].size \in Nat
    BY <1>1, LivePayload
  <2>2. HeapOK(heap') /\ blocks[j].ptr \in Allocated(heap') /\ SegmentSize(blocks[j].size) <= heap'.seg[blocks[j].ptr].size
    BY <2>1 DEF Released, BlocksOK
  <2>3. u \in Units /\ u \notin Overhead(heap')
    BY <2>1, <2>2, PayloadInside
  <2>4. u \in Payload(blocks'[j])
    BY <1>2
  <2>5. mem'[u] = mem[u]
    BY <1>3, <2>3, <2>4
  <2> QED BY <2>3, <2>5 DEF MemOK
<1>5. Client!Free(i)
  <2> DEFINE old == [j \in Ids |-> Payload(blocks[j])]  new == [j \in Ids |-> Payload(blocks'[j])]
  <2>1. (\A j \in Ids : old[j] = Payload(blocks[j])) /\ \A j \in Ids : new[j] = Payload(blocks'[j])
    OBVIOUS
  <2>2. [j \in Ids |-> Payload(blocks[j])]' = new
    BY DEF Payload, NoBlock
  <2> HIDE DEF old, new
  <2>3. old[i] # {} /\ new[i] = {}
    BY <1>1, <1>2, <2>1
  <2>4. ASSUME NEW j \in Ids \ {i} PROVE new[j] = old[j] /\ \A u \in old[j] : mem'[u] = mem[u]
    <3>1. new[j] = Payload(blocks[j]) /\ old[j] = Payload(blocks[j])
      BY <1>2, <2>1
    <3> QED BY <1>4, <3>1
  <2> QED BY <2>2, <2>3, <2>4 DEF Client!Free, Client!Others, old
<1>6. ASSUME b = NoBlock PROVE BlocksOK' /\ MemOK'
  <2>1. Live' = Live \ {i}
    BY <1>2, <1>6 DEF Live, NoBlock
  <2>2. \A j \in Live \ {i} : blocks'[j] = blocks[j]
    BY <1>2 DEF Live
  <2>3. BlocksOK'
    <3>1. (Allocated(heap))' = Allocated(heap')
      BY DEF Allocated, End
    <3>2. \A j \in Live \ {i} : /\ blocks'[j].size # 0 /\ blocks'[j].ptr \in Allocated(heap')
                                /\ SegmentSize(blocks'[j].size) <= heap'.seg[blocks'[j].ptr].size
      BY <2>2 DEF BlocksOK, Released
    <3>3. \A a \in Allocated(heap') : \E j \in Live \ {i} : blocks'[j].ptr = a
      BY <2>2 DEF Released
    <3>4. \A j, k \in Live \ {i} : blocks'[j].ptr = blocks'[k].ptr => j = k
      BY <2>2 DEF BlocksOK
    <3> QED BY <1>2, <2>1, <3>1, <3>2, <3>3, <3>4 DEF BlocksOK
  <2>4. MemOK'
    <3>1. mem' \in [Units -> Ids \cup {0}]
      <4>1. mem \in [Units -> Ids \cup {0}]
        BY DEF MemOK
      <4> QED BY <4>1 DEF Settle
    <3>2. ASSUME NEW j \in Ids, NEW u \in Payload(blocks'[j]) PROVE u \in Units /\ mem'[u] = j
      <4>1. j # i
        BY <1>2, <3>2
      <4>2. u \in Payload(blocks[j])
        BY <1>2, <3>2, <4>1
      <4> QED BY <1>4, <4>1, <4>2
    <3>3. \A u \in Units : (\A j \in Ids : u \notin Payload(blocks'[j])) => mem'[u] = 0
      BY <1>3
    <3>4. Units' = Units /\ \A j \in Ids : (Payload(blocks[j]))' = Payload(blocks'[j])
      BY DEF Units, Payload, NoBlock
    <3> QED BY <3>1, <3>2, <3>3, <3>4 DEF MemOK
  <2> QED BY <2>3, <2>4
<1> QED BY <1>5, <1>6

\* A request of 0 bytes for a new block changes nothing a client sees.
LEMMA NothingPlaced ==
    ASSUME BlocksOK, MemOK, NEW r, NEW i \in Ids, i \notin Live, Placed(r, i, 0),
           NEW b, b = [ptr |-> r.ptr, size |-> 0], blocks' = [blocks EXCEPT ![i] = b],
           mem' = Fill(Settle(mem, r.heap, blocks'), b, i)
    PROVE  UNCHANGED Client!vars
<1>1. blocks \in [Ids -> [ptr: Nat, size: Nat]] /\ Payload(blocks[i]) = {} /\ r.ptr \in Nat
  <2>1. blocks \in [Ids -> [ptr: Nat, size: Nat]] /\ HeapOK(r.heap) /\ r.ptr \in Allocated(r.heap)
    BY DEF BlocksOK, Placed
  <2> QED BY <2>1, LivePayload, ListFacts DEF HeapOK, Allocated
<1>2. Payload(b) = {}
  BY <1>1 DEF Payload, NoBlock
<1>3. \A j \in Ids : Payload(blocks'[j]) = Payload(blocks[j])
  BY <1>1, <1>2
<1>4. \A j \in Ids \ {i} : \A u \in Payload(blocks[j]) : u \notin Overhead(r.heap)
  BY OthersApart
<1>5. mem \in [Units -> Ids \cup {0}] /\ \A u \in Units : (\A j \in Ids : u \notin Payload(blocks[j])) => mem[u] = 0
  BY DEF MemOK
<1>6. /\ mem' = [u \in Units |-> mem'[u]]
      /\ \A u \in Units : mem'[u] = IF u \notin Overhead(r.heap) /\ \E j \in Ids : u \in Payload(blocks'[j])
                                    THEN mem[u] ELSE 0
  BY <1>2 DEF Fill, Settle
<1>7. \A u \in Units : mem'[u] = mem[u]
  BY <1>1, <1>3, <1>4, <1>5, <1>6
<1>8. mem' = mem
  <2>1. mem = [u \in Units |-> mem[u]]
    BY <1>5
  <2>2. [u \in Units |-> mem'[u]] = [u \in Units |-> mem[u]]
    BY <1>7
  <2> QED BY <1>6, <2>1, <2>2
<1>9. [j \in Ids |-> Payload(blocks[j])]' = [j \in Ids |-> Payload(blocks[j])]
  <2>1. \A j \in Ids : (Payload(blocks[j]))' = Payload(blocks'[j])
    BY DEF Payload, NoBlock
  <2> QED BY <1>3, <2>1
<1> QED BY <1>8, <1>9 DEF Client!vars

\* What Inv says of the state after a step.
LEMMA InvAfter ==
    ASSUME HeapOK(heap'), verdict' \in {"running", "error", "abort", "segv"},
           verdict' # "abort" => BlocksOK' /\ MemOK'
    PROVE  Inv'
  BY DEF Inv

\* Alloc: mm_malloc, and the judgement of the driver.
LEMMA AllocStep ==
    ASSUME Inv, NEW i \in Ids, NEW size \in Requests, Alloc(i, size)
    PROVE  Inv' /\ [Client!Next]_(Client!vars) /\ verdict' # "error"
<1> DEFINE r == mm_malloc(heap, size)  b == [ptr |-> r.ptr, size |-> size]
<1>1. HeapOK(heap) /\ BlocksOK /\ MemOK /\ i \notin Live /\ size \in Nat /\ verdict = "running"
  BY RequestsAssumption DEF Inv, Alloc
<1>2. CASE ~r.heap.ok
  <2>1. Segv
    BY <1>2 DEF Alloc
  <2>2. UNCHANGED <<heap, blocks, mem>> /\ verdict' = "segv"
    BY <2>1 DEF Segv
  <2>3. Inv'
    BY <1>1, <2>2, InvAfter DEF BlocksOK, MemOK, Live, Allocated, End, Payload, NoBlock, Units
  <2> QED BY <2>2, <2>3 DEF Client!vars, Payload, NoBlock
<1>3. CASE r.heap.ok
  <2>1. Placed(r, i, size)
    BY <1>1, <1>3, AllocPlaced
  <2>2. Judge(r, i, size, TRUE, mem)
    BY <1>3 DEF Alloc
  <2>3. heap' = r.heap /\ blocks' = [blocks EXCEPT ![i] = b] /\ mem' = Fill(Settle(mem, r.heap, blocks'), b, i)
        /\ (size # 0 /\ add_range(b, i) => verdict' = "running") /\ (size = 0 => verdict' = "abort")
    BY <2>2 DEF Judge
  <2>4. HeapOK(heap')
    BY <2>1, <2>3 DEF Placed
  <2> HIDE DEF r
  <2>5. CASE size = 0
    <3>1. Inv'
      BY <2>3, <2>4, <2>5, InvAfter
    <3>2. UNCHANGED Client!vars
      BY <1>1, <2>1, <2>3, <2>5, NothingPlaced
    <3> QED BY <2>3, <2>5, <3>1, <3>2
  <2>6. CASE size # 0
    <3>1. BlocksOK' /\ MemOK' /\ add_range(b, i) /\ Client!Place(i)
      <4>1. mem \in [Units -> Ids \cup {0}] /\ size \in Nat \ {0}
        BY <1>1, <2>6 DEF MemOK
      <4> QED BY <1>1, <2>1, <2>3, <4>1, TakenOver
    <3>2. Inv'
      BY <2>3, <2>4, <2>6, <3>1, InvAfter
    <3> QED BY <2>3, <2>6, <3>1, <3>2 DEF Client!Next
  <2> QED BY <2>5, <2>6
<1> QED BY <1>2, <1>3

\* Free: mm_free, and the block is not tracked any more.
LEMMA FreeStep ==
    ASSUME Inv, NEW i \in Ids, Free(i)
    PROVE  Inv' /\ [Client!Next]_(Client!vars) /\ verdict' # "error"
<1>1. HeapOK(heap) /\ BlocksOK /\ MemOK /\ i \in Live /\ verdict = "running" /\ verdict' = verdict
      /\ heap' = mm_free(heap, blocks[i].ptr) /\ blocks' = [blocks EXCEPT ![i] = NoBlock]
      /\ mem' = Settle(mem, heap', blocks')
  BY DEF Inv, Free, remove_range
<1>2. Released(heap', i)
  BY <1>1, FreeReleases
<1>3. NoBlock \in [ptr: Nat, size: Nat] /\ Payload(NoBlock) = {}
  BY DEF NoBlock, Payload, NULL
<1>4. Client!Free(i) /\ BlocksOK' /\ MemOK'
  BY <1>1, <1>2, <1>3, GivenUp
<1>5. HeapOK(heap')
  BY <1>2 DEF Released
<1>6. Inv'
  BY <1>1, <1>4, <1>5, InvAfter
<1> QED BY <1>1, <1>4, <1>6 DEF Client!Next

\* A byte the driver wrote for a block with a low index reads back as it was
\* written.
LEMMA LowByteMatches ==
    ASSUME NEW i \in Ids, Byte(i) < 128, NEW m, NEW u, m[u] = i
    PROVE  Matches(m, u, i)
<1>1. i # 0
  BY IdsAssumption
<1>2. AsChar(Byte(i)) = Byte(i)
  BY DEF AsChar
<1> QED BY <1>1, <1>2 DEF Matches

\* Realloc: mm_realloc, and the judgement of the driver.
LEMMA ReallocStep ==
    ASSUME Inv, NEW i \in Ids, NEW size \in Requests, Realloc(i, size)
    PROVE  Inv' /\ [Client!Next]_(Client!vars) /\ (Byte(i) < 128 => verdict' # "error")
<1> DEFINE now == blocks[i].ptr
           r == mm_realloc(heap, now, size)  b == [ptr |-> r.ptr, size |-> size]
           m == mm_memcpy(mem, now, r.ptr, r.copied)
           n == (IF size < blocks[i].size THEN size + 7 ELSE blocks[i].size + 7) \div 8
<1>1. HeapOK(heap) /\ BlocksOK /\ MemOK /\ i \in Live /\ size \in Nat /\ verdict = "running"
  BY RequestsAssumption DEF Inv, Realloc
<1>2. CASE ~r.heap.ok
  <2>1. Segv
    BY <1>2 DEF Realloc
  <2>2. UNCHANGED <<heap, blocks, mem>> /\ verdict' = "segv"
    BY <2>1 DEF Segv
  <2>3. Inv'
    BY <1>1, <2>2, InvAfter DEF BlocksOK, MemOK, Live, Allocated, End, Payload, NoBlock, Units
  <2> QED BY <2>2, <2>3 DEF Client!vars, Payload, NoBlock
<1>3. CASE r.heap.ok
  <2>1. /\ heap' = r.heap /\ blocks' = [blocks EXCEPT ![i] = b] /\ mem' = Fill(Settle(m, r.heap, blocks'), b, i)
        /\ (size # 0 /\ add_range(b, i) /\ (\A j \in 1 .. n : Matches(m, r.ptr + j, i))) => verdict' = "running"
        /\ size = 0 => verdict' = "abort"
        /\ size # 0 => verdict' \in {"running", "error"}
    BY <1>3 DEF Realloc, Judge
  <2>2. CASE size = 0
    <3>1. r = [heap |-> mm_free(heap, now), ptr |-> now, copied |-> 0]
      <4>1. now # NULL
        BY <1>1, LiveSegment
      <4> QED BY <2>2, <4>1 DEF mm_realloc
    <3>2. heap' = mm_free(heap, now)
      BY <2>1, <3>1
    <3>3. Released(heap', i)
      BY <1>1, <3>2, FreeReleases
    <3>4. b \in [ptr: Nat, size: Nat] /\ Payload(b) = {} /\ now \in Nat
      <4>1. r.ptr \in Nat /\ now \in Nat
        BY <1>1, <3>1, LiveSegment
      <4> QED BY <2>2, <4>1 DEF Payload
    <3>5. m = mem
      <4>1. mem \in [Units -> Ids \cup {0}]
        BY <1>1 DEF MemOK
      <4>2. r.ptr = now /\ r.copied = 0
        BY <3>1
      <4> HIDE DEF r, now
      <4> QED BY <4>1, <4>2 DEF mm_memcpy
    <3>6. mem' = Settle(mem, heap', blocks')
      BY <2>1, <3>4, <3>5 DEF Fill, Settle
    <3> HIDE DEF b, now, r, m
    <3>7. Client!Free(i)
      BY <1>1, <2>1, <3>3, <3>4, <3>6, GivenUp
    <3>8. Inv'
      BY <2>1, <2>2, <3>3, InvAfter DEF Released
    <3> QED BY <1>1, <2>1, <2>2, <3>7, <3>8 DEF Client!Next
  <2>3. CASE size # 0
    <3>1. size \in Nat \ {0} /\ r = mm_realloc(heap, blocks[i].ptr, size) /\ m = mm_memcpy(mem, blocks[i].ptr, r.ptr, r.copied)
      BY <1>1, <2>3
    <3> HIDE DEF r, m
    <3>2. Resized(heap, blocks[i].ptr, SegmentSize(size), r) /\ Placed(r, i, size)
      BY <1>1, <1>3, <3>1, ReallocPlaced
    <3>3. /\ m \in [Units -> Ids \cup {0}]
          /\ \A j \in Ids \ {i} : \A u \in Payload(blocks[j]) : m[u] = mem[u]
          /\ \A k \in 1 .. n : m[r.ptr + k] = i
      BY <1>1, <3>1, <3>2, Copied
    <3>4. BlocksOK' /\ MemOK' /\ add_range(b, i) /\ Client!Place(i)
      BY <1>1, <2>1, <3>1, <3>2, <3>3, TakenOver
    <3>5. HeapOK(heap')
      BY <2>1, <3>2 DEF Placed
    <3>6. Inv'
      BY <2>1, <2>3, <3>4, <3>5, InvAfter
    <3>7. ASSUME Byte(i) < 128 PROVE verdict' # "error"
      <4>1. \A k \in 1 .. n : Matches(m, r.ptr + k, i)
        BY <3>3, <3>7, LowByteMatches
      <4> QED BY <2>1, <2>3, <3>4, <4>1
    <3> QED BY <3>4, <3>6, <3>7 DEF Client!Next
  <2> QED BY <2>2, <2>3
<1> QED BY <1>2, <1>3

\* mm_init, and nothing allocated.
LEMMA FreshStart ==
    ASSUME NEW h, h = mm_init PROVE HeapOK(h) /\ Allocated(h) = {}
<1> DEFINE f == [a \in {FirstNode} |-> [size |-> 0, alloc |-> FALSE, prev |-> NULL]]
<1>1. f \in [{FirstNode} -> Header] /\ {FirstNode} \in SUBSET Nat
  BY DEF Header, FirstNode, NULL
<1>2. f \in UNION {[D -> Header] : D \in SUBSET Nat}
  BY <1>1
<1>3. f[FirstNode].size = 0 /\ f[FirstNode].prev = NULL /\ DOMAIN f = {FirstNode}
  OBVIOUS
<1>4. h = [brk |-> FirstNode + 1, seg |-> f, tree |-> {}, ok |-> TRUE]
  BY DEF mm_init
<1> HIDE DEF f
<1>5. h \in Heaps /\ h.brk = 4 /\ h.seg = f /\ h.tree = {} /\ h.ok
  BY <1>2, <1>4 DEF Heaps, FirstNode
<1>6. End(h) = FirstNode
  BY <1>5 DEF End, FirstNode
<1>7. ListOK(h)
  BY <1>3, <1>5, <1>6 DEF ListOK, FirstNode
<1>8. TreeOK(h, NULL) /\ FitOK(h, NULL) /\ Allocated(h) = {}
  BY <1>3, <1>5, <1>6 DEF TreeOK, FitOK, Allocated
<1> QED BY <1>5, <1>7, <1>8 DEF HeapOK

\* No blocks, and nothing in the memory.
LEMMA NothingYet ==
    ASSUME heap = mm_init, blocks = NoBlocks, mem = [u \in Units |-> 0], verdict = "running"
    PROVE  Inv
<1>1. HeapOK(heap) /\ Allocated(heap) = {}
  BY FreshStart
<1>2. blocks \in [Ids -> [ptr: Nat, size: Nat]] /\ Live = {} /\ \A i \in Ids : Payload(blocks[i]) = {}
  BY DEF NoBlocks, NoBlock, NULL, Live, Payload
<1>3. BlocksOK
  BY <1>1, <1>2 DEF BlocksOK
<1>4. MemOK
  BY <1>2 DEF MemOK
<1> QED BY <1>1, <1>3, <1>4 DEF Inv

\* The next trace begins as the first.
LEMMA NewTraceStep ==
    ASSUME NewTrace PROVE Inv' /\ [Client!Next]_(Client!vars) /\ verdict' # "error"
<1>1. heap' = mm_init /\ blocks' = NoBlocks /\ mem' = [u \in Units |-> 0] /\ verdict' = "running"
  BY DEF NewTrace
<1>2. HeapOK(heap') /\ Allocated(heap') = {}
  BY <1>1, FreshStart
<1>3. blocks' \in [Ids -> [ptr: Nat, size: Nat]] /\ Live' = {} /\ \A i \in Ids : Payload(blocks'[i]) = {}
  BY <1>1 DEF NoBlocks, NoBlock, NULL, Live, Payload
<1>4. BlocksOK'
  <2>1. (Allocated(heap))' = {}
    BY <1>2 DEF Allocated, End
  <2> QED BY <1>3, <2>1 DEF BlocksOK
<1>5. (\A j \in Ids : (Payload(blocks[j]))' = {}) /\ Units' = Units
  BY <1>3 DEF Payload, NoBlock, Units
<1>6. MemOK'
  BY <1>1, <1>5 DEF MemOK
<1>7. Inv'
  BY <1>1, <1>2, <1>4, <1>6, InvAfter
<1>8. Client!Reset
  BY <1>5 DEF Client!Reset
<1> QED BY <1>1, <1>7, <1>8 DEF Client!Next

\* Every step keeps Inv, and is one the client expects.
LEMMA Step == ASSUME Inv, [Next]_vars PROVE Inv' /\ [Client!Next]_(Client!vars)
<1>1. CASE UNCHANGED vars
  <2>1. UNCHANGED <<heap, blocks, mem, verdict>>
    BY <1>1 DEF vars
  <2>2. Inv'
    BY <2>1, InvAfter DEF Inv, BlocksOK, MemOK, Live, Allocated, End, Payload, NoBlock, Units
  <2> QED BY <2>1, <2>2 DEF Client!vars, Payload, NoBlock
<1>2. ASSUME NEW i \in Ids, NEW size \in Requests, Alloc(i, size) PROVE Inv' /\ [Client!Next]_(Client!vars)
  BY <1>2, AllocStep
<1>3. ASSUME NEW i \in Ids, NEW size \in Requests, Realloc(i, size) PROVE Inv' /\ [Client!Next]_(Client!vars)
  BY <1>3, ReallocStep
<1>4. ASSUME NEW i \in Ids, Free(i) PROVE Inv' /\ [Client!Next]_(Client!vars)
  BY <1>4, FreeStep
<1>5. CASE NewTrace
  BY <1>5, NewTraceStep
<1> QED BY <1>1, <1>2, <1>3, <1>4, <1>5 DEF Next

\* The inductive invariant: between two calls the heap is a list of segments, the
\* tree has the free ones and each block one of its own, with its contents.
THEOREM Invariance == Spec => []Inv
<1>1. Init => Inv
  BY NothingYet DEF Init
<1>2. Inv /\ [Next]_vars => Inv'
  BY Step
<1> QED BY <1>1, <1>2, PTL DEF Spec

\* mm_check's walk along the list never goes astray: sizes lead from each header
\* to the next one and footers back, whatever was split, joined and appended.
THEOREM ListsIntact == Spec => []ListIntact
<1>1. Inv => ListIntact
  <2> SUFFICES ASSUME HeapOK(heap) PROVE ListIntact
    BY DEF Inv
  <2>1. ListOK(heap) /\ End(heap) = Last
    BY DEF HeapOK, End, Last
  <2>2. /\ FirstNode \in DOMAIN heap.seg /\ heap.seg[FirstNode].prev = NULL
        /\ End(heap) \in DOMAIN heap.seg /\ heap.seg[End(heap)].size = 0
    BY <2>1 DEF ListOK
  <2>3. ASSUME NEW a \in DOMAIN heap.seg, a # Last
        PROVE  /\ FirstNode <= a /\ a < mm_get_next(heap, a)
               /\ mm_get_next(heap, a) \in DOMAIN heap.seg
               /\ heap.seg[mm_get_next(heap, a)].prev = a
               /\ \A b \in DOMAIN heap.seg : b <= a \/ mm_get_next(heap, a) <= b
    <3>1. /\ FirstNode <= a /\ 0 < heap.seg[a].size
          /\ mm_get_next(heap, a) \in DOMAIN heap.seg
          /\ heap.seg[mm_get_next(heap, a)].prev = a
          /\ \A b \in DOMAIN heap.seg : b <= a \/ mm_get_next(heap, a) <= b
      BY <2>1, <2>3 DEF ListOK
    <3>2. a \in Nat /\ heap.seg[a].size \in Nat
      BY <2>1, ListFacts
    <3>3. a < mm_get_next(heap, a)
      BY <3>1, <3>2 DEF mm_get_next
    <3> QED BY <3>1, <3>3
  <2> QED BY <2>1, <2>2, <2>3 DEF ListIntact, Occupied
<1> QED BY <1>1, Invariance, PTL

\* The tree holds exactly the free segments under their current sizes, so that
\* mm_malloc neither hands out what is in use nor misses what is free.
THEOREM TreesMatch == Spec => []TreeMatchesList
<1>1. Inv => TreeMatchesList
  <2> SUFFICES ASSUME HeapOK(heap) PROVE TreeMatchesList
    BY DEF Inv
  <2>1. ListOK(heap) /\ TreeOK(heap, NULL) /\ End(heap) = Last
    BY DEF HeapOK, End, Last
  <2>2. \A a \in DOMAIN heap.seg : a # NULL /\ (a # Last => heap.seg[a].size # 0)
    BY <2>1, NotNull, ListFacts
  <2>3. ASSUME NEW k PROVE k \in heap.tree <=> k \in {Key(heap, a) : a \in {b \in Occupied : IsFree(heap, b)}}
    <3>1. k \in heap.tree <=> \E a \in DOMAIN heap.seg \ {Last} : ~heap.seg[a].alloc /\ k = <<heap.seg[a].size, a>>
      BY <2>1, <2>2 DEF TreeOK
    <3>2. \A a : a \in {b \in Occupied : IsFree(heap, b)} <=> a \in DOMAIN heap.seg \ {Last} /\ ~heap.seg[a].alloc
      BY <2>2 DEF Occupied, IsFree
    <3> QED BY <3>1, <3>2 DEF Key
  <2> QED BY <2>3 DEF TreeMatchesList
<1> QED BY <1>1, Invariance, PTL

\* Every segment has room for its header and a tree node, so that inserting it
\* into the tree never overwrites the header behind it, unless the driver has
\* asked for 0 bytes and aborted.
THEOREM NodesFit == Spec => [](verdict # "abort" => SegmentsHoldNodes)
<1>1. Inv => (verdict # "abort" => SegmentsHoldNodes)
  <2> SUFFICES ASSUME HeapOK(heap), BlocksOK, NEW a \in Occupied PROVE heap.seg[a].size >= NodeUnits
    BY DEF Inv, SegmentsHoldNodes
  <2>1. ListOK(heap) /\ FitOK(heap, NULL) /\ a \in DOMAIN heap.seg \ {End(heap)}
    BY DEF HeapOK, End, Last, Occupied
  <2>2. a # NULL /\ heap.seg[a].size \in Nat
    BY <2>1, NotNull, ListFacts
  <2>3. CASE heap.seg[a].alloc
    <3>1. PICK i \in Live : blocks[i].ptr = a
      BY <2>1, <2>3 DEF BlocksOK, Allocated
    <3>2. NodeUnits <= heap.seg[a].size
      BY <3>1, LiveSegment
    <3> QED BY <2>2, <3>2 DEF NodeUnits
  <2>4. CASE ~heap.seg[a].alloc
    BY <2>1, <2>2, <2>4 DEF FitOK, NodeUnits
  <2> QED BY <2>3, <2>4
<1> QED BY <1>1, Invariance, PTL

\* The allocated segments are those of the driver's blocks, one for each: nothing
\* is leaked by mm_realloc or mm_free and nothing handed out twice, until a request
\* of 0 bytes makes the driver abort.
THEOREM NothingLeaks == Spec => [](verdict # "abort" => NoLeak)
<1>1. Inv => (verdict # "abort" => NoLeak)
  <2> SUFFICES ASSUME BlocksOK PROVE NoLeak
    BY DEF Inv
  <2>1. {a \in Occupied : heap.seg[a].alloc} = Allocated(heap)
    BY DEF Occupied, Allocated, Last, End
  <2>2. Allocated(heap) = {blocks[i].ptr : i \in Live}
    BY DEF BlocksOK
  <2>3. \A i, j \in Live : blocks[i].ptr = blocks[j].ptr => i = j
    BY DEF BlocksOK
  <2> QED BY <2>1, <2>2, <2>3 DEF NoLeak
<1> QED BY <1>1, Invariance, PTL

\* eval_mm_valid finds no fault with any trace but in its own comparison: every
\* block lies in the heap and apart from the others, and mm_realloc keeps what was
\* written to it, so that only a block whose byte is negative as a char, compared
\* after it was resized, is reported.
THEOREM TracesAccepted == Spec => TraceAccepted
<1>1. Inv /\ [Next]_vars
      => [verdict = "running" /\ verdict' = "error" =>
            \E i \in Live, size \in Requests : Byte(i) > 127 /\ Realloc(i, size)]_vars
  <2> SUFFICES ASSUME Inv, Next, verdict = "running", verdict' = "error"
               PROVE  \E i \in Live, size \in Requests : Byte(i) > 127 /\ Realloc(i, size)
    BY DEF vars
  <2>1. ~NewTrace
    BY NewTraceStep
  <2>2. ASSUME NEW i \in Ids, Free(i) PROVE FALSE
    BY <2>2, FreeStep
  <2>3. ASSUME NEW i \in Ids, NEW size \in Requests, Alloc(i, size) PROVE FALSE
    BY <2>3, AllocStep
  <2>4. PICK i \in Ids, size \in Requests : Realloc(i, size)
    BY <2>1, <2>2, <2>3 DEF Next
  <2>5. ~(Byte(i) < 128)
    BY <2>4, ReallocStep
  <2>6. Byte(i) > 127
    <3>1. Byte(i) \in Int
      BY NumberAssumption DEF Byte
    <3> QED BY <2>5, <3>1
  <2>7. i \in Live
    BY <2>4 DEF Realloc
  <2> QED BY <2>4, <2>6, <2>7
<1> QED BY <1>1, Invariance, PTL DEF Spec, TraceAccepted

\* The allocator is what its client expects: whatever is split, joined, copied or
\* appended for one block, the others stay where they are with their contents.
THEOREM ArenaImplemented == Spec => ImplementsArena
<1>1. Init => Client!Init
  BY DEF Init, Client!Init, NoBlocks, NoBlock, Payload
<1>2. Inv /\ [Next]_vars => [Client!Next]_(Client!vars)
  BY Step
<1> QED BY <1>1, <1>2, Invariance, PTL DEF Spec, ImplementsArena, Client!Spec
-----------------------------------------------------------------------------
(* Traces without requests of 0 bytes.  read_trace does not refuse one, but *)
(* no trace of the lab has it, and mm_malloc leaves it open.                *)

\* The driver's assert on the size of a range never fails in such a trace.
LEMMA NeverAborts == ASSUME 0 \notin Requests PROVE Spec => [](verdict # "abort")
<1>1. Init => verdict # "abort"
  BY DEF Init
<1>2. verdict # "abort" /\ [Next]_vars => (verdict # "abort")'
  <2> SUFFICES ASSUME verdict # "abort", [Next]_vars PROVE verdict' # "abort"
    OBVIOUS
  <2>1. CASE UNCHANGED vars
    BY <2>1 DEF vars
  <2>2. ASSUME NEW i \in Ids, NEW size \in Requests, Alloc(i, size) \/ Realloc(i, size)
        PROVE verdict' # "abort"
    BY <2>2 DEF Alloc, Realloc, Judge, Segv
  <2>3. ASSUME NEW i \in Ids, Free(i) PROVE verdict' # "abort"
    BY <2>3 DEF Free
  <2>4. CASE NewTrace
    BY <2>4 DEF NewTrace
  <2> QED BY <2>1, <2>2, <2>3, <2>4 DEF Next
<1> QED BY <1>1, <1>2, PTL DEF Spec

\* In such a trace every segment has room for a tree node at any time.
THEOREM NodesAlwaysFit == ASSUME 0 \notin Requests PROVE Spec => []SegmentsHoldNodes
BY NodesFit, NeverAborts, PTL

\* In such a trace the allocated segments are at any time those of the blocks.
THEOREM NothingEverLeaks == ASSUME 0 \notin Requests PROVE Spec => []NoLeak
BY NothingLeaks, NeverAborts, PTL

-----------------------------------------------------------------------------
(***************************************************************************)
(* What the driver counts (eval_mm_util): the bytes in use are the sum     *)
(* over all blocks and fit into the heap.                                  *)
(***************************************************************************)
Table == [Ids -> [ptr: Nat, size: Nat]]

\* The sizes of the blocks.
Sizes(b) == [i \in Ids |-> b[i].size]
Total(b) == Sums(Ids, Sizes(b))[Ids]

\* The sum over all blocks is the one the driver's property speaks of.
LEMMA SumIsFold == FoldSet(LAMBDA i, sum : sum + blocks[i].size, 0, Ids) = Total(blocks)
<1> DEFINE E(f) == [s \in SUBSET Ids |-> IF s = {} THEN 0
                                         ELSE LET x == CHOOSE y \in s : TRUE
                                              IN  f[s \ {x}] + blocks[x].size]
           F(f) == [s \in SUBSET Ids |-> IF s = {} THEN 0
                                         ELSE LET x == CHOOSE y \in s : TRUE
                                              IN  f[s \ {x}] + Sizes(blocks)[x]]
<1>1. FoldSet(LAMBDA i, sum : sum + blocks[i].size, 0, Ids) = (CHOOSE f : f = E(f))[Ids]
  BY Zenon DEF FoldSet, MapThenFoldSet
<1>2. Sums(Ids, Sizes(blocks)) = CHOOSE f : f = F(f)
  BY Zenon DEF Sums
<1>3. ASSUME NEW f PROVE E(f) = F(f)
  <2>1. \A s \in SUBSET Ids : s # {} => (CHOOSE y \in s : TRUE) \in Ids
    OBVIOUS
  <2> QED BY <2>1 DEF Sizes
<1> HIDE DEF E, F
<1>4. (CHOOSE f : f = E(f)) = (CHOOSE f : f = F(f))
  BY <1>3, Zenon
<1> QED BY <1>1, <1>2, <1>4 DEF Total

\* The size of an interval.
LEMMA IntervalSize == ASSUME NEW m \in Nat, NEW n \in Nat
                      PROVE  IsFiniteSet(m + 1 .. m + n) /\ Cardinality(m + 1 .. m + n) = n
<1>1. m + 1 \in Int /\ m + n \in Int
  OBVIOUS
<1>2. IsFiniteSet(m + 1 .. m + n)
      /\ Cardinality(m + 1 .. m + n) = IF m + 1 > m + n THEN 0 ELSE (m + n) - (m + 1) + 1
  BY ONLY <1>1, FS_Interval
<1> QED BY <1>2

\* A change of one block changes the sum by the difference of the sizes.
LEMMA SumChanges ==
    ASSUME NEW b \in Table, NEW i \in Ids, NEW x \in [ptr: Nat, size: Nat],
           NEW c, c = [b EXCEPT ![i] = x]
    PROVE  /\ Total(b) \in Nat
           /\ Total(c) = Total(b) + (x.size - b[i].size)
<1> DEFINE v == Sizes(b)  w == Sizes(c)  rest == Ids \ {i}
<1>1. /\ v \in [Ids -> Nat] /\ w \in [Ids -> Nat]
      /\ v[i] = b[i].size /\ w[i] = x.size /\ v[i] \in Nat /\ w[i] \in Nat
      /\ \A j \in rest : v[j] = w[j]
  BY DEF Table, Sizes
<1> HIDE DEF v, w, rest
<1>2. /\ rest \in SUBSET Ids /\ Ids \in SUBSET Ids
  BY DEF rest
<1>3. ASSUME NEW f \in [Ids -> Nat]
      PROVE  /\ Sums(Ids, f)[rest] \in Nat /\ Sums(Ids, f)[Ids] \in Nat
             /\ Sums(Ids, f)[Ids] = Sums(Ids, f)[rest] + f[i]
  BY <1>2, IdsAssumption, SumTakes DEF rest
<1>4. Sums(Ids, v)[rest] \in Nat /\ Sums(Ids, v)[Ids] \in Nat /\ Sums(Ids, v)[Ids] = Sums(Ids, v)[rest] + v[i]
  BY <1>1, <1>3
<1>5. Sums(Ids, w)[Ids] = Sums(Ids, w)[rest] + w[i]
  BY <1>1, <1>3
<1>6. Sums(Ids, v)[rest] = Sums(Ids, w)[rest]
  BY <1>1, <1>2, IdsAssumption, SumsAgree
<1>7. Sums(Ids, w)[Ids] = Sums(Ids, v)[Ids] + (w[i] - v[i])
  BY ONLY <1>1, <1>4, <1>5, <1>6
<1> QED BY <1>1, <1>4, <1>7 DEF v, w, Total

\* Blocks without a unit in common fit into the units they all have.
LEMMA SumFits ==
    ASSUME NEW b \in Table, NEW P, \A j \in Ids : IsFiniteSet(P[j]) /\ b[j].size <= 8 * Cardinality(P[j]),
           \A j, k \in Ids : j # k => P[j] \cap P[k] = {}
    PROVE  /\ IsFiniteSet(UNION {P[j] : j \in Ids})
           /\ Total(b) <= 8 * Cardinality(UNION {P[j] : j \in Ids})
<1> DEFINE B == Sums(Ids, Sizes(b))
           U(s) == UNION {P[j] : j \in s}
           G == {s \in SUBSET Ids : IsFiniteSet(U(s)) /\ B[s] <= 8 * Cardinality(U(s))}
<1>1. Sizes(b) \in [Ids -> Nat] /\ \A j \in Ids : Sizes(b)[j] = b[j].size
  BY DEF Table, Sizes
<1>2. B[{}] = 0 /\ \A s \in SUBSET Ids : B[s] \in Nat
  BY <1>1, IdsAssumption, SumsAre, SumTakes
<1>3. ASSUME NEW s \in SUBSET Ids, NEW x \in s PROVE B[s] = B[s \ {x}] + b[x].size
  <2>1. B[s] = B[s \ {x}] + Sizes(b)[x]
    BY <1>1, IdsAssumption, SumTakes
  <2> QED BY <1>1, <2>1
<1>4. \A j \in Ids : b[j].size \in Nat /\ Cardinality(P[j]) \in Nat
  BY FS_CardinalityType DEF Table
<1> HIDE DEF B
<1>5. ASSUME NEW s \in SUBSET Ids, \A x \in s : s \ {x} \in G PROVE s \in G
  <2>1. CASE s = {}
    <3>1. U(s) = {} /\ IsFiniteSet({}) /\ Cardinality({}) = 0
      BY <2>1, FS_EmptySet
    <3>2. B[s] = 0
      BY <1>2, <2>1
    <3> HIDE DEF U
    <3> QED BY <3>1, <3>2
  <2>2. CASE s # {}
    <3> DEFINE R(x) == U(s \ {x})
    <3>1. PICK x \in s : TRUE
      BY <2>2
    <3>2. U(s) = R(x) \cup P[x] /\ R(x) \cap P[x] = {}
      OBVIOUS
    <3>3. s \ {x} \in G
      BY <1>5
    <3>4. IsFiniteSet(R(x)) /\ Cardinality(R(x)) \in Nat
          /\ B[s \ {x}] \in Nat /\ B[s \ {x}] <= 8 * Cardinality(R(x))
      BY <1>2, <3>3, FS_CardinalityType
    <3>5. B[s] = B[s \ {x}] + b[x].size
      BY <1>3
    <3> HIDE DEF R, U
    <3>6. IsFiniteSet(R(x) \cup P[x]) /\ Cardinality(R(x) \cup P[x]) = Cardinality(R(x)) + Cardinality(P[x])
      <4>1. Cardinality(R(x) \cap P[x]) = 0
        BY <3>2, FS_EmptySet
      <4>2. Cardinality(R(x) \cup P[x]) = Cardinality(R(x)) + Cardinality(P[x]) - Cardinality(R(x) \cap P[x])
            /\ IsFiniteSet(R(x) \cup P[x])
        BY <3>4, FS_Union
      <4> QED BY <1>4, <3>4, <4>1, <4>2
    <3>7. b[x].size \in Nat /\ b[x].size <= 8 * Cardinality(P[x]) /\ Cardinality(P[x]) \in Nat
      BY <1>4
    <3>8. B[s] <= 8 * (Cardinality(R(x)) + Cardinality(P[x]))
      BY ONLY <3>4, <3>5, <3>7
    <3> QED BY <3>2, <3>6, <3>8
  <2> QED BY <2>1, <2>2
<1>6. G = SUBSET Ids
  <2>1. G \in SUBSET SUBSET Ids
    OBVIOUS
  <2>2. \A s \in SUBSET Ids : (\A x \in s : s \ {x} \in G) => s \in G
    BY <1>5
  <2> HIDE DEF G
  <2> QED BY <2>1, <2>2, IdsAssumption, AllSets
<1>7. Ids \in G
  BY <1>6
<1> QED BY <1>7 DEF B, Total

\* The blocks fit into the heap, as their payloads lie apart from each other.
LEMMA BlocksFit == ASSUME HeapOK(heap), BlocksOK PROVE Total(blocks) <= 8 * heap.brk
<1> DEFINE P == [j \in Ids |-> Payload(blocks[j])]
           U == UNION {P[j] : j \in Ids}
<1>1. blocks \in [Ids -> [ptr: Nat, size: Nat]] /\ heap.brk \in Nat
  BY HeapParts DEF BlocksOK, HeapOK, ListOK
<1>2. \A j \in Live : /\ j \in Ids /\ blocks[j].ptr \in Nat /\ blocks[j].size \in Nat
                      /\ blocks[j].ptr \in Allocated(heap)
                      /\ SegmentSize(blocks[j].size) <= heap.seg[blocks[j].ptr].size
                      /\ P[j] = blocks[j].ptr + 1 .. blocks[j].ptr + Words(blocks[j].size)
  BY <1>1, LivePayload DEF BlocksOK
<1>3. \A j \in Ids \ Live : P[j] = {} /\ blocks[j].size = 0
  BY <1>1, LivePayload DEF NoBlock
<1>4. ASSUME NEW j \in Ids PROVE IsFiniteSet(P[j]) /\ blocks[j].size <= 8 * Cardinality(P[j])
  <2>1. CASE j \in Live
    <3> DEFINE p == blocks[j].ptr  n == blocks[j].size
    <3>1. p \in Nat /\ n \in Nat /\ Words(n) \in Nat /\ P[j] = p + 1 .. p + Words(n)
      BY <1>2, <2>1, WordsFacts
    <3>2. n <= 8 * Words(n)
      BY <3>1 DEF Words
    <3> HIDE DEF p, n, P
    <3>3. IsFiniteSet(P[j]) /\ Cardinality(P[j]) = Words(n)
      <4>1. IsFiniteSet(p + 1 .. p + Words(n)) /\ Cardinality(p + 1 .. p + Words(n)) = Words(n)
        BY ONLY <3>1, IntervalSize
      <4> QED BY <3>1, <4>1
    <3> QED BY <3>2, <3>3 DEF n
  <2>2. CASE j \notin Live
    <3>1. P[j] = {} /\ blocks[j].size = 0
      BY <1>3, <2>2
    <3> HIDE DEF P
    <3> QED BY <3>1, FS_EmptySet
  <2> QED BY <2>1, <2>2
<1>5. ASSUME NEW j \in Ids, NEW k \in Ids, j # k PROVE P[j] \cap P[k] = {}
  <2> SUFFICES ASSUME NEW u \in P[j], u \in P[k] PROVE FALSE
    OBVIOUS
  <2>1. j \in Live /\ k \in Live
    BY <1>3
  <2>2. blocks[j].ptr # blocks[k].ptr
    BY <1>5, <2>1 DEF BlocksOK
  <2>3. /\ u \in blocks[j].ptr + 1 .. blocks[j].ptr + Words(blocks[j].size)
        /\ u \in blocks[k].ptr + 1 .. blocks[k].ptr + Words(blocks[k].size)
    BY <1>2, <2>1
  <2> QED BY <1>2, <2>1, <2>2, <2>3, PayloadsApart
<1>6. IsFiniteSet(U) /\ Total(blocks) <= 8 * Cardinality(U)
  <2>1. blocks \in Table
    BY <1>1 DEF Table
  <2> HIDE DEF P
  <2> QED BY <1>4, <1>5, <2>1, SumFits
<1>7. U \subseteq 0 + 1 .. 0 + heap.brk
  <2> SUFFICES ASSUME NEW j \in Ids, NEW u \in P[j] PROVE u \in 0 + 1 .. 0 + heap.brk
    OBVIOUS
  <2>1. j \in Live /\ u \in blocks[j].ptr + 1 .. blocks[j].ptr + Words(blocks[j].size)
    BY <1>2, <1>3
  <2>2. u \in Units /\ u < End(heap) /\ blocks[j].ptr < u
    BY <1>2, <2>1, PayloadInside
  <2> QED BY <1>1, <1>2, <2>1, <2>2 DEF Units, End
<1>8. Cardinality(U) \in Nat /\ Cardinality(U) <= heap.brk
  <2> HIDE DEF U
  <2>1. 0 \in Nat
    OBVIOUS
  <2>2. IsFiniteSet(0 + 1 .. 0 + heap.brk) /\ Cardinality(0 + 1 .. 0 + heap.brk) = heap.brk
    BY ONLY <1>1, <2>1, IntervalSize
  <2> QED BY <1>6, <1>7, <2>2, FS_Subset, FS_CardinalityType
<1>9. Total(blocks) \in Nat
  <2>1. Sizes(blocks) \in [Ids -> Nat] /\ Ids \in SUBSET Ids
    BY <1>1 DEF Sizes
  <2> QED BY <2>1, IdsAssumption, SumTakes DEF Total
<1> QED BY <1>1, <1>6, <1>8, <1>9

-----------------------------------------------------------------------------
(***************************************************************************)
(* The heap never shrinks.                                                 *)
(***************************************************************************)

\* A record with the fields of a heap, whatever they hold.
Fields(h) == h = [x \in {"brk", "seg", "tree", "ok"} |-> h[x]]

\* Heap g has the fields of a heap and at least the units of h.
Grown(h, g) == Fields(g) /\ g.brk \in Nat /\ h.brk <= g.brk

\* The routines on segments and tree.
LEMMA RoutinesKeepEnd ==
    ASSUME NEW h, Fields(h), NEW a, NEW b
    PROVE  /\ Fields(mm_insert(h, a)) /\ mm_insert(h, a).brk = h.brk
           /\ Fields(mm_delete(h, a)) /\ mm_delete(h, a).brk = h.brk
           /\ Fields(mm_frag_node(h, a, b)) /\ mm_frag_node(h, a, b).brk = h.brk
           /\ Fields(Coalesce(h, a, b)) /\ Coalesce(h, a, b).brk = h.brk
           /\ Fields(mm_free(h, a)) /\ mm_free(h, a).brk = h.brk
<1>1. ASSUME NEW g, Fields(g), NEW x
      PROVE  /\ Fields(mm_insert(g, x)) /\ mm_insert(g, x).brk = g.brk
             /\ Fields(mm_delete(g, x)) /\ mm_delete(g, x).brk = g.brk
  BY <1>1 DEF mm_insert, mm_delete, Fields
<1>2. ASSUME NEW x, NEW y PROVE Fields(Coalesce(h, x, y)) /\ Coalesce(h, x, y).brk = h.brk
  BY DEF Coalesce, Fields
<1>3. Fields(mm_frag_node(h, a, b)) /\ mm_frag_node(h, a, b).brk = h.brk
  <2>1. CASE h.seg[a].size < b + NodeUnits
    <3>1. mm_frag_node(h, a, b) = [h EXCEPT !.seg[mm_get_next(h, a)].prev = a]
      BY <2>1 DEF mm_frag_node
    <3> QED BY <3>1 DEF Fields
  <2>2. CASE ~(h.seg[a].size < b + NodeUnits)
    <3>1. PICK f, x : mm_frag_node(h, a, b) = mm_insert([h EXCEPT !.seg = f], x)
      BY <2>2 DEF mm_frag_node
    <3>2. PICK g : g = [h EXCEPT !.seg = f]
      OBVIOUS
    <3>3. Fields(g) /\ g.brk = h.brk
      BY <3>2 DEF Fields
    <3> QED BY <3>1, <3>2, <3>3, <1>1
  <2> QED BY <2>1, <2>2
<1>4. Fields(mm_free(h, a)) /\ mm_free(h, a).brk = h.brk
  <2>1. PICK lo, hi : mm_free(h, a) = mm_insert([Coalesce(h, lo, hi) EXCEPT !.seg[lo].alloc = FALSE], lo)
    BY DEF mm_free
  <2> DEFINE c == Coalesce(h, lo, hi)  g == [c EXCEPT !.seg[lo].alloc = FALSE]
  <2>2. mm_free(h, a) = mm_insert(g, lo)
    BY <2>1
  <2>3. Fields(c) /\ c.brk = h.brk
    BY <1>2
  <2> HIDE DEF c
  <2>4. Fields(g) /\ g.brk = h.brk
    BY <2>3 DEF Fields
  <2> HIDE DEF g
  <2> QED BY <2>2, <2>4, <1>1
<1> QED BY <1>1, <1>2, <1>3, <1>4

\* mem_sbrk adds units or fails.
LEMMA SbrkGrows == ASSUME NEW h, Fields(h), h.brk \in Nat, NEW n \in Nat PROVE Grown(h, mm_sbrk(h, n))
<1>1. ASSUME NEW k \in Nat PROVE Grown(h, Grow(h, k))
  <2>1. CASE h.brk + k > MAX_HEAP
    <3>1. Grow(h, k) = [h EXCEPT !.ok = FALSE]
      BY <2>1 DEF Grow
    <3> QED BY <3>1 DEF Grown, Fields
  <2>2. CASE ~(h.brk + k > MAX_HEAP)
    <3>1. PICK f : Grow(h, k) = [h EXCEPT !.brk = h.brk + k, !.seg = f]
      BY <2>2 DEF Grow
    <3>2. Fields(Grow(h, k)) /\ Grow(h, k).brk = h.brk + k
      BY <3>1 DEF Fields
    <3> QED BY <3>2 DEF Grown
  <2> QED BY <2>1, <2>2
<1>2. CASE n >= MM_UNIT
  BY <1>1, <1>2 DEF mm_sbrk
<1>3. CASE ~(n >= MM_UNIT)
  <2> DEFINE g == Grow(h, MM_UNIT)
  <2>1. Grown(h, g)
    BY <1>1
  <2>2. mm_sbrk(h, n) = IF g.ok THEN mm_frag_node(g, h.brk - 1, n + 1) ELSE g
    BY <1>3 DEF mm_sbrk
  <2> HIDE DEF g
  <2>3. Grown(h, mm_frag_node(g, h.brk - 1, n + 1))
    BY <2>1, RoutinesKeepEnd DEF Grown
  <2> QED BY <2>1, <2>2, <2>3
<1> QED BY <1>2, <1>3

\* mm_malloc.
LEMMA MallocGrows ==
    ASSUME NEW h, Fields(h), h.brk \in Nat, NEW bytes \in Nat PROVE Grown(h, mm_malloc(h, bytes).heap)
<1> DEFINE size == SegmentSize(bytes)
<1>1. size \in Nat
  BY DEF SegmentSize
<1>2. CASE Index!Fitting(h.tree, size) = {}
  <2>1. mm_malloc(h, bytes).heap = mm_sbrk(h, size)
    BY <1>2 DEF mm_malloc
  <2> HIDE DEF size
  <2> QED BY <1>1, <2>1, SbrkGrows
<1>3. CASE Index!Fitting(h.tree, size) # {}
  <2>1. PICK p : mm_malloc(h, bytes).heap = [mm_frag_node(mm_delete(h, p), p, size) EXCEPT !.seg[p].alloc = TRUE]
    BY <1>3 DEF mm_malloc
  <2> HIDE DEF size
  <2>2. PICK d : d = mm_delete(h, p)
    OBVIOUS
  <2>3. PICK g : g = mm_frag_node(d, p, size)
    OBVIOUS
  <2>4. Fields(d) /\ d.brk = h.brk
    BY <2>2, RoutinesKeepEnd
  <2>5. Fields(g) /\ g.brk = h.brk
    BY <2>3, <2>4, RoutinesKeepEnd
  <2>6. PICK w : w = [g EXCEPT !.seg[p].alloc = TRUE]
    OBVIOUS
  <2>7. Fields(w) /\ w.brk = h.brk
    BY <2>5, <2>6 DEF Fields
  <2> QED BY <2>1, <2>2, <2>3, <2>6, <2>7 DEF Grown
<1> QED BY <1>2, <1>3

\* mm_realloc of an allocated segment.
LEMMA ReallocGrows ==
    ASSUME NEW h, HeapOK(h), NEW now \in Allocated(h), NEW bytes \in Nat
    PROVE  Grown(h, mm_realloc(h, now, bytes).heap)
<1>1. ListOK(h) /\ now \in DOMAIN h.seg \ {End(h)}
  BY DEF HeapOK, Allocated
<1>2. Fields(h) /\ h.brk \in Nat /\ now # NULL
  BY <1>1, ListFacts, NotNull DEF Heaps, Fields
<1>3. CASE bytes = 0
  BY <1>2, <1>3, RoutinesKeepEnd DEF mm_realloc, Grown
<1>4. CASE bytes # 0
  <2> DEFINE size == SegmentSize(bytes)
             end == ScanEnd(h, now, size)
             lacking == size - (end - now)
             grown == mm_sbrk(h, lacking)
             more == IF lacking > 0 THEN mm_insert([grown EXCEPT !.seg[end].alloc = FALSE], end) ELSE h
             new == mm_malloc(h, bytes)
             to == ScanEnd(more, now, size)
  <2>1. /\ mm_realloc(h, now, bytes).heap = mm_frag_node(h, now, size)
        \/ mm_realloc(h, now, bytes).heap = mm_free(new.heap, now)
        \/ mm_realloc(h, now, bytes).heap = Coalesce(more, now, to)
    BY <1>2, <1>4 DEF mm_realloc, Reallocate
  <2>2. size \in Nat /\ now \in Nat
    BY <1>1, ListFacts DEF SegmentSize
  <2> HIDE DEF size, to
  <2>3. end \in Nat
    <3>1. end \in DOMAIN h.seg
      BY <1>1, <2>2, ScanStops
    <3> QED BY <1>1, <3>1, ListFacts
  <2> HIDE DEF end
  <2>4. Grown(h, more)
    <3>1. CASE lacking > 0
      <4>1. lacking \in Nat
        BY <2>2, <2>3, <3>1
      <4> HIDE DEF lacking
      <4>2. Grown(h, grown)
        BY <1>2, <4>1, SbrkGrows
      <4> HIDE DEF grown
      <4>3. PICK w : w = [grown EXCEPT !.seg[end].alloc = FALSE]
        OBVIOUS
      <4>4. Fields(w) /\ w.brk = grown.brk
        BY <4>2, <4>3 DEF Grown, Fields
      <4>5. more = mm_insert(w, end)
        BY <3>1, <4>3
      <4> QED BY <4>2, <4>4, <4>5, RoutinesKeepEnd DEF Grown
    <3>2. CASE ~(lacking > 0)
      BY <1>2, <3>2 DEF Grown
    <3> QED BY <3>1, <3>2
  <2>5. Grown(h, new.heap)
    BY <1>2, MallocGrows
  <2> HIDE DEF more, new
  <2>6. Grown(h, mm_frag_node(h, now, size))
    BY <1>2, RoutinesKeepEnd DEF Grown
  <2>7. Grown(h, mm_free(new.heap, now))
    BY <2>5, RoutinesKeepEnd DEF Grown
  <2>8. Grown(h, Coalesce(more, now, to))
    BY <2>4, RoutinesKeepEnd DEF Grown
  <2> QED BY <2>1, <2>6, <2>7, <2>8
<1> QED BY <1>3, <1>4

-----------------------------------------------------------------------------
(***************************************************************************)
(* What the driver counts.                                                 *)
(***************************************************************************)
Blocks == [Ids -> [ptr: 0..MAX_HEAP, size: Nat]]
Memories == [Units -> Ids \cup {0}]

\* The bytes of all blocks are counted, and never were more than the heap has.
Counted ==
    /\ total_size \in Nat /\ max_total_size \in Nat
    /\ total_size = Total(blocks)
    /\ total_size <= max_total_size /\ max_total_size <= 8 * heap.brk

UseOK == blocks \in Blocks /\ mem \in Memories /\ Counted

\* BlocksFit as a fact about a state, and about the next one.
LEMMA Fits == Inv /\ verdict # "abort" => Total(blocks) <= 8 * heap.brk
  BY BlocksFit DEF Inv

LEMMA FitsNext == Inv' /\ verdict' # "abort" => Total(blocks') <= 8 * heap'.brk
<1>1. (Inv /\ verdict # "abort" => Total(blocks) <= 8 * heap.brk)'
  BY Fits, PTL
<1>2. Total(blocks)' = Total(blocks')
  BY DEF Total, Sums, Sizes
<1> QED BY <1>1, <1>2

\* An address of a heap.
LEMMA Address == ASSUME NEW h, HeapOK(h), NEW a \in DOMAIN h.seg PROVE a \in 0..MAX_HEAP
<1>1. a \in Nat /\ a <= h.brk - 1 /\ h.brk \in Nat /\ h.brk <= MAX_HEAP
  BY ListFacts DEF HeapOK, End
<1> QED BY <1>1

\* The driver takes a block over, or aborts: the bytes are counted either way, and
\* in a heap that is not smaller they still fit.
LEMMA JudgedUse ==
    ASSUME Inv, UseOK, Inv', NEW r, NEW i \in Ids, NEW size \in Nat, NEW kept, NEW m \in Memories,
           Judge(r, i, size, kept, m), r.ptr \in 0..MAX_HEAP, Grown(heap, r.heap)
    PROVE  UseOK'
<1> DEFINE b == [ptr |-> r.ptr, size |-> size]
<1>1. /\ heap' = r.heap /\ blocks' = [blocks EXCEPT ![i] = b]
      /\ mem' = Fill(Settle(m, r.heap, blocks'), b, i)
      /\ total_size' = total_size + (size - blocks[i].size)
      /\ max_total_size' = IF total_size' > max_total_size THEN total_size' ELSE max_total_size
      /\ verdict' = "abort" => size = 0
  BY DEF Judge, Account
<1>2. blocks' \in Blocks
  BY <1>1 DEF UseOK, Blocks
<1>3. mem' \in Memories
  <2>1. \A u \in Units : Settle(m, r.heap, blocks')[u] \in Ids \cup {0}
    BY DEF Settle, Memories
  <2>2. mem' = [u \in Units |-> IF u \in Payload(b) THEN i ELSE Settle(m, r.heap, blocks')[u]]
    BY <1>1 DEF Fill
  <2> QED BY <2>1, <2>2 DEF Memories
<1>4. blocks \in Table /\ blocks' \in Table /\ b \in [ptr: Nat, size: Nat] /\ blocks[i].size \in Nat
      /\ blocks[i] \in [ptr: Nat, size: Nat]
  BY <1>2 DEF UseOK, Blocks, Table
<1>5. Total(blocks) \in Nat /\ Total(blocks') = Total(blocks) + (size - blocks[i].size)
  <2>1. b.size = size /\ blocks' = [blocks EXCEPT ![i] = b]
    BY <1>1
  <2> HIDE DEF b
  <2>2. Total(blocks) \in Nat /\ Total(blocks') = Total(blocks) + (b.size - blocks[i].size)
    <3>1. blocks \in Table /\ b \in [ptr: Nat, size: Nat]
      BY <1>4
    <3> QED BY ONLY <2>1, <3>1, i \in Ids, SumChanges
  <2> QED BY <2>1, <2>2
<1>6. Total(blocks') \in Nat
  BY ONLY <1>4, i \in Ids, SumChanges
<1>7. total_size \in Nat /\ max_total_size \in Nat /\ total_size = Total(blocks)
      /\ total_size <= max_total_size /\ max_total_size <= 8 * heap.brk
  BY DEF UseOK, Counted
<1>8. heap.brk \in Nat /\ heap'.brk \in Nat /\ heap.brk <= heap'.brk
  <2>1. heap.brk \in Nat
    BY ListFacts DEF Inv, HeapOK
  <2> QED BY <1>1, <2>1 DEF Grown
<1>9. total_size' = Total(blocks') /\ total_size' \in Nat
  BY <1>1, <1>5, <1>6, <1>7
<1>10. total_size' <= 8 * heap'.brk
  <2>1. CASE verdict' # "abort"
    BY <1>9, <2>1, FitsNext
  <2>2. CASE verdict' = "abort"
    <3>1. total_size' <= total_size
      BY <1>1, <1>4, <1>7, <2>2
    <3> QED BY <1>7, <1>8, <1>9, <3>1
  <2> QED BY <2>1, <2>2
<1>11. max_total_size' \in Nat /\ total_size' <= max_total_size' /\ max_total_size' <= 8 * heap'.brk
  BY <1>1, <1>7, <1>8, <1>9, <1>10
<1>12. Counted'
  <2>1. Total(blocks)' = Total(blocks')
    BY DEF Total, Sums, Sizes
  <2> QED BY <1>9, <1>11, <2>1 DEF Counted
<1> QED BY <1>2, <1>3, <1>12 DEF UseOK, Blocks, Memories, Units

\* A step that ends the trace with a crash, or stutters.
LEMMA UnchangedUse == ASSUME UseOK, UNCHANGED <<heap, blocks, mem, usage>> PROVE UseOK'
  BY DEF UseOK, Counted, usage, Blocks, Memories, Units, Total, Sums, Sizes

\* A new block.
LEMMA AllocUse ==
    ASSUME Inv, UseOK, Inv', NEW i \in Ids, NEW size \in Requests, Alloc(i, size)
    PROVE  UseOK'
<1> DEFINE r == mm_malloc(heap, size)
<1>1. HeapOK(heap) /\ BlocksOK /\ i \notin Live /\ size \in Nat
  BY RequestsAssumption DEF Inv, Alloc
<1>2. CASE ~r.heap.ok
  BY <1>2, UnchangedUse DEF Alloc, Segv
<1>3. CASE r.heap.ok
  <2>1. Judge(r, i, size, TRUE, mem)
    BY <1>3 DEF Alloc
  <2>2. Placed(r, i, size)
    BY <1>1, <1>3, AllocPlaced
  <2>3. Fields(heap) /\ heap.brk \in Nat
    BY <1>1, ListFacts DEF HeapOK, Heaps, Fields
  <2>4. Grown(heap, r.heap)
    BY <1>1, <2>3, MallocGrows
  <2> HIDE DEF r
  <2>5. r.ptr \in 0..MAX_HEAP
    BY <2>2, Address DEF Placed, Allocated
  <2>6. mem \in Memories
    BY DEF UseOK
  <2> QED BY <1>1, <2>1, <2>4, <2>5, <2>6, JudgedUse
<1> QED BY <1>2, <1>3

\* Another size for a block; with 0 bytes it is freed, and its address returned.
LEMMA ReallocUse ==
    ASSUME Inv, UseOK, Inv', NEW i \in Ids, NEW size \in Requests, Realloc(i, size)
    PROVE  UseOK'
<1> DEFINE now == blocks[i].ptr
           r == mm_realloc(heap, now, size)
           m == mm_memcpy(mem, now, r.ptr, r.copied)
<1>1. HeapOK(heap) /\ BlocksOK /\ MemOK /\ i \in Live /\ size \in Nat
  BY RequestsAssumption DEF Inv, Realloc
<1>2. CASE ~r.heap.ok
  BY <1>2, UnchangedUse DEF Realloc, Segv
<1>3. CASE r.heap.ok
  <2>1. PICK kept : Judge(r, i, size, kept, m)
    BY <1>3 DEF Realloc
  <2>2. now \in Allocated(heap) /\ now # NULL
    BY <1>1, LiveSegment
  <2>3. Grown(heap, r.heap)
    BY <1>1, <2>2, ReallocGrows
  <2>4. r.ptr \in 0..MAX_HEAP /\ m \in Memories
    <3>1. CASE size = 0
      <4>1. r.ptr = now /\ r.copied = 0
        BY <2>2, <3>1 DEF mm_realloc
      <4>2. now \in 0..MAX_HEAP
        BY <1>1, <2>2, Address DEF Allocated
      <4> HIDE DEF r
      <4>3. m \in Memories
        BY <1>1, <4>1 DEF mm_memcpy, MemOK, Memories
      <4> QED BY <4>1, <4>2, <4>3
    <3>2. CASE size # 0
      <4>1. size \in Nat \ {0} /\ r = mm_realloc(heap, blocks[i].ptr, size)
            /\ m = mm_memcpy(mem, blocks[i].ptr, r.ptr, r.copied)
        BY <1>1, <3>2
      <4> HIDE DEF r, m
      <4>2. Resized(heap, blocks[i].ptr, SegmentSize(size), r) /\ Placed(r, i, size)
        BY <1>1, <1>3, <4>1, ReallocPlaced
      <4>3. m \in Memories
        BY <1>1, <4>1, <4>2, Copied DEF Memories
      <4>4. r.ptr \in 0..MAX_HEAP
        BY <4>2, Address DEF Placed, Allocated
      <4> QED BY <4>3, <4>4
    <3> QED BY <3>1, <3>2
  <2> HIDE DEF r, m
  <2> QED BY <1>1, <2>1, <2>3, <2>4, JudgedUse
<1> QED BY <1>2, <1>3

\* A block less.
LEMMA FreeUse ==
    ASSUME Inv, UseOK, NEW i \in Ids, Free(i)
    PROVE  UseOK'
<1>1. /\ heap' = mm_free(heap, blocks[i].ptr) /\ blocks' = [blocks EXCEPT ![i] = NoBlock]
      /\ mem' = Settle(mem, heap', blocks')
      /\ total_size' = total_size + (0 - blocks[i].size)
      /\ max_total_size' = IF total_size' > max_total_size THEN total_size' ELSE max_total_size
  BY DEF Free, remove_range, Account
<1>2. NoBlock \in [ptr: Nat, size: Nat] /\ NoBlock \in [ptr: 0..MAX_HEAP, size: Nat] /\ NoBlock.size = 0
  BY DEF NoBlock, NULL
<1>3. blocks' \in Blocks /\ mem' \in Memories
  BY <1>1, <1>2 DEF UseOK, Blocks, Memories, Settle
<1>4. blocks \in Table /\ blocks' \in Table /\ blocks[i].size \in Nat
  BY <1>3 DEF UseOK, Blocks, Table
<1>5. Total(blocks) \in Nat /\ Total(blocks') = Total(blocks) + (0 - blocks[i].size)
  BY <1>1, <1>2, <1>4, SumChanges
<1>6. Total(blocks') \in Nat
  BY ONLY <1>2, <1>4, i \in Ids, SumChanges
<1>7. heap.brk \in Nat /\ heap'.brk = heap.brk
  <2>1. heap \in Heaps /\ heap.brk \in Nat
    BY ListFacts DEF Inv, HeapOK
  <2>2. Fields(heap)
    BY <2>1 DEF Heaps, Fields
  <2> QED BY <1>1, <2>1, <2>2, RoutinesKeepEnd
<1>8. total_size \in Nat /\ max_total_size \in Nat /\ total_size = Total(blocks)
      /\ total_size <= max_total_size /\ max_total_size <= 8 * heap.brk
  BY DEF UseOK, Counted
<1>9. total_size' = Total(blocks') /\ total_size' \in Nat /\ max_total_size' = max_total_size
      /\ total_size' <= max_total_size
  BY <1>1, <1>4, <1>5, <1>6, <1>8
<1>10. Counted'
  <2>1. Total(blocks)' = Total(blocks')
    BY DEF Total, Sums, Sizes
  <2> QED BY <1>7, <1>8, <1>9, <2>1 DEF Counted
<1> QED BY <1>3, <1>10 DEF UseOK, Blocks, Memories, Units

\* Before the first call of a trace.
Fresh == /\ heap = mm_init /\ blocks = NoBlocks /\ mem = [u \in Units |-> 0]
         /\ total_size = 0 /\ max_total_size = 0

\* No blocks, and nothing counted.
LEMMA NothingCounted == Fresh => UseOK
<1> SUFFICES ASSUME Fresh PROVE UseOK
  OBVIOUS
<1> USE DEF Fresh
<1>1. blocks \in Blocks /\ \A i \in Ids : blocks[i].size = 0
  BY DEF NoBlocks, NoBlock, NULL, Blocks
<1>2. mem \in Memories
  BY DEF Memories
<1>3. Total(blocks) = 0
  <2>1. Sizes(blocks) \in [Ids -> Nat] /\ \A i \in Ids : Sizes(blocks)[i] = 0
    BY <1>1 DEF Sizes
  <2> QED BY <2>1, IdsAssumption, SumOfZeros DEF Total
<1>4. heap.brk = 4
  BY DEF mm_init, FirstNode
<1> QED BY <1>1, <1>2, <1>3, <1>4 DEF UseOK, Counted

\* The next trace begins with nothing counted.
LEMMA NothingCountedNext == NewTrace => UseOK'
<1>1. (Fresh => UseOK)'
  BY NothingCounted, PTL
<1>2. NewTrace => Fresh'
  BY DEF NewTrace, Fresh, mm_init, NoBlocks, Units
<1> QED BY <1>1, <1>2

\* Every step keeps the count right.
LEMMA UseStep == Inv /\ UseOK /\ [Next]_vars => UseOK'
<1> SUFFICES ASSUME Inv, UseOK, [Next]_vars PROVE UseOK'
  OBVIOUS
<1>1. Inv'
  BY Step
<1>2. CASE UNCHANGED vars
  BY <1>2, UnchangedUse DEF vars
<1>3. ASSUME NEW i \in Ids, NEW size \in Requests, Alloc(i, size) PROVE UseOK'
  BY <1>1, <1>3, AllocUse
<1>4. ASSUME NEW i \in Ids, NEW size \in Requests, Realloc(i, size) PROVE UseOK'
  BY <1>1, <1>4, ReallocUse
<1>5. ASSUME NEW i \in Ids, Free(i) PROVE UseOK'
  BY <1>5, FreeUse
<1>6. CASE NewTrace
  BY <1>6, NothingCountedNext
<1> QED BY <1>2, <1>3, <1>4, <1>5, <1>6 DEF Next

\* The count is right in every trace.
LEMMA UseAlways == Spec => []UseOK
<1>1. Init => UseOK
  BY NothingCounted DEF Init, Fresh
<1> QED BY <1>1, UseStep, Invariance, PTL DEF Spec

\* eval_mm_util: what is counted as in use is the sum of the sizes of all blocks
\* through every resizing, and never exceeds the heap it is divided by.
THEOREM UtilisationBounded == Spec => []UtilisationAtMostOne
<1>1. UseOK => UtilisationAtMostOne
  BY SumIsFold DEF UseOK, Counted, UtilisationAtMostOne
<1> QED BY <1>1, UseAlways, PTL

\* The variables of allocator and driver keep their types: addresses and sizes
\* never exceed what mem_sbrk can hand out.
THEOREM TypeCorrect == Spec => []TypeOK
<1>1. Inv /\ UseOK => TypeOK
  <2> SUFFICES ASSUME Inv, UseOK PROVE TypeOK
    OBVIOUS
  <2>1. HeapOK(heap) /\ ListOK(heap) /\ TreeOK(heap, NULL) /\ heap.brk <= MAX_HEAP /\ heap.ok
    BY DEF Inv, HeapOK
  <2>2. heap.brk \in 0..MAX_HEAP /\ heap.ok = TRUE
    BY <2>1, HeapParts DEF ListOK
  <2>3. \A a \in DOMAIN heap.seg : a \in 0..MAX_HEAP
    BY <2>1, Address
  <2>4. ASSUME NEW a \in DOMAIN heap.seg
        PROVE  heap.seg[a] \in [size: 0..MAX_HEAP, alloc: BOOLEAN, prev: 0..MAX_HEAP]
    <3>1. heap.seg[a] \in Header
      BY <2>1, HeapParts DEF ListOK
    <3>2. heap.seg[a].size \in 0..MAX_HEAP
      <4>1. CASE a = End(heap)
        BY <2>1, <4>1 DEF ListOK
      <4>2. CASE a # End(heap)
        <5>1. a + heap.seg[a].size \in DOMAIN heap.seg /\ a \in Nat /\ heap.seg[a].size \in Nat
          BY <2>1, <4>2, ListFacts
        <5> QED BY <2>3, <5>1
      <4> QED BY <4>1, <4>2
    <3>3. heap.seg[a].prev \in 0..MAX_HEAP
      <4>1. CASE a = FirstNode
        BY <2>1, <4>1 DEF ListOK, NULL
      <4>2. CASE a # FirstNode
        <5>1. heap.seg[a].prev \in DOMAIN heap.seg
          BY <2>1, <4>2, ListFacts
        <5> QED BY <2>3, <5>1
      <4> QED BY <4>1, <4>2
    <3> QED BY <3>1, <3>2, <3>3 DEF Header
  <2>5. heap.tree \subseteq (0..MAX_HEAP) \X (0..MAX_HEAP)
    <3> SUFFICES ASSUME NEW k \in heap.tree PROVE k \in (0..MAX_HEAP) \X (0..MAX_HEAP)
      OBVIOUS
    <3>1. PICK a \in DOMAIN heap.seg \ {End(heap), NULL} : k = <<heap.seg[a].size, a>>
      BY <2>1 DEF TreeOK
    <3>2. heap.seg[a].size \in 0..MAX_HEAP /\ a \in 0..MAX_HEAP
      BY <2>3, <2>4
    <3> QED BY <3>1, <3>2
  <2>6. blocks \in [Ids -> [ptr: 0..MAX_HEAP, size: Nat]] /\ mem \in [Units -> Ids \cup {0}]
        /\ total_size \in Nat /\ max_total_size \in Nat
    BY DEF UseOK, Blocks, Memories, Counted
  <2>7. verdict \in {"running", "error", "abort", "segv"}
    BY DEF Inv
  <2> QED BY <2>2, <2>3, <2>4, <2>5, <2>6, <2>7 DEF TypeOK
<1> QED BY <1>1, Invariance, UseAlways, PTL
=============================================================================
