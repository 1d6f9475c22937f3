---------------------------- MODULE RBTreeProofs ----------------------------
(***************************************************************************)
(* Proofs about the red-black tree of free segments in mm.c, for any sizes *)
(* and addresses.                                                          *)
(***************************************************************************)
EXTENDS RBTree, Sequences, SumProofs

-----------------------------------------------------------------------------
(***************************************************************************)
(* The recursive functions of the module exist.  Each is built up from the *)
(* trees of height 0: a function for the trees of a height, applied to     *)
(* their children, gives one for the trees of the next height that extends *)
(* it.                                                                     *)
(***************************************************************************)
Depth == Cardinality(Segments)

NoNodes == [null : {TRUE}, color : Colors]
NodesOver(T) == [null : {FALSE}, color : Colors, key : Segments, child : [Sides -> T]]

LEMMA DepthIs == Depth \in Nat /\ IsFiniteSet(Segments)
<1>1. IsFiniteSet(Segments)
  BY SizesAssumption, AddressesAssumption, FS_Product DEF Segments
<1> QED BY <1>1, FS_CardinalityType DEF Depth

\* Counting up to the number of the segments.
LEMMA Higher == ASSUME NEW A, 0 \in A, \A n \in 0..Depth - 1 : n \in A => n + 1 \in A PROVE 0..Depth \subseteq A
<1> DEFINE B == {n \in Nat : n \in 0..Depth => n \in A}
<1>1. 0 \in B
  OBVIOUS
<1>2. ASSUME NEW n \in B PROVE n + 1 \in B
  BY <1>2, DepthIs
<1>3. B = Nat
  <2> HIDE DEF B
  <2>1. B \in SUBSET Nat
    BY DEF B
  <2> QED BY <1>1, <1>2, <2>1, AllNumbers
<1> QED BY <1>3

LEMMA TreesExist ==
    Trees = [n \in 0..Depth |-> NoNodes \cup IF n = 0 THEN {} ELSE NodesOver(Trees[n - 1])]
<1> DEFINE F(g, m) == [n \in 0..m |-> NoNodes \cup IF n = 0 THEN {} ELSE NodesOver(g[n - 1])]
           A == {m \in 0..Depth : \E g : g = F(g, m)}
<1>1. 0 \in A
  <2> DEFINE g == F(<<>>, 0)
  <2>1. g = F(g, 0)
    OBVIOUS
  <2>2. 0 \in 0..Depth
    BY DepthIs
  <2> HIDE DEF g, F
  <2> QED BY <2>1, <2>2
<1>2. ASSUME NEW m \in 0..Depth - 1, m \in A PROVE m + 1 \in A
  <2>1. PICK g : g = F(g, m)
    BY <1>2
  <2> DEFINE h == F(g, m + 1)
  <2>2. m \in Nat /\ m + 1 \in 0..Depth
    BY DepthIs
  <2>3. \A n \in 0..m + 1 : n # 0 => n - 1 \in 0..m /\ n - 1 \in 0..m + 1
    BY <2>2
  <2>4. \A n \in 0..m : h[n] = g[n]
    <3> HIDE DEF NoNodes
    <3>1. \A n \in 0..m : n \in 0..m + 1
      BY <2>2
    <3> QED BY <2>1, <3>1
  <2>5. h = F(h, m + 1)
    <3> HIDE DEF h
    <3>1. \A n \in 0..m + 1 : n # 0 => h[n - 1] = g[n - 1]
      BY <2>3, <2>4
    <3> QED BY <3>1 DEF h
  <2> QED BY <2>2, <2>5
<1>3. Depth \in A
  <2> HIDE DEF A
  <2>1. Depth \in 0..Depth
    BY DepthIs
  <2> QED BY <1>1, <1>2, <2>1, Higher
<1>4. \E g : g = F(g, Depth)
  BY <1>3
<1> QED BY <1>4 DEF Trees, Depth, NoNodes, NodesOver

\* A tree of some height is the sentinel, or a node over lower trees.
LEMMA TreesAre == /\ Trees[0] = NoNodes
                  /\ \A n \in 0..Depth - 1 : Trees[n + 1] = NoNodes \cup NodesOver(Trees[n])
<1> HIDE DEF NoNodes, NodesOver
<1>1. 0 \in 0..Depth
  BY DepthIs
<1>2. ASSUME NEW n \in 0..Depth - 1 PROVE Trees[n + 1] = NoNodes \cup NodesOver(Trees[n])
  <2>1. n + 1 \in 0..Depth /\ n + 1 # 0 /\ (n + 1) - 1 = n
    BY DepthIs
  <2> QED BY <2>1, TreesExist
<1> QED BY <1>1, <1>2, TreesExist

LEMMA TreesUp == \A n \in 0..Depth - 1 : Trees[n] \subseteq Trees[n + 1]
<1> DEFINE A == {n \in 0..Depth : n < Depth => Trees[n] \subseteq Trees[n + 1]}
<1>1. 0 \in A
  <2> HIDE DEF NoNodes, NodesOver
  <2>1. 0 < Depth => 0 \in 0..Depth - 1
    BY DepthIs
  <2> QED BY <2>1, TreesAre, DepthIs
<1>2. ASSUME NEW n \in 0..Depth - 1, n \in A PROVE n + 1 \in A
  <2>1. n + 1 \in 0..Depth /\ n \in Nat
    BY DepthIs
  <2>2. ASSUME n + 1 < Depth PROVE Trees[n + 1] \subseteq Trees[(n + 1) + 1]
    <3>1. n + 1 \in 0..Depth - 1 /\ n < Depth
      BY <2>1, <2>2, DepthIs
    <3>2. Trees[n] \subseteq Trees[n + 1]
      BY <1>2, <3>1
    <3>3. NodesOver(Trees[n]) \subseteq NodesOver(Trees[n + 1])
      BY <3>2 DEF NodesOver
    <3>4. /\ Trees[n + 1] = NoNodes \cup NodesOver(Trees[n])
          /\ Trees[(n + 1) + 1] = NoNodes \cup NodesOver(Trees[n + 1])
      BY <3>1, TreesAre
    <3> HIDE DEF NoNodes, NodesOver
    <3> QED BY <3>3, <3>4
  <2> QED BY <2>1, <2>2
<1>3. 0..Depth \subseteq A
  <2> HIDE DEF A
  <2> QED BY <1>1, <1>2, Higher
<1>4. ASSUME NEW n \in 0..Depth - 1 PROVE Trees[n] \subseteq Trees[n + 1]
  <2>1. n \in 0..Depth /\ n < Depth
    BY DepthIs
  <2> QED BY <1>3, <2>1
<1> QED BY <1>4

\* The children of a node are trees of the height below.
LEMMA LowerTrees ==
    /\ \A t \in Trees[0] : t.null
    /\ \A m \in 0..Depth - 1 : \A t \in Trees[m + 1] : ~t.null => \A d \in Sides : t.child[d] \in Trees[m]
<1>1. ASSUME NEW t \in NoNodes PROVE t.null = TRUE
  BY DEF NoNodes
<1>2. ASSUME NEW T, NEW t \in NodesOver(T), NEW d \in Sides PROVE t.child[d] \in T
  BY DEF NodesOver
<1> HIDE DEF NoNodes, NodesOver
<1>3. ASSUME NEW m \in 0..Depth - 1, NEW t \in Trees[m + 1], ~t.null, NEW d \in Sides PROVE t.child[d] \in Trees[m]
  <2>1. t \in NodesOver(Trees[m])
    BY <1>1, <1>3, TreesAre
  <2> QED BY <1>2, <2>1
<1> QED BY <1>1, <1>3, TreesAre

LEMMA SubtreesExist ==
    Subtrees =
              [t \in Tree |->
                  {t} \cup IF t.null THEN {} ELSE Subtrees[t.child["left"]] \cup Subtrees[t.child["right"]]]
<1> DEFINE F(g, T) == [t \in T |->
                       {t} \cup IF t.null THEN {} ELSE g[t.child["left"]] \cup g[t.child["right"]]]
           A == {m \in 0..Depth : \E g : g = F(g, Trees[m])}
<1>1. 0 \in A
  <2> DEFINE g == F(<<>>, Trees[0])
  <2>1. g = F(g, Trees[0])
    BY LowerTrees
  <2>2. 0 \in 0..Depth
    BY DepthIs
  <2> HIDE DEF g, F
  <2> QED BY <2>1, <2>2
<1>2. ASSUME NEW m \in 0..Depth - 1, m \in A PROVE m + 1 \in A
  <2>1. PICK g : g = F(g, Trees[m])
    BY <1>2
  <2> DEFINE h == F(g, Trees[m + 1])
  <2>2. \A t \in Trees[m] : h[t] = g[t]
    BY <2>1, TreesUp
  <2>3. h = F(h, Trees[m + 1])
    <3> HIDE DEF h
    <3>1. \A t \in Trees[m + 1] : ~t.null => \A d \in Sides : h[t.child[d]] = g[t.child[d]]
      BY <2>2, LowerTrees
    <3> QED BY <3>1 DEF h, Sides
  <2>4. m + 1 \in 0..Depth
    BY DepthIs
  <2> HIDE DEF h, F
  <2> QED BY <2>3, <2>4
<1>3. Depth \in A
  <2> HIDE DEF A
  <2>1. Depth \in 0..Depth
    BY DepthIs
  <2> QED BY <1>1, <1>2, <2>1, Higher
<1>4. \E g : g = F(g, Tree)
  BY <1>3 DEF Tree, Depth
<1> QED BY <1>4 DEF Subtrees

LEMMA BlackHeightsExist ==
    BlackHeights =
              [t \in Tree |->
                  IF t.null THEN {0}
                  ELSE {h + (IF IsRed(t) THEN 0 ELSE 1) :
                           h \in BlackHeights[t.child["left"]] \cup BlackHeights[t.child["right"]]}]
<1> DEFINE F(g, T) == [t \in T |->
                       IF t.null THEN {0}
                       ELSE {h + (IF IsRed(t) THEN 0 ELSE 1) :
                                h \in g[t.child["left"]] \cup g[t.child["right"]]}]
           A == {m \in 0..Depth : \E g : g = F(g, Trees[m])}
<1>1. 0 \in A
  <2> DEFINE g == F(<<>>, Trees[0])
  <2>1. g = F(g, Trees[0])
    BY LowerTrees
  <2>2. 0 \in 0..Depth
    BY DepthIs
  <2> HIDE DEF g, F
  <2> QED BY <2>1, <2>2
<1>2. ASSUME NEW m \in 0..Depth - 1, m \in A PROVE m + 1 \in A
  <2>1. PICK g : g = F(g, Trees[m])
    BY <1>2
  <2> DEFINE h == F(g, Trees[m + 1])
  <2>2. \A t \in Trees[m] : h[t] = g[t]
    BY <2>1, TreesUp
  <2>3. h = F(h, Trees[m + 1])
    <3> HIDE DEF h
    <3>1. \A t \in Trees[m + 1] : ~t.null => \A d \in Sides : h[t.child[d]] = g[t.child[d]]
      BY <2>2, LowerTrees
    <3> QED BY <3>1 DEF h, Sides
  <2>4. m + 1 \in 0..Depth
    BY DepthIs
  <2> HIDE DEF h, F
  <2> QED BY <2>3, <2>4
<1>3. Depth \in A
  <2> HIDE DEF A
  <2>1. Depth \in 0..Depth
    BY DepthIs
  <2> QED BY <1>1, <1>2, <2>1, Higher
<1>4. \E g : g = F(g, Tree)
  BY <1>3 DEF Tree, Depth
<1> QED BY <1>4 DEF BlackHeights

LEMMA SearchExists ==
    ASSUME NEW size
    PROVE  mm_search_node(size) =
              [t \in Tree |->
                  IF t.null THEN NULL
                  ELSE IF size <= t.key[1]
                       THEN LET ptr == mm_search_node(size)[t.child["left"]]
                            IN IF ptr = NULL THEN t.key ELSE ptr
                       ELSE mm_search_node(size)[t.child["right"]]]
<1> DEFINE F(g, T) == [t \in T |->
                       IF t.null THEN NULL
                       ELSE IF size <= t.key[1]
                            THEN LET ptr == g[t.child["left"]]
                                 IN IF ptr = NULL THEN t.key ELSE ptr
                            ELSE g[t.child["right"]]]
           A == {m \in 0..Depth : \E g : g = F(g, Trees[m])}
<1>1. 0 \in A
  <2> DEFINE g == F(<<>>, Trees[0])
  <2>1. g = F(g, Trees[0])
    BY LowerTrees
  <2>2. 0 \in 0..Depth
    BY DepthIs
  <2> HIDE DEF g, F
  <2> QED BY <2>1, <2>2
<1>2. ASSUME NEW m \in 0..Depth - 1, m \in A PROVE m + 1 \in A
  <2>1. PICK g : g = F(g, Trees[m])
    BY <1>2
  <2> DEFINE h == F(g, Trees[m + 1])
  <2>2. \A t \in Trees[m] : h[t] = g[t]
    BY <2>1, TreesUp
  <2>3. h = F(h, Trees[m + 1])
    <3> HIDE DEF h
    <3>1. \A t \in Trees[m + 1] : ~t.null => \A d \in Sides : h[t.child[d]] = g[t.child[d]]
      BY <2>2, LowerTrees
    <3> QED BY <3>1 DEF h, Sides
  <2>4. m + 1 \in 0..Depth
    BY DepthIs
  <2> HIDE DEF h, F
  <2> QED BY <2>3, <2>4
<1>3. Depth \in A
  <2> HIDE DEF A
  <2>1. Depth \in 0..Depth
    BY DepthIs
  <2> QED BY <1>1, <1>2, <2>1, Higher
<1>4. \E g : g = F(g, Tree)
  BY <1>3 DEF Tree, Depth
<1> QED BY <1>4 DEF mm_search_node

LEMMA InsertExists ==
    ASSUME NEW new
    PROVE  mm_insert_node(new) =
              [t \in Tree |->
                  IF t.null
                  THEN [null |-> FALSE, color |-> "red", key |-> new, child |-> [d \in Sides |-> t]]
                  ELSE LET d == IF Index!mm_cmp_node(new, t.key) THEN "left" ELSE "right"
                       IN InsertFixup(Put(t, d, mm_insert_node(new)[t.child[d]]), d)]
<1> DEFINE F(g, T) == [t \in T |->
                       IF t.null
                       THEN [null |-> FALSE, color |-> "red", key |-> new, child |-> [d \in Sides |-> t]]
                       ELSE LET d == IF Index!mm_cmp_node(new, t.key) THEN "left" ELSE "right"
                            IN InsertFixup(Put(t, d, g[t.child[d]]), d)]
           A == {m \in 0..Depth : \E g : g = F(g, Trees[m])}
<1>1. 0 \in A
  <2> DEFINE g == F(<<>>, Trees[0])
  <2>1. g = F(g, Trees[0])
    BY LowerTrees
  <2>2. 0 \in 0..Depth
    BY DepthIs
  <2> HIDE DEF g, F
  <2> QED BY <2>1, <2>2
<1>2. ASSUME NEW m \in 0..Depth - 1, m \in A PROVE m + 1 \in A
  <2>1. PICK g : g = F(g, Trees[m])
    BY <1>2
  <2> DEFINE h == F(g, Trees[m + 1])
  <2>2. \A t \in Trees[m] : h[t] = g[t]
    BY <2>1, TreesUp
  <2>3. h = F(h, Trees[m + 1])
    <3> HIDE DEF h
    <3>1. \A t \in Trees[m + 1] : ~t.null => \A d \in Sides : h[t.child[d]] = g[t.child[d]]
      BY <2>2, LowerTrees
    <3> QED BY <3>1 DEF h, Sides
  <2>4. m + 1 \in 0..Depth
    BY DepthIs
  <2> HIDE DEF h, F
  <2> QED BY <2>3, <2>4
<1>3. Depth \in A
  <2> HIDE DEF A
  <2>1. Depth \in 0..Depth
    BY DepthIs
  <2> QED BY <1>1, <1>2, <2>1, Higher
<1>4. \E g : g = F(g, Tree)
  BY <1>3 DEF Tree, Depth
<1> QED BY <1>4 DEF mm_insert_node

LEMMA LeftmostExists ==
    Leftmost =
              [t \in Tree |->
                  IF t.null \/ t.child["left"].null THEN t.key ELSE Leftmost[t.child["left"]]]
<1> DEFINE F(g, T) == [t \in T |->
                       IF t.null \/ t.child["left"].null THEN t.key ELSE g[t.child["left"]]]
           A == {m \in 0..Depth : \E g : g = F(g, Trees[m])}
<1>1. 0 \in A
  <2> DEFINE g == F(<<>>, Trees[0])
  <2>1. g = F(g, Trees[0])
    BY LowerTrees
  <2>2. 0 \in 0..Depth
    BY DepthIs
  <2> HIDE DEF g, F
  <2> QED BY <2>1, <2>2
<1>2. ASSUME NEW m \in 0..Depth - 1, m \in A PROVE m + 1 \in A
  <2>1. PICK g : g = F(g, Trees[m])
    BY <1>2
  <2> DEFINE h == F(g, Trees[m + 1])
  <2>2. \A t \in Trees[m] : h[t] = g[t]
    BY <2>1, TreesUp
  <2>3. h = F(h, Trees[m + 1])
    <3> HIDE DEF h
    <3>1. \A t \in Trees[m + 1] : ~t.null => \A d \in Sides : h[t.child[d]] = g[t.child[d]]
      BY <2>2, LowerTrees
    <3> QED BY <3>1 DEF h, Sides
  <2>4. m + 1 \in 0..Depth
    BY DepthIs
  <2> HIDE DEF h, F
  <2> QED BY <2>3, <2>4
<1>3. Depth \in A
  <2> HIDE DEF A
  <2>1. Depth \in 0..Depth
    BY DepthIs
  <2> QED BY <1>1, <1>2, <2>1, Higher
<1>4. \E g : g = F(g, Tree)
  BY <1>3 DEF Tree, Depth
<1> QED BY <1>4 DEF Leftmost

LEMMA TakeLeftmostExists ==
    TakeLeftmost =
              [t \in Tree |->
                  IF t.null \/ t.child["left"].null THEN Unlink(t, "right")
                  ELSE Rebalance(t, "left", TakeLeftmost[t.child["left"]])]
<1> DEFINE F(g, T) == [t \in T |->
                       IF t.null \/ t.child["left"].null THEN Unlink(t, "right")
                       ELSE Rebalance(t, "left", g[t.child["left"]])]
           A == {m \in 0..Depth : \E g : g = F(g, Trees[m])}
<1>1. 0 \in A
  <2> DEFINE g == F(<<>>, Trees[0])
  <2>1. g = F(g, Trees[0])
    BY LowerTrees
  <2>2. 0 \in 0..Depth
    BY DepthIs
  <2> HIDE DEF g, F
  <2> QED BY <2>1, <2>2
<1>2. ASSUME NEW m \in 0..Depth - 1, m \in A PROVE m + 1 \in A
  <2>1. PICK g : g = F(g, Trees[m])
    BY <1>2
  <2> DEFINE h == F(g, Trees[m + 1])
  <2>2. \A t \in Trees[m] : h[t] = g[t]
    BY <2>1, TreesUp
  <2>3. h = F(h, Trees[m + 1])
    <3> HIDE DEF h
    <3>1. \A t \in Trees[m + 1] : ~t.null => \A d \in Sides : h[t.child[d]] = g[t.child[d]]
      BY <2>2, LowerTrees
    <3> QED BY <3>1 DEF h, Sides
  <2>4. m + 1 \in 0..Depth
    BY DepthIs
  <2> HIDE DEF h, F
  <2> QED BY <2>3, <2>4
<1>3. Depth \in A
  <2> HIDE DEF A
  <2>1. Depth \in 0..Depth
    BY DepthIs
  <2> QED BY <1>1, <1>2, <2>1, Higher
<1>4. \E g : g = F(g, Tree)
  BY <1>3 DEF Tree, Depth
<1> QED BY <1>4 DEF TakeLeftmost

LEMMA DeleteExists ==
    ASSUME NEW del
    PROVE  mm_delete_node(del) =
              [t \in Tree |->
                  IF t.null \/ t.key = del
                  THEN LET right == t.child["right"]
                       IN IF right.null THEN Unlink(t, "left")
                          ELSE Rebalance(Rekey(t, Leftmost[right]), "right", TakeLeftmost[right])
                  ELSE LET d == IF Index!mm_cmp_node(del, t.key) THEN "left" ELSE "right"
                       IN Rebalance(t, d, mm_delete_node(del)[t.child[d]])]
<1> DEFINE F(g, T) == [t \in T |->
                       IF t.null \/ t.key = del
                       THEN LET right == t.child["right"]
                            IN IF right.null THEN Unlink(t, "left")
                               ELSE Rebalance(Rekey(t, Leftmost[right]), "right", TakeLeftmost[right])
                       ELSE LET d == IF Index!mm_cmp_node(del, t.key) THEN "left" ELSE "right"
                            IN Rebalance(t, d, g[t.child[d]])]
           A == {m \in 0..Depth : \E g : g = F(g, Trees[m])}
<1>1. 0 \in A
  <2> DEFINE g == F(<<>>, Trees[0])
  <2>1. g = F(g, Trees[0])
    BY LowerTrees
  <2>2. 0 \in 0..Depth
    BY DepthIs
  <2> HIDE DEF g, F
  <2> QED BY <2>1, <2>2
<1>2. ASSUME NEW m \in 0..Depth - 1, m \in A PROVE m + 1 \in A
  <2>1. PICK g : g = F(g, Trees[m])
    BY <1>2
  <2> DEFINE h == F(g, Trees[m + 1])
  <2>2. \A t \in Trees[m] : h[t] = g[t]
    BY <2>1, TreesUp
  <2>3. h = F(h, Trees[m + 1])
    <3> HIDE DEF h
    <3>1. \A t \in Trees[m + 1] : ~t.null => \A d \in Sides : h[t.child[d]] = g[t.child[d]]
      BY <2>2, LowerTrees
    <3> QED BY <3>1 DEF h, Sides
  <2>4. m + 1 \in 0..Depth
    BY DepthIs
  <2> HIDE DEF h, F
  <2> QED BY <2>3, <2>4
<1>3. Depth \in A
  <2> HIDE DEF A
  <2>1. Depth \in 0..Depth
    BY DepthIs
  <2> QED BY <1>1, <1>2, <2>1, Higher
<1>4. \E g : g = F(g, Tree)
  BY <1>3 DEF Tree, Depth
<1> QED BY <1>4 DEF mm_delete_node

-----------------------------------------------------------------------------
(***************************************************************************)
(* Trees: the sentinel, or a node over two trees.                          *)
(***************************************************************************)
LEMMA TreesGrow == \A n \in 0..Depth : \A m \in 0..n : Trees[m] \subseteq Trees[n]
<1> DEFINE A == {n \in 0..Depth : \A m \in 0..n : Trees[m] \subseteq Trees[n]}
<1>1. 0 \in A
  BY DepthIs
<1>2. ASSUME NEW n \in 0..Depth - 1, n \in A PROVE n + 1 \in A
  <2>1. n + 1 \in 0..Depth /\ \A m \in 0..n + 1 : m \in 0..n \/ m = n + 1
    BY DepthIs
  <2> QED BY <1>2, <2>1, TreesUp
<1>3. 0..Depth \subseteq A
  <2> HIDE DEF A
  <2> QED BY <1>1, <1>2, Higher
<1> QED BY <1>3

LEMMA AllTrees == \A n \in 0..Depth : Trees[n] \subseteq Tree
<1>1. Depth \in 0..Depth
  BY DepthIs
<1> QED BY <1>1, TreesGrow DEF Tree, Depth

LEMMA TreeIs == /\ NoNodes \subseteq Tree
                /\ \A t \in Tree : t \in NoNodes \/ t \in NodesOver(Tree)
<1> HIDE DEF NoNodes, NodesOver
<1>1. NoNodes \subseteq Tree
  <2>1. 0 \in 0..Depth
    BY DepthIs
  <2> QED BY <2>1, AllTrees, TreesAre
<1>2. ASSUME NEW t \in Tree, Depth # 0 PROVE t \in NoNodes \/ t \in NodesOver(Tree)
  <2> DEFINE n == Depth - 1
  <2>1. n \in 0..Depth - 1 /\ n \in 0..Depth /\ n + 1 = Depth
    BY <1>2, DepthIs
  <2> HIDE DEF n
  <2>2. t \in NoNodes \cup NodesOver(Trees[n])
    BY <2>1, TreesAre DEF Tree, Depth
  <2>3. NodesOver(Trees[n]) \subseteq NodesOver(Tree)
    BY <2>1, AllTrees DEF NodesOver
  <2> QED BY <2>2, <2>3
<1>3. ASSUME NEW t \in Tree, Depth = 0 PROVE t \in NoNodes
  BY <1>3, TreesAre DEF Tree, Depth
<1> QED BY <1>1, <1>2, <1>3

\* What goes up from the children to each tree holds for all.
LEMMA TreeSets ==
    ASSUME NEW A, \A t \in Tree : (~t.null => t.child["left"] \in A /\ t.child["right"] \in A) => t \in A
    PROVE  Tree \subseteq A
<1> DEFINE B == {n \in 0..Depth : Trees[n] \subseteq A}
<1>1. 0 \in B
  <2>1. 0 \in 0..Depth
    BY DepthIs
  <2> QED BY <2>1, AllTrees, LowerTrees
<1>2. ASSUME NEW n \in 0..Depth - 1, n \in B PROVE n + 1 \in B
  <2>1. n + 1 \in 0..Depth /\ "left" \in Sides /\ "right" \in Sides
    BY DepthIs DEF Sides
  <2> QED BY <1>2, <2>1, AllTrees, LowerTrees
<1>3. Depth \in B
  <2> HIDE DEF B
  <2>1. Depth \in 0..Depth
    BY DepthIs
  <2> QED BY <1>1, <1>2, <2>1, Higher
<1> QED BY <1>3 DEF Tree, Depth

\* The node with x on the side d and y on the other one.
NotNull == FALSE
LEMMA Mirror == \A d \in Sides : Opposite(d) \in Sides /\ Opposite(d) # d /\ Opposite(Opposite(d)) = d
                                 /\ \A e \in Sides : e = d \/ e = Opposite(d)
  BY DEF Sides, Opposite

Cell(n, c, k, h) == [null |-> n, color |-> c, key |-> k, child |-> h]
Children(d, x, y) == [e \in Sides |-> IF e = d THEN x ELSE y]
Node(c, k, d, x, y) == Cell(NotNull, c, k, Children(d, x, y))

LEMMA CellPaint == ASSUME NEW n, NEW c, NEW k, NEW h, NEW z PROVE Paint(Cell(n, c, k, h), z) = Cell(n, z, k, h)
  BY DEF Cell, Paint

LEMMA CellKey == ASSUME NEW n, NEW c, NEW k, NEW h, NEW z PROVE Rekey(Cell(n, c, k, h), z) = Cell(n, c, z, h)
  BY DEF Cell, Rekey

LEMMA CellPut ==
    ASSUME NEW n, NEW c, NEW k, NEW h, NEW d, NEW z PROVE Put(Cell(n, c, k, h), d, z) = Cell(n, c, k, [h EXCEPT ![d] = z])
  BY DEF Cell, Put

LEMMA CellPaintChildren ==
    ASSUME NEW n, NEW c, NEW k, NEW h, NEW z
    PROVE  PaintChildren(Cell(n, c, k, h), z) = Cell(n, c, k, [e \in Sides |-> Paint(h[e], z)])
  BY DEF Cell, PaintChildren

LEMMA NodeNull == ASSUME NEW c, NEW k, NEW d, NEW x, NEW y PROVE ~Node(c, k, d, x, y).null
  BY DEF Node, Cell, NotNull

LEMMA NodeFields ==
    ASSUME NEW c, NEW k, NEW d \in Sides, NEW x, NEW y
    PROVE  /\ Node(c, k, d, x, y).color = c
           /\ Node(c, k, d, x, y).key = k
           /\ Node(c, k, d, x, y).child[d] = x
           /\ Node(c, k, d, x, y).child[Opposite(d)] = y
  BY Mirror DEF Node, Cell, Children

LEMMA NodeRed == ASSUME NEW c, NEW k, NEW d, NEW x, NEW y PROVE IsRed(Node(c, k, d, x, y)) <=> c = "red"
  BY DEF Node, Cell, IsRed

LEMMA NodeMirror ==
    ASSUME NEW c, NEW k, NEW d \in Sides, NEW x, NEW y PROVE Node(c, k, Opposite(d), y, x) = Node(c, k, d, x, y)
<1> DEFINE o == Opposite(d)
<1>1. o \in Sides /\ o # d /\ \A e \in Sides : e = d \/ e = o
  BY Mirror
<1> HIDE DEF o
<1>2. Children(o, y, x) = Children(d, x, y)
  BY <1>1 DEF Children
<1> QED BY <1>2 DEF o, Node

LEMMA NodePaint ==
    ASSUME NEW c, NEW k, NEW d, NEW x, NEW y, NEW z PROVE Paint(Node(c, k, d, x, y), z) = Node(z, k, d, x, y)
  BY CellPaint DEF Node

LEMMA NodeKey ==
    ASSUME NEW c, NEW k, NEW d, NEW x, NEW y, NEW z PROVE Rekey(Node(c, k, d, x, y), z) = Node(c, z, d, x, y)
  BY CellKey DEF Node

LEMMA NodePaintChildren ==
    ASSUME NEW c, NEW k, NEW d \in Sides, NEW x, NEW y, NEW z
    PROVE  PaintChildren(Node(c, k, d, x, y), z) = Node(c, k, d, Paint(x, z), Paint(y, z))
<1> DEFINE h == Children(d, x, y)
<1>1. [e \in Sides |-> Paint(h[e], z)] = Children(d, Paint(x, z), Paint(y, z))
  BY DEF Children
<1> HIDE DEF h
<1>2. PaintChildren(Cell(NotNull, c, k, h), z) = Cell(NotNull, c, k, [e \in Sides |-> Paint(h[e], z)])
  BY CellPaintChildren
<1> QED BY <1>1, <1>2 DEF Node, h

LEMMA NodePut ==
    ASSUME NEW c, NEW k, NEW d \in Sides, NEW x, NEW y, NEW z
    PROVE  /\ Put(Node(c, k, d, x, y), d, z) = Node(c, k, d, z, y)
           /\ Put(Node(c, k, d, x, y), Opposite(d), z) = Node(c, k, d, x, z)
<1> DEFINE o == Opposite(d)
           h == Children(d, x, y)
<1>1. o \in Sides /\ o # d /\ \A e \in Sides : e = d \/ e = o
  BY Mirror
<1> HIDE DEF o
<1>2. [h EXCEPT ![d] = z] = Children(d, z, y)
  BY DEF Children
<1>3. [h EXCEPT ![o] = z] = Children(d, x, z)
  BY <1>1 DEF Children
<1> HIDE DEF h
<1>4. Put(Cell(NotNull, c, k, h), d, z) = Cell(NotNull, c, k, [h EXCEPT ![d] = z])
  BY CellPut
<1>5. Put(Cell(NotNull, c, k, h), o, z) = Cell(NotNull, c, k, [h EXCEPT ![o] = z])
  BY CellPut
<1> QED BY <1>2, <1>3, <1>4, <1>5 DEF Node, h, o

\* A rotation takes the child of a node above it.
LEMMA Rotated ==
    ASSUME NEW c, NEW k, NEW b, NEW j, NEW d \in Sides, NEW x, NEW y, NEW z
    PROVE  /\ mm_rotate(Node(c, k, d, x, Node(b, j, d, y, z)), d) = Node(b, j, d, Node(c, k, d, x, y), z)
           /\ mm_rotate(Node(c, k, d, Node(b, j, d, x, y), z), Opposite(d)) = Node(b, j, d, x, Node(c, k, d, y, z))
<1>1. Opposite(d) \in Sides /\ Opposite(Opposite(d)) = d
  BY Mirror
<1>2. mm_rotate(Node(c, k, d, x, Node(b, j, d, y, z)), d) = Node(b, j, d, Node(c, k, d, x, y), z)
  <2> DEFINE t == Node(c, k, d, x, Node(b, j, d, y, z))
  <2>1. t.child[Opposite(d)] = Node(b, j, d, y, z)
    BY NodeFields
  <2>2. Node(b, j, d, y, z).child[d] = y
    BY NodeFields
  <2>3. Put(t, Opposite(d), y) = Node(c, k, d, x, y)
    BY NodePut
  <2>4. Put(Node(b, j, d, y, z), d, Node(c, k, d, x, y)) = Node(b, j, d, Node(c, k, d, x, y), z)
    BY NodePut
  <2> HIDE DEF t
  <2> QED BY <2>1, <2>2, <2>3, <2>4 DEF mm_rotate, t
<1>3. mm_rotate(Node(c, k, d, Node(b, j, d, x, y), z), Opposite(d)) = Node(b, j, d, x, Node(c, k, d, y, z))
  <2> DEFINE t == Node(c, k, d, Node(b, j, d, x, y), z)
  <2>1. t.child[d] = Node(b, j, d, x, y)
    BY NodeFields
  <2>2. Node(b, j, d, x, y).child[Opposite(d)] = y
    BY NodeFields
  <2>3. Put(t, d, y) = Node(c, k, d, y, z)
    BY NodePut
  <2>4. Put(Node(b, j, d, x, y), Opposite(d), Node(c, k, d, y, z)) = Node(b, j, d, x, Node(c, k, d, y, z))
    BY NodePut
  <2> HIDE DEF t
  <2> QED BY <1>1, <2>1, <2>2, <2>3, <2>4 DEF mm_rotate, t
<1> QED BY <1>2, <1>3

\* Every tree that is not the sentinel is such a node, seen from either side.
LEMMA TreeNode ==
    /\ \A t \in Tree : t.null \in BOOLEAN /\ t.color \in Colors
    /\ \A t \in Tree, d \in Sides : ~t.null =>
           /\ t = Node(t.color, t.key, d, t.child[d], t.child[Opposite(d)])
           /\ t.key \in Segments
           /\ t.child[d] \in Tree /\ t.child[Opposite(d)] \in Tree
<1>1. ASSUME NEW t \in NoNodes PROVE t.null = TRUE /\ t.color \in Colors
  BY DEF NoNodes
<1>2. ASSUME NEW t \in NodesOver(Tree), NEW d \in Sides
      PROVE  /\ t.null = FALSE /\ t.color \in Colors
             /\ t = Node(t.color, t.key, d, t.child[d], t.child[Opposite(d)])
             /\ t.key \in Segments
             /\ t.child[d] \in Tree /\ t.child[Opposite(d)] \in Tree
  <2>1. t.null = FALSE /\ t.color \in Colors /\ t.key \in Segments /\ t.child \in [Sides -> Tree]
    BY DEF NodesOver
  <2>2. t = [null |-> t.null, color |-> t.color, key |-> t.key, child |-> t.child]
    BY DEF NodesOver
  <2>3. t.child = [e \in Sides |-> IF e = d THEN t.child[d] ELSE t.child[Opposite(d)]]
    BY <2>1, Mirror
  <2>4. t.null = NotNull
    BY <2>1 DEF NotNull
  <2>5. t = Node(t.color, t.key, d, t.child[d], t.child[Opposite(d)])
    BY <2>2, <2>3, <2>4 DEF Node, Cell, Children
  <2> QED BY <2>1, <2>5, Mirror
<1> HIDE DEF NoNodes, NodesOver
<1>3. "left" \in Sides
  BY DEF Sides
<1> QED BY <1>1, <1>2, <1>3, TreeIs

-----------------------------------------------------------------------------
(***************************************************************************)
(* The order of segments, and search trees.                                *)
(***************************************************************************)

\* m is on the side d of k.
Before(m, k, d) == IF d = "left" THEN Index!mm_cmp_node(m, k) ELSE Index!mm_cmp_node(k, m)

LEMMA CmpOrder ==
    /\ \A x, y, z \in Segments : Index!mm_cmp_node(x, y) /\ Index!mm_cmp_node(y, z) => Index!mm_cmp_node(x, z)
    /\ \A x, y \in Segments : Index!mm_cmp_node(x, y) => ~Index!mm_cmp_node(y, x) /\ x # y
    /\ \A x, y \in Segments : x = y \/ Index!mm_cmp_node(x, y) \/ Index!mm_cmp_node(y, x)
<1>1. \A x \in Segments : x[1] \in Int /\ x[2] \in Int
  <2>1. \A x \in Segments : x[1] \in Sizes /\ x[2] \in Addresses
    BY DEF Segments
  <2>2. \A i \in Sizes \cup Addresses : i \in Int
    BY SizesAssumption, AddressesAssumption
  <2> QED BY <2>1, <2>2
<1>2. \A x, y \in Segments : x[1] = y[1] /\ x[2] = y[2] => x = y
  BY DEF Segments
<1> HIDE DEF Segments
<1>3. \A x, y, z \in Segments : Index!mm_cmp_node(x, y) /\ Index!mm_cmp_node(y, z) => Index!mm_cmp_node(x, z)
  BY <1>1 DEF Index!mm_cmp_node
<1>4. \A x, y \in Segments : Index!mm_cmp_node(x, y) => ~Index!mm_cmp_node(y, x) /\ x # y
  BY <1>1 DEF Index!mm_cmp_node
<1>5. \A x, y \in Segments : x = y \/ Index!mm_cmp_node(x, y) \/ Index!mm_cmp_node(y, x)
  BY <1>1, <1>2 DEF Index!mm_cmp_node
<1> QED BY <1>3, <1>4, <1>5

LEMMA SideOrder ==
    ASSUME NEW d \in Sides
    PROVE  /\ \A x, y, z \in Segments : Before(x, y, d) /\ Before(y, z, d) => Before(x, z, d)
           /\ \A x, y \in Segments : Before(x, y, d) => ~Before(y, x, d) /\ x # y
           /\ \A x, y \in Segments : x = y \/ Before(x, y, d) \/ Before(y, x, d)
           /\ \A x, y \in Segments : Before(x, y, Opposite(d)) <=> Before(y, x, d)
<1>1. CASE d = "left"
  BY <1>1, CmpOrder DEF Before, Opposite
<1>2. CASE d = "right"
  BY <1>2, CmpOrder DEF Before, Opposite
<1> QED BY <1>1, <1>2 DEF Sides

\* All of x is on the side d of k.
Beside(x, k, d) == \A m \in Keys(x) : Before(m, k, d)

LEMMA OfNull ==
    ASSUME NEW t \in Tree, t.null
    PROVE  Subtrees[t] = {t} /\ Nodes(t) = {} /\ Keys(t) = {} /\ SearchTree(t)
<1>1. Subtrees[t] = {t}
  BY SubtreesExist
<1>2. Nodes(t) = {}
  BY <1>1 DEF Nodes
<1>3. Keys(t) = {}
  BY <1>2 DEF Keys
<1> QED BY <1>1, <1>2, <1>3 DEF SearchTree

LEMMA OfNodeParts ==
    ASSUME NEW c, NEW k, NEW d \in Sides, NEW x, NEW y, Node(c, k, d, x, y) \in Tree
    PROVE  x \in Tree /\ y \in Tree /\ c \in Colors /\ k \in Segments
<1> DEFINE t == Node(c, k, d, x, y)
<1>1. ~t.null
  BY NodeNull
<1>2. t.color = c /\ t.key = k /\ t.child[d] = x /\ t.child[Opposite(d)] = y
  BY NodeFields
<1> HIDE DEF t
<1>3. t \in Tree
  BY DEF t
<1> QED BY <1>1, <1>2, <1>3, TreeNode

LEMMA OfNodeSubtrees ==
    ASSUME NEW c, NEW k, NEW d \in Sides, NEW x, NEW y, Node(c, k, d, x, y) \in Tree
    PROVE  Subtrees[Node(c, k, d, x, y)] = {Node(c, k, d, x, y)} \cup Subtrees[x] \cup Subtrees[y]
<1> DEFINE t == Node(c, k, d, x, y)
<1>1. ~t.null
  BY NodeNull
<1>2. t.child[d] = x /\ t.child[Opposite(d)] = y
  BY NodeFields
<1> HIDE DEF t
<1>3. Subtrees[t] = {t} \cup (Subtrees[t.child["left"]] \cup Subtrees[t.child["right"]])
  BY <1>1, SubtreesExist DEF t
<1>4. \/ t.child["left"] = x /\ t.child["right"] = y
      \/ t.child["left"] = y /\ t.child["right"] = x
  BY <1>2 DEF Sides, Opposite
<1>5. Subtrees[t] = {t} \cup Subtrees[x] \cup Subtrees[y]
  BY <1>3, <1>4
<1> QED BY <1>5 DEF t

LEMMA OfNodeNodes ==
    ASSUME NEW c, NEW k, NEW d \in Sides, NEW x, NEW y, Node(c, k, d, x, y) \in Tree
    PROVE  Nodes(Node(c, k, d, x, y)) = {Node(c, k, d, x, y)} \cup Nodes(x) \cup Nodes(y)
<1> DEFINE t == Node(c, k, d, x, y)
<1>1. ~t.null
  BY NodeNull
<1>2. Subtrees[t] = {t} \cup Subtrees[x] \cup Subtrees[y]
  BY OfNodeSubtrees
<1> HIDE DEF t
<1>3. Nodes(t) = {t} \cup Nodes(x) \cup Nodes(y)
  BY <1>1, <1>2 DEF Nodes
<1> QED BY <1>3 DEF t

LEMMA OfNode ==
    ASSUME NEW c, NEW k, NEW d \in Sides, NEW x, NEW y, Node(c, k, d, x, y) \in Tree
    PROVE  Keys(Node(c, k, d, x, y)) = {k} \cup Keys(x) \cup Keys(y)
<1> DEFINE t == Node(c, k, d, x, y)
<1>1. t.key = k
  BY NodeFields
<1>2. Nodes(t) = {t} \cup Nodes(x) \cup Nodes(y)
  BY OfNodeNodes
<1> HIDE DEF t
<1>3. Keys(t) = {k} \cup Keys(x) \cup Keys(y)
  BY <1>1, <1>2 DEF Keys
<1> QED BY <1>3 DEF t

LEMMA SearchNode ==
    ASSUME NEW c, NEW k, NEW d \in Sides, NEW x, NEW y, Node(c, k, d, x, y) \in Tree
    PROVE  SearchTree(Node(c, k, d, x, y)) <=>
               /\ SearchTree(x) /\ SearchTree(y)
               /\ Beside(x, k, d) /\ Beside(y, k, Opposite(d))
<1> DEFINE t == Node(c, k, d, x, y)
           P(n) == /\ \A z \in Keys(n.child["left"]) : Index!mm_cmp_node(z, n.key)
                   /\ \A z \in Keys(n.child["right"]) : Index!mm_cmp_node(n.key, z)
<1>1. t.key = k /\ t.child[d] = x /\ t.child[Opposite(d)] = y
  BY NodeFields
<1>2. Nodes(t) = {t} \cup Nodes(x) \cup Nodes(y)
  BY OfNodeNodes
<1> HIDE DEF t
<1>3. P(t) <=> Beside(x, k, d) /\ Beside(y, k, Opposite(d))
  <2>1. CASE d = "left"
    BY <1>1, <2>1 DEF Beside, Before, Opposite
  <2>2. CASE d = "right"
    BY <1>1, <2>2 DEF Beside, Before, Opposite
  <2> QED BY <2>1, <2>2 DEF Sides
<1>4. \A s : SearchTree(s) <=> \A n \in Nodes(s) : P(n)
  BY DEF SearchTree
<1> HIDE DEF P
<1>5. SearchTree(t) <=> P(t) /\ SearchTree(x) /\ SearchTree(y)
  BY <1>2, <1>4
<1> QED BY <1>3, <1>5 DEF t

\* The segments of the two sides of a node are different ones.
LEMMA KeysApart ==
    ASSUME NEW k \in Segments, NEW d \in Sides, NEW x, NEW y, Keys(x) \subseteq Segments, Keys(y) \subseteq Segments,
           Beside(x, k, d), Beside(y, k, Opposite(d))
    PROVE  /\ k \notin Keys(x) /\ k \notin Keys(y) /\ Keys(x) \cap Keys(y) = {}
           /\ Cardinality(Keys(x)) \in Nat /\ Cardinality(Keys(y)) \in Nat
           /\ Cardinality({k} \cup Keys(x) \cup Keys(y)) = (Cardinality(Keys(x)) + Cardinality(Keys(y))) + 1
           /\ Cardinality(Keys(x)) + Cardinality(Keys(y)) \in 0..Depth - 1
<1> DEFINE X == Keys(x)
           Y == Keys(y)
           m == Cardinality(X)
           n == Cardinality(Y)
<1>1. \A j \in X : Before(j, k, d) /\ j \in Segments
  BY DEF Beside
<1>2. \A j \in Y : Before(k, j, d) /\ j \in Segments
  BY SideOrder DEF Beside
<1>3. X \subseteq Segments /\ Y \subseteq Segments
  OBVIOUS
<1> HIDE DEF X, Y
<1>4. k \notin X /\ k \notin Y /\ X \cap Y = {}
  BY <1>1, <1>2, SideOrder
<1>5. IsFiniteSet(X) /\ IsFiniteSet(Y) /\ m \in Nat /\ n \in Nat
  BY <1>3, DepthIs, FS_Subset, FS_CardinalityType
<1>6. Cardinality({k} \cup X \cup Y) = (m + n) + 1
  <2>1. IsFiniteSet(X \cup Y) /\ Cardinality(X \cup Y) = m + n - Cardinality(X \cap Y)
    BY <1>5, FS_Union
  <2>2. Cardinality(X \cap Y) = 0
    BY <1>4, FS_EmptySet
  <2>3. k \notin X \cup Y
    BY <1>4
  <2>4. Cardinality((X \cup Y) \cup {k}) = Cardinality(X \cup Y) + 1
    BY <2>1, <2>3, FS_AddElement
  <2>5. Cardinality(X \cup Y) = m + n
    BY <1>5, <2>1, <2>2
  <2>6. {k} \cup X \cup Y = (X \cup Y) \cup {k}
    OBVIOUS
  <2> HIDE DEF m, n
  <2> QED BY <2>4, <2>5, <2>6
<1>7. (m + n) + 1 <= Depth
  <2>1. {k} \cup X \cup Y \subseteq Segments
    BY <1>3
  <2> QED BY <1>6, <2>1, DepthIs, FS_Subset DEF Depth
<1>8. m + n \in 0..Depth - 1
  BY <1>5, <1>7, DepthIs
<1> QED BY <1>4, <1>5, <1>6, <1>8 DEF X, Y

LEMMA NodeOver ==
    ASSUME NEW T, NEW c \in Colors, NEW k \in Segments, NEW d \in Sides, NEW x \in T, NEW y \in T
    PROVE  Node(c, k, d, x, y) \in NodesOver(T)
<1> DEFINE h == Children(d, x, y)
<1>1. h \in [Sides -> T]
  BY DEF Children
<1>2. NotNull \in {FALSE}
  BY DEF NotNull
<1> HIDE DEF h
<1>3. Cell(NotNull, c, k, h) \in NodesOver(T)
  BY <1>1, <1>2 DEF NodesOver, Cell
<1> QED BY <1>3 DEF Node, h

\* A search tree has a node for each of its segments, and is no higher.
LEMMA Short ==
    \A t \in Tree : SearchTree(t) => /\ Keys(t) \subseteq Segments
                                     /\ Cardinality(Keys(t)) \in 0..Depth
                                     /\ t \in Trees[Cardinality(Keys(t))]
<1> DEFINE P(t) == /\ Keys(t) \subseteq Segments
                   /\ Cardinality(Keys(t)) \in 0..Depth
                   /\ t \in Trees[Cardinality(Keys(t))]
           A == {t \in Tree : SearchTree(t) => P(t)}
<1>1. ASSUME NEW t \in Tree, t.null PROVE P(t)
  <2>1. Keys(t) = {} /\ Cardinality({}) = 0 /\ 0 \in 0..Depth
    BY <1>1, OfNull, FS_EmptySet, DepthIs
  <2>2. t \in NoNodes
    <3>1. \A s \in NodesOver(Tree) : ~s.null
      BY DEF NodesOver
    <3> HIDE DEF NoNodes, NodesOver
    <3> QED BY <1>1, <3>1, TreeIs
  <2> HIDE DEF NoNodes
  <2> QED BY <2>1, <2>2, TreesAre
<1>2. ASSUME NEW t \in Tree, ~t.null, SearchTree(t), t.child["left"] \in A, t.child["right"] \in A PROVE P(t)
  <2> DEFINE x == t.child["left"]
             y == t.child["right"]
             m == Cardinality(Keys(x))
             n == Cardinality(Keys(y))
  <2>1. "left" \in Sides /\ Opposite("left") = "right"
    BY DEF Sides, Opposite
  <2>2. t = Node(t.color, t.key, "left", x, y) /\ t.key \in Segments /\ t.color \in Colors /\ x \in Tree /\ y \in Tree
    BY <1>2, <2>1, TreeNode
  <2>3. SearchTree(x) /\ SearchTree(y) /\ Beside(x, t.key, "left") /\ Beside(y, t.key, "right")
    BY <1>2, <2>1, <2>2, SearchNode
  <2>4. Keys(t) = {t.key} \cup Keys(x) \cup Keys(y)
    BY <2>1, <2>2, OfNode
  <2>5. P(x) /\ P(y)
    BY <1>2, <2>3
  <2> HIDE DEF x, y
  <2>6. /\ m \in Nat /\ n \in Nat
        /\ Cardinality({t.key} \cup Keys(x) \cup Keys(y)) = (m + n) + 1 /\ m + n \in 0..Depth - 1
    BY <2>1, <2>2, <2>3, <2>5, KeysApart
  <2> HIDE DEF m, n
  <2>7. Cardinality(Keys(t)) = (m + n) + 1 /\ (m + n) + 1 \in 0..Depth
    BY <2>4, <2>6, DepthIs
  <2>8. Keys(t) \subseteq Segments
    BY <2>2, <2>4, <2>5
  <2>9. x \in Trees[m + n] /\ y \in Trees[m + n]
    <3>1. m \in 0..m + n /\ n \in 0..m + n /\ m + n \in 0..Depth
      BY <2>6, DepthIs
    <3> QED BY <2>5, <3>1, TreesGrow DEF m, n
  <2>10. t \in NodesOver(Trees[m + n])
    BY <2>1, <2>2, <2>9, NodeOver
  <2>11. t \in Trees[(m + n) + 1]
    <3> HIDE DEF NodesOver, NoNodes
    <3> QED BY <2>6, <2>10, TreesAre
  <2> QED BY <2>7, <2>8, <2>11
<1> HIDE DEF P
<1>3. Tree \subseteq A
  <2>1. ASSUME NEW t \in Tree, ~t.null => t.child["left"] \in A /\ t.child["right"] \in A PROVE t \in A
    BY <1>1, <1>2, <2>1
  <2> HIDE DEF A
  <2> QED BY <2>1, TreeSets
<1>4. ASSUME NEW t \in Tree, SearchTree(t) PROVE P(t)
  BY <1>3, <1>4
<1> QED BY <1>4 DEF P

\* What a search tree needs is that its parts are in order.
Well(t) == t \in Tree /\ SearchTree(t)

LEMMA WellNode ==
    ASSUME NEW c \in Colors, NEW k \in Segments, NEW d \in Sides, NEW x, NEW y, Well(x), Well(y),
           Beside(x, k, d), Beside(y, k, Opposite(d))
    PROVE  Well(Node(c, k, d, x, y)) /\ Keys(Node(c, k, d, x, y)) = {k} \cup Keys(x) \cup Keys(y)
<1> DEFINE t == Node(c, k, d, x, y)
           m == Cardinality(Keys(x))
           n == Cardinality(Keys(y))
<1>1. t \in Tree
  <2>1. /\ Keys(x) \subseteq Segments /\ Keys(y) \subseteq Segments
        /\ x \in Trees[m] /\ y \in Trees[n]
    BY Short DEF Well
  <2>2. m \in Nat /\ n \in Nat /\ m + n \in 0..Depth - 1
    BY <2>1, KeysApart
  <2> HIDE DEF m, n
  <2>3. m \in 0..m + n /\ n \in 0..m + n /\ m + n \in 0..Depth /\ (m + n) + 1 \in 0..Depth
    BY <2>2, DepthIs
  <2>4. x \in Trees[m + n] /\ y \in Trees[m + n]
    BY <2>1, <2>3, TreesGrow
  <2>5. t \in NodesOver(Trees[m + n])
    BY <2>4, NodeOver
  <2> HIDE DEF NodesOver, NoNodes, t
  <2> QED BY <2>2, <2>3, <2>5, TreesAre, AllTrees
<1>2. SearchTree(t)
  BY <1>1, SearchNode DEF Well
<1>3. Keys(t) = {k} \cup Keys(x) \cup Keys(y)
  BY <1>1, OfNode
<1> QED BY <1>1, <1>2, <1>3 DEF Well

LEMMA WellParts ==
    ASSUME NEW c, NEW k, NEW d \in Sides, NEW x, NEW y, Well(Node(c, k, d, x, y))
    PROVE  c \in Colors /\ k \in Segments /\ Well(x) /\ Well(y)
<1>1. Node(c, k, d, x, y) \in Tree /\ SearchTree(Node(c, k, d, x, y))
  BY DEF Well
<1>2. SearchTree(x) /\ SearchTree(y)
  BY <1>1, SearchNode
<1>3. x \in Tree /\ y \in Tree /\ c \in Colors /\ k \in Segments
  BY <1>1, OfNodeParts
<1> QED BY <1>2, <1>3 DEF Well

LEMMA WellKeys ==
    ASSUME NEW c, NEW k, NEW d \in Sides, NEW x, NEW y, Well(Node(c, k, d, x, y))
    PROVE  /\ Keys(Node(c, k, d, x, y)) = {k} \cup Keys(x) \cup Keys(y)
           /\ Beside(x, k, d) /\ Beside(y, k, Opposite(d))
<1>1. Node(c, k, d, x, y) \in Tree /\ SearchTree(Node(c, k, d, x, y))
  BY DEF Well
<1>2. Keys(Node(c, k, d, x, y)) = {k} \cup Keys(x) \cup Keys(y)
  BY <1>1, OfNode
<1>3. Beside(x, k, d) /\ Beside(y, k, Opposite(d))
  BY <1>1, SearchNode
<1> QED BY <1>2, <1>3

\* A rotation keeps the order and the segments, whatever the colours.
LEMMA RotateWell ==
    ASSUME NEW c, NEW k, NEW b, NEW j, NEW d \in Sides, NEW x, NEW y, NEW z,
           Well(Node(c, k, d, x, Node(b, j, d, y, z))), NEW c1 \in Colors, NEW b1 \in Colors
    PROVE  /\ Well(Node(b1, j, d, Node(c1, k, d, x, y), z))
           /\ Keys(Node(b1, j, d, Node(c1, k, d, x, y), z)) = Keys(Node(c, k, d, x, Node(b, j, d, y, z)))
<1> DEFINE o == Opposite(d)
           s == Node(b, j, d, y, z)
           r == Node(c1, k, d, x, y)
           t == Node(c, k, d, x, s)
           u == Node(b1, j, d, r, z)
<1>0. Well(t)
  OBVIOUS
<1> HIDE DEF s, r, t, u, o
<1>1. k \in Segments /\ Well(x) /\ Well(s) /\ Keys(t) = {k} \cup Keys(x) \cup Keys(s) /\ Beside(x, k, d) /\ Beside(s, k, o)
  BY <1>0, WellParts, WellKeys DEF t, o
<1>2. j \in Segments /\ Well(y) /\ Well(z) /\ Keys(s) = {j} \cup Keys(y) \cup Keys(z) /\ Beside(y, j, d) /\ Beside(z, j, o)
  <2>1. Well(Node(b, j, d, y, z))
    BY <1>1 DEF s
  <2>2. j \in Segments /\ Well(y) /\ Well(z)
    BY <2>1, WellParts
  <2>3. Keys(s) = {j} \cup Keys(y) \cup Keys(z) /\ Beside(y, j, d) /\ Beside(z, j, o)
    BY <2>1, WellKeys DEF s, o
  <2> QED BY <2>2, <2>3
<1>3. Beside(y, k, o) /\ Before(j, k, o)
  BY <1>1, <1>2 DEF Beside
<1>4. Well(r) /\ Keys(r) = {k} \cup Keys(x) \cup Keys(y)
  BY <1>1, <1>2, <1>3, WellNode DEF r, o
<1>5. Beside(r, j, d)
  <2>1. Before(k, j, d)
    BY <1>1, <1>2, <1>3, SideOrder DEF o
  <2>2. ASSUME NEW m \in Keys(x) PROVE Before(m, j, d)
    <3>1. m \in Segments /\ Before(m, k, d)
      BY <1>1, Short DEF Well, Beside
    <3> QED BY <1>1, <1>2, <2>1, <3>1, SideOrder
  <2> QED BY <1>2, <1>4, <2>1, <2>2 DEF Beside
<1>6. Well(u) /\ Keys(u) = {j} \cup Keys(r) \cup Keys(z)
  BY <1>2, <1>4, <1>5, WellNode DEF u, o
<1>7. Keys(u) = Keys(t)
  BY <1>1, <1>2, <1>4, <1>6
<1> QED BY <1>6, <1>7 DEF o, s, r, t, u

LEMMA RotateBackWell ==
    ASSUME NEW c, NEW k, NEW b, NEW j, NEW d \in Sides, NEW x, NEW y, NEW z,
           Well(Node(b, j, d, Node(c, k, d, x, y), z)), NEW c1 \in Colors, NEW b1 \in Colors
    PROVE  /\ Well(Node(c1, k, d, x, Node(b1, j, d, y, z)))
           /\ Keys(Node(c1, k, d, x, Node(b1, j, d, y, z))) = Keys(Node(b, j, d, Node(c, k, d, x, y), z))
<1> DEFINE o == Opposite(d)
<1>1. o \in Sides
  BY Mirror
<1>2. Node(b, j, d, Node(c, k, d, x, y), z) = Node(b, j, o, z, Node(c, k, o, y, x))
  BY NodeMirror
<1>3. Node(c1, k, o, Node(b1, j, o, z, y), x) = Node(c1, k, d, x, Node(b1, j, d, y, z))
  BY NodeMirror
<1> HIDE DEF o
<1>4. /\ Well(Node(c1, k, o, Node(b1, j, o, z, y), x))
      /\ Keys(Node(c1, k, o, Node(b1, j, o, z, y), x)) = Keys(Node(b, j, o, z, Node(c, k, o, y, x)))
  BY <1>1, <1>2, RotateWell
<1> QED BY <1>2, <1>3, <1>4

-----------------------------------------------------------------------------
(***************************************************************************)
(* The colours and the black heights.                                      *)
(***************************************************************************)
Weight(c) == IF c = "red" THEN 0 ELSE 1
Raised(H, c) == {h + Weight(c) : h \in H}

\* A tree as the code keeps it, of black height b.
Legal(t, b) == /\ t \in Tree /\ NoRedPair(t)
               /\ \A n \in Subtrees[t] : n.null => n = Sentinel
               /\ BlackHeights[t] = {b}

LEMMA SentinelNull == Sentinel \in NoNodes /\ Sentinel.null /\ ~IsRed(Sentinel)
  BY DEF NoNodes, Colors, Sentinel, IsRed

LEMMA SentinelPaint == Paint(Sentinel, "black") = Sentinel
  BY DEF Sentinel, Paint

LEMMA SentinelIn == Sentinel \in Tree
  BY SentinelNull, TreeIs

LEMMA HeightsNull == ASSUME NEW t \in Tree, t.null PROVE BlackHeights[t] = {0}
  BY BlackHeightsExist

LEMMA HeightsNode ==
    ASSUME NEW c, NEW k, NEW d \in Sides, NEW x, NEW y, Node(c, k, d, x, y) \in Tree
    PROVE  BlackHeights[Node(c, k, d, x, y)] = Raised(BlackHeights[x] \cup BlackHeights[y], c)
<1> DEFINE t == Node(c, k, d, x, y)
<1>1. ~t.null
  BY NodeNull
<1>2. t.child[d] = x /\ t.child[Opposite(d)] = y
  BY NodeFields
<1>3. IsRed(t) <=> c = "red"
  BY NodeRed
<1> HIDE DEF t
<1>4. BlackHeights[t] = {h + (IF IsRed(t) THEN 0 ELSE 1) :
                           h \in BlackHeights[t.child["left"]] \cup BlackHeights[t.child["right"]]}
  BY <1>1, BlackHeightsExist DEF t
<1>5. (IF IsRed(t) THEN 0 ELSE 1) = Weight(c)
  BY <1>3 DEF Weight
<1>6. BlackHeights[t.child["left"]] \cup BlackHeights[t.child["right"]] = BlackHeights[x] \cup BlackHeights[y]
  BY <1>2 DEF Sides, Opposite
<1>7. BlackHeights[t] = Raised(BlackHeights[x] \cup BlackHeights[y], c)
  BY <1>4, <1>5, <1>6 DEF Raised
<1> QED BY <1>7 DEF t

LEMMA WeightIs == ASSUME NEW c PROVE Weight(c) \in 0..1
  BY DEF Weight

LEMMA HeightsAre == \A t \in Tree : BlackHeights[t] # {} /\ BlackHeights[t] \subseteq Nat
<1> DEFINE A == {t \in Tree : BlackHeights[t] # {} /\ BlackHeights[t] \subseteq Nat}
<1>1. ASSUME NEW t \in Tree, t.null PROVE t \in A
  BY <1>1, HeightsNull
<1>2. ASSUME NEW t \in Tree, ~t.null, t.child["left"] \in A, t.child["right"] \in A PROVE t \in A
  <2> DEFINE x == t.child["left"]
             y == t.child["right"]
  <2>1. "left" \in Sides /\ Opposite("left") = "right"
    BY DEF Sides, Opposite
  <2>2. t = Node(t.color, t.key, "left", x, y)
    BY <1>2, <2>1, TreeNode
  <2>3. BlackHeights[t] = Raised(BlackHeights[x] \cup BlackHeights[y], t.color)
    BY <1>2, <2>1, <2>2, HeightsNode
  <2>4. BlackHeights[x] # {} /\ BlackHeights[x] \cup BlackHeights[y] \subseteq Nat
    BY <1>2
  <2>5. Weight(t.color) \in Nat
    BY WeightIs
  <2> HIDE DEF x, y
  <2> QED BY <2>3, <2>4, <2>5 DEF Raised
<1>3. Tree \subseteq A
  <2> HIDE DEF A
  <2> QED BY <1>1, <1>2, TreeSets
<1> QED BY <1>3

LEMMA LegalNull == ASSUME NEW t, NEW b, Legal(t, b), t.null PROVE t = Sentinel /\ b = 0
<1>1. t \in Tree /\ Subtrees[t] = {t} /\ BlackHeights[t] = {0} /\ BlackHeights[t] = {b}
  BY OfNull, HeightsNull DEF Legal
<1> QED BY <1>1 DEF Legal

LEMMA LegalSentinel == Legal(Sentinel, 0)
<1>1. Sentinel \in Tree /\ Sentinel.null
  BY SentinelIn, SentinelNull
<1>2. Subtrees[Sentinel] = {Sentinel} /\ Nodes(Sentinel) = {} /\ BlackHeights[Sentinel] = {0}
  BY <1>1, OfNull, HeightsNull
<1> HIDE DEF Sentinel
<1> QED BY <1>1, <1>2 DEF Legal, NoRedPair

\* What is red is not the sentinel.
LEMMA LegalRed == ASSUME NEW t, NEW b, Legal(t, b), IsRed(t) PROVE ~t.null
  BY LegalNull, SentinelNull

LEMMA LegalParts == ASSUME NEW t, NEW b, Legal(t, b) PROVE t \in Tree /\ b \in Nat
<1>1. t \in Tree /\ BlackHeights[t] = {b}
  BY DEF Legal
<1> QED BY <1>1, HeightsAre

LEMMA NoRedPairNode ==
    ASSUME NEW c, NEW k, NEW d \in Sides, NEW x, NEW y, Node(c, k, d, x, y) \in Tree
    PROVE  NoRedPair(Node(c, k, d, x, y)) <=>
               /\ NoRedPair(x) /\ NoRedPair(y)
               /\ c = "red" => ~IsRed(x) /\ ~IsRed(y)
<1> DEFINE t == Node(c, k, d, x, y)
           P(n) == \A e \in Sides : IsRed(n) => ~IsRed(n.child[e])
<1>1. t.child[d] = x /\ t.child[Opposite(d)] = y
  BY NodeFields
<1>2. IsRed(t) <=> c = "red"
  BY NodeRed
<1>3. Nodes(t) = {t} \cup Nodes(x) \cup Nodes(y)
  BY OfNodeNodes
<1> HIDE DEF t
<1>4. P(t) <=> (c = "red" => ~IsRed(x) /\ ~IsRed(y))
  BY <1>1, <1>2, Mirror
<1>5. \A s : NoRedPair(s) <=> \A n \in Nodes(s) : P(n)
  BY DEF NoRedPair
<1> HIDE DEF P
<1>6. NoRedPair(t) <=> P(t) /\ NoRedPair(x) /\ NoRedPair(y)
  BY <1>3, <1>5
<1> QED BY <1>4, <1>6 DEF t

\* Two legal trees of one height make a legal tree of it, or of the next one.
LEMMA LegalUp ==
    ASSUME NEW c, NEW k, NEW d \in Sides, NEW x, NEW y, NEW h, Node(c, k, d, x, y) \in Tree,
           Legal(x, h), Legal(y, h), c = "red" => ~IsRed(x) /\ ~IsRed(y)
    PROVE  Legal(Node(c, k, d, x, y), h + Weight(c))
<1> DEFINE t == Node(c, k, d, x, y)
<1>1. ~t.null
  BY NodeNull
<1>2. NoRedPair(t)
  BY NoRedPairNode DEF Legal
<1>3. Subtrees[t] = {t} \cup Subtrees[x] \cup Subtrees[y]
  BY OfNodeSubtrees
<1>4. BlackHeights[t] = Raised(BlackHeights[x] \cup BlackHeights[y], c)
  BY HeightsNode
<1>5. BlackHeights[x] = {h} /\ BlackHeights[y] = {h}
  BY DEF Legal
<1> HIDE DEF t
<1>6. BlackHeights[t] = {h + Weight(c)}
  BY <1>4, <1>5 DEF Raised
<1>7. \A n \in Subtrees[t] : n.null => n = Sentinel
  <2> HIDE DEF Sentinel
  <2> QED BY <1>1, <1>3 DEF Legal
<1>8. t \in Tree
  BY DEF t
<1> HIDE DEF Sentinel
<1>9. Legal(t, h + Weight(c))
  BY <1>2, <1>6, <1>7, <1>8 DEF Legal
<1> QED BY <1>9 DEF t

LEMMA LegalDown ==
    ASSUME NEW c, NEW k, NEW d \in Sides, NEW x, NEW y, NEW b, Legal(Node(c, k, d, x, y), b)
    PROVE  /\ Legal(x, b - Weight(c)) /\ Legal(y, b - Weight(c))
           /\ c = "red" => ~IsRed(x) /\ ~IsRed(y)
<1> DEFINE t == Node(c, k, d, x, y)
           w == Weight(c)
<1>1. t \in Tree /\ NoRedPair(t) /\ BlackHeights[t] = {b} /\ \A n \in Subtrees[t] : n.null => n = Sentinel
  BY DEF Legal
<1>2. NoRedPair(x) /\ NoRedPair(y) /\ (c = "red" => ~IsRed(x) /\ ~IsRed(y))
  BY <1>1, NoRedPairNode
<1>3. Subtrees[t] = {t} \cup Subtrees[x] \cup Subtrees[y]
  BY <1>1, OfNodeSubtrees
<1>4. BlackHeights[t] = Raised(BlackHeights[x] \cup BlackHeights[y], c)
  BY <1>1, HeightsNode
<1>5. x \in Tree /\ y \in Tree
  BY <1>1, OfNodeParts
<1>6. w \in Nat
  BY WeightIs
<1> HIDE DEF t, w
<1>7. ASSUME NEW s \in {x, y} PROVE BlackHeights[s] = {b - w}
  <2>1. BlackHeights[s] # {} /\ BlackHeights[s] \subseteq Nat
    BY <1>5, HeightsAre
  <2>2. \A i \in BlackHeights[s] : i + w \in BlackHeights[t]
    BY <1>4 DEF Raised, w
  <2>3. \A i \in BlackHeights[s] : i = b - w
    BY <1>1, <1>6, <2>1, <2>2
  <2> QED BY <2>1, <2>3
<1> HIDE DEF Sentinel
<1>8. Legal(x, b - w) /\ Legal(y, b - w)
  BY <1>1, <1>2, <1>3, <1>5, <1>7 DEF Legal
<1> QED BY <1>2, <1>8 DEF w
-----------------------------------------------------------------------------
(***************************************************************************)
(* Painting a node, and a node over other children.                        *)
(***************************************************************************)
LEMMA NullPaint == ASSUME NEW t \in Tree, t.null, NEW c \in Colors PROVE Paint(t, c) \in Tree /\ Paint(t, c).null
<1>1. t \in NoNodes
  <2>1. \A s \in NodesOver(Tree) : ~s.null
    BY DEF NodesOver
  <2> HIDE DEF NoNodes, NodesOver
  <2> QED BY <2>1, TreeIs
<1>2. Paint(t, c) \in NoNodes /\ Paint(t, c).null
  BY <1>1 DEF NoNodes, Paint
<1> HIDE DEF NoNodes
<1> QED BY <1>2, TreeIs

\* A search tree remains one over children with some of the segments.
LEMMA WellSwap ==
    ASSUME NEW c, NEW k, NEW d \in Sides, NEW x, NEW y, Well(Node(c, k, d, x, y)),
           NEW b \in Colors, NEW u, NEW v, Well(u), Well(v), Keys(u) \subseteq Keys(x), Keys(v) \subseteq Keys(y)
    PROVE  /\ Well(Node(b, k, d, u, v))
           /\ Keys(Node(b, k, d, u, v)) = {k} \cup Keys(u) \cup Keys(v)
<1>1. k \in Segments
  BY WellParts
<1>2. Beside(x, k, d) /\ Beside(y, k, Opposite(d))
  BY WellKeys
<1>3. Beside(u, k, d) /\ Beside(v, k, Opposite(d))
  BY <1>2 DEF Beside
<1> QED BY <1>1, <1>3, WellNode

LEMMA WellPaint == ASSUME NEW t, Well(t), NEW c \in Colors PROVE Well(Paint(t, c)) /\ Keys(Paint(t, c)) = Keys(t)
<1>1. CASE t.null
  <2>1. Paint(t, c) \in Tree /\ Paint(t, c).null
    BY <1>1, NullPaint DEF Well
  <2> QED BY <1>1, <2>1, OfNull DEF Well
<1>2. CASE ~t.null
  <2> DEFINE x == t.child["left"]
             y == t.child["right"]
  <2>1. "left" \in Sides /\ Opposite("left") = "right"
    BY DEF Sides, Opposite
  <2>2. t = Node(t.color, t.key, "left", x, y)
    BY <1>2, <2>1, TreeNode DEF Well
  <2> HIDE DEF x, y
  <2>3. Paint(t, c) = Node(c, t.key, "left", x, y)
    BY <2>2, NodePaint
  <2>4. Well(Node(t.color, t.key, "left", x, y)) /\ "left" \in Sides
    BY <2>1, <2>2
  <2>5. Well(x) /\ Well(y)
    BY <2>4, WellParts
  <2>6. Keys(t) = {t.key} \cup Keys(x) \cup Keys(y)
    BY <2>2, <2>4, WellKeys
  <2>7. Well(Node(c, t.key, "left", x, y)) /\ Keys(Node(c, t.key, "left", x, y)) = {t.key} \cup Keys(x) \cup Keys(y)
    BY <2>4, <2>5, WellSwap
  <2> QED BY <2>3, <2>6, <2>7
<1> QED BY <1>1, <1>2

LEMMA PaintNotRed == ASSUME NEW t, NEW b, Legal(t, b) PROVE ~IsRed(Paint(t, "black"))
<1>1. CASE t.null
  BY <1>1, LegalNull, SentinelPaint, SentinelNull
<1>2. CASE ~t.null
  <2>1. "left" \in Sides
    BY DEF Sides
  <2>2. t = Node(t.color, t.key, "left", t.child["left"], t.child[Opposite("left")])
    BY <1>2, <2>1, TreeNode DEF Legal
  <2>3. Paint(t, "black") = Node("black", t.key, "left", t.child["left"], t.child[Opposite("left")])
    BY <2>2, NodePaint
  <2> QED BY <2>3, NodeRed
<1> QED BY <1>1, <1>2

\* A legal tree that is not red keeps its height when it is painted black.
LEMMA LegalBlack == ASSUME NEW t, NEW b, Legal(t, b), ~IsRed(t) PROVE Paint(t, "black") = t
<1>1. CASE t.null
  BY <1>1, LegalNull, SentinelPaint
<1>2. CASE ~t.null
  <2>1. "left" \in Sides
    BY DEF Sides
  <2>2. t = Node(t.color, t.key, "left", t.child["left"], t.child[Opposite("left")]) /\ t.color \in Colors
    BY <1>2, <2>1, TreeNode DEF Legal
  <2>3. Paint(t, "black") = Node("black", t.key, "left", t.child["left"], t.child[Opposite("left")])
    BY <2>2, NodePaint
  <2>4. t.color = "black"
    BY <2>2 DEF IsRed, Colors
  <2> QED BY <2>2, <2>3, <2>4
<1> QED BY <1>1, <1>2

\* The view of a node from a side.
LEMMA LegalNode ==
    ASSUME NEW t, NEW b, Legal(t, b), ~t.null, NEW d \in Sides
    PROVE  t = Node(t.color, t.key, d, t.child[d], t.child[Opposite(d)]) /\ t.color \in Colors
  BY TreeNode DEF Legal

LEMMA BlackIs == Weight("black") = 1 /\ Weight("red") = 0 /\ "black" \in Colors /\ "red" \in Colors
  BY DEF Weight, Colors

\* The children of a red node are legal trees of its own height, and not red.
LEMMA LegalRedNode ==
    ASSUME NEW k, NEW d \in Sides, NEW x, NEW y, NEW b, Legal(Node("red", k, d, x, y), b)
    PROVE  Legal(x, b) /\ Legal(y, b) /\ ~IsRed(x) /\ ~IsRed(y)
<1>1. Legal(x, b - Weight("red")) /\ Legal(y, b - Weight("red")) /\ ~IsRed(x) /\ ~IsRed(y)
  BY LegalDown
<1>2. b - Weight("red") = b
  BY LegalParts, BlackIs
<1> QED BY <1>1, <1>2

LEMMA LegalRedUp ==
    ASSUME NEW k, NEW d \in Sides, NEW x, NEW y, NEW b, Node("red", k, d, x, y) \in Tree,
           Legal(x, b), Legal(y, b), ~IsRed(x), ~IsRed(y)
    PROVE  Legal(Node("red", k, d, x, y), b)
<1>1. Legal(Node("red", k, d, x, y), b + Weight("red"))
  BY LegalUp
<1>2. b + Weight("red") = b
  BY LegalParts, BlackIs
<1> QED BY <1>1, <1>2

LEMMA LegalBlackUp ==
    ASSUME NEW k, NEW d \in Sides, NEW x, NEW y, NEW b, Node("black", k, d, x, y) \in Tree, Legal(x, b), Legal(y, b)
    PROVE  Legal(Node("black", k, d, x, y), b + 1)
<1>1. Legal(Node("black", k, d, x, y), b + Weight("black"))
  BY LegalUp
<1> QED BY <1>1, BlackIs

LEMMA LegalPaint == ASSUME NEW t, NEW b, Well(t), Legal(t, b), IsRed(t) PROVE Legal(Paint(t, "black"), b + 1)
<1> DEFINE x == t.child["left"]
           y == t.child[Opposite("left")]
<1>1. "left" \in Sides /\ ~t.null
  BY LegalRed DEF Sides
<1>2. t = Node(t.color, t.key, "left", x, y)
  BY <1>1, LegalNode
<1> HIDE DEF x, y
<1>3. Paint(t, "black") = Node("black", t.key, "left", x, y)
  BY <1>2, NodePaint
<1>4. t.color = "red"
  BY DEF IsRed
<1>5. Legal(x, b) /\ Legal(y, b)
  BY <1>1, <1>2, <1>4, LegalRedNode
<1>6. Node("black", t.key, "left", x, y) \in Tree
  BY <1>3, WellPaint, BlackIs DEF Well
<1> QED BY <1>1, <1>3, <1>5, <1>6, LegalBlackUp
-----------------------------------------------------------------------------
(***************************************************************************)
(* The insertion.                                                          *)
(***************************************************************************)

\* Below the root t is legal, and at most one child of a red root is red.
Almost(t, b) == /\ t \in Tree /\ ~t.null
                /\ \E d \in Sides : /\ Legal(t.child[d], b - Weight(t.color))
                                    /\ Legal(t.child[Opposite(d)], b - Weight(t.color))
                                    /\ IsRed(t) => ~IsRed(t.child[Opposite(d)])

LEMMA AlmostNode ==
    ASSUME NEW c, NEW k, NEW d \in Sides, NEW x, NEW y, NEW h \in Nat, Node(c, k, d, x, y) \in Tree,
           Legal(x, h), Legal(y, h), c = "red" => ~IsRed(y)
    PROVE  Almost(Node(c, k, d, x, y), h + Weight(c))
<1> DEFINE t == Node(c, k, d, x, y)
<1>1. ~t.null
  BY NodeNull
<1>2. t.color = c /\ t.child[d] = x /\ t.child[Opposite(d)] = y
  BY NodeFields
<1>3. IsRed(t) <=> c = "red"
  BY NodeRed
<1>4. (h + Weight(c)) - Weight(c) = h
  BY WeightIs
<1>5. t \in Tree
  OBVIOUS
<1> HIDE DEF t
<1>6. Almost(t, h + Weight(c))
  BY <1>1, <1>2, <1>3, <1>4, <1>5 DEF Almost
<1> QED BY <1>6 DEF t

LEMMA AlmostLegal == ASSUME NEW t, NEW b \in Int, Almost(t, b), ~IsRed(t) PROVE Legal(t, b)
<1>1. t \in Tree /\ ~t.null
  BY DEF Almost
<1>2. PICK d \in Sides : Legal(t.child[d], b - Weight(t.color)) /\ Legal(t.child[Opposite(d)], b - Weight(t.color))
  BY DEF Almost
<1> DEFINE x == t.child[d]
           y == t.child[Opposite(d)]
<1>3. t = Node(t.color, t.key, d, x, y)
  BY <1>1, TreeNode
<1>4. t.color # "red"
  BY DEF IsRed
<1> HIDE DEF x, y
<1>5. Legal(x, b - Weight(t.color)) /\ Legal(y, b - Weight(t.color))
  BY <1>2 DEF x, y
<1>6. Legal(Node(t.color, t.key, d, x, y), (b - Weight(t.color)) + Weight(t.color))
  BY <1>1, <1>3, <1>4, <1>5, LegalUp
<1>7. (b - Weight(t.color)) + Weight(t.color) = b
  BY WeightIs
<1> QED BY <1>3, <1>6, <1>7

LEMMA LegalAlmost == ASSUME NEW t, NEW b, Legal(t, b), ~t.null PROVE Almost(t, b)
<1> DEFINE x == t.child["left"]
           y == t.child[Opposite("left")]
<1>1. "left" \in Sides /\ t \in Tree
  BY LegalParts DEF Sides
<1>2. t = Node(t.color, t.key, "left", x, y)
  BY <1>1, LegalNode
<1>3. IsRed(t) <=> t.color = "red"
  BY DEF IsRed
<1>4. Legal(x, b - Weight(t.color)) /\ Legal(y, b - Weight(t.color)) /\ (t.color = "red" => ~IsRed(x) /\ ~IsRed(y))
  <2> HIDE DEF x, y
  <2>1. Legal(Node(t.color, t.key, "left", x, y), b)
    BY <1>2
  <2> QED BY <1>1, <2>1, LegalDown
<1> QED BY <1>1, <1>3, <1>4 DEF Almost

\* What the fix-up does to a straight pair of red nodes.
Lifted(s, d) == IF IsRed(s.child[Opposite(d)]) THEN Paint(PaintChildren(s, "black"), "red")
                ELSE Paint(PaintChildren(mm_rotate(s, Opposite(d)), "red"), "black")

LEMMA FixupSides ==
    ASSUME NEW c, NEW k, NEW d \in Sides, NEW r, NEW y, ~IsRed(r)
    PROVE  InsertFixup(Node(c, k, d, r, y), d) = Node(c, k, d, r, y)
<1> DEFINE t == Node(c, k, d, r, y)
<1>1. t.child[d] = r
  BY NodeFields
<1> HIDE DEF t
<1>2. InsertFixup(t, d) = t
  BY <1>1 DEF InsertFixup
<1> QED BY <1>2 DEF t

LEMMA FixupLegal ==
    ASSUME NEW c, NEW k, NEW d \in Sides, NEW j, NEW u, NEW v, NEW y, ~IsRed(u), ~IsRed(v)
    PROVE  InsertFixup(Node(c, k, d, Node("red", j, d, u, v), y), d) = Node(c, k, d, Node("red", j, d, u, v), y)
<1> DEFINE r == Node("red", j, d, u, v)
           t == Node(c, k, d, r, y)
<1>1. t.child[d] = r
  BY NodeFields
<1>2. r.child[d] = u /\ r.child[Opposite(d)] = v
  BY NodeFields
<1> HIDE DEF t, r
<1>3. InsertFixup(t, d) = t
  BY <1>1, <1>2 DEF InsertFixup
<1> QED BY <1>3 DEF t, r

LEMMA FixupOuter ==
    ASSUME NEW c, NEW k, NEW d \in Sides, NEW j, NEW u, NEW v, NEW y, IsRed(u), ~IsRed(v)
    PROVE  InsertFixup(Node(c, k, d, Node("red", j, d, u, v), y), d)
              = Lifted(Node(c, k, d, Node("red", j, d, u, v), y), d)
<1> DEFINE r == Node("red", j, d, u, v)
           t == Node(c, k, d, r, y)
<1>1. t.child[d] = r
  BY NodeFields
<1>2. r.child[d] = u /\ r.child[Opposite(d)] = v
  BY NodeFields
<1>3. IsRed(r)
  BY NodeRed
<1> HIDE DEF t, r
<1>4. InsertFixup(t, d) = Lifted(t, d)
  BY <1>1, <1>2, <1>3 DEF InsertFixup, Lifted
<1> QED BY <1>4 DEF t, r

LEMMA FixupInner ==
    ASSUME NEW c, NEW k, NEW d \in Sides, NEW j, NEW u, NEW i, NEW p, NEW q, NEW y
    PROVE  InsertFixup(Node(c, k, d, Node("red", j, d, u, Node("red", i, d, p, q)), y), d)
              = Lifted(Node(c, k, d, Node("red", i, d, Node("red", j, d, u, p), q), y), d)
<1> DEFINE v == Node("red", i, d, p, q)
           r == Node("red", j, d, u, v)
           t == Node(c, k, d, r, y)
           w == Node("red", j, d, u, p)
           z == Node("red", i, d, w, q)
           s == Node(c, k, d, z, y)
<1>1. t.child[d] = r /\ s.child[d] = z
  BY NodeFields
<1>2. r.child[Opposite(d)] = v
  BY NodeFields
<1>3. z.child[d] = w
  BY NodeFields
<1>4. IsRed(r) /\ IsRed(v) /\ IsRed(w)
  BY NodeRed
<1>5. mm_rotate(r, d) = z
  BY Rotated
<1>6. Put(t, d, z) = s
  BY NodePut
<1> HIDE DEF t, r, v, w, z, s
<1>7. InsertFixup(t, d) = Lifted(s, d)
  BY <1>1, <1>2, <1>3, <1>4, <1>5, <1>6 DEF InsertFixup, Lifted
<1> QED BY <1>7 DEF t, r, v, w, z, s

LEMMA LiftedRed ==
    ASSUME NEW c, NEW k, NEW d \in Sides, NEW r, NEW y, IsRed(y)
    PROVE  Lifted(Node(c, k, d, r, y), d) = Node("red", k, d, Paint(r, "black"), Paint(y, "black"))
<1> DEFINE s == Node(c, k, d, r, y)
           p == Node(c, k, d, Paint(r, "black"), Paint(y, "black"))
<1>1. s.child[Opposite(d)] = y
  BY NodeFields
<1>2. PaintChildren(s, "black") = p
  BY NodePaintChildren
<1>3. Paint(p, "red") = Node("red", k, d, Paint(r, "black"), Paint(y, "black"))
  BY NodePaint
<1> HIDE DEF s, p
<1>4. Lifted(s, d) = Paint(p, "red")
  BY <1>1, <1>2 DEF Lifted
<1> QED BY <1>3, <1>4 DEF s

LEMMA LiftedBlack ==
    ASSUME NEW c, NEW k, NEW b, NEW j, NEW d \in Sides, NEW u, NEW v, NEW y, ~IsRed(y)
    PROVE  Lifted(Node(c, k, d, Node(b, j, d, u, v), y), d) = Node("black", j, d, Paint(u, "red"), Node("red", k, d, v, y))
<1> DEFINE s == Node(c, k, d, Node(b, j, d, u, v), y)
           w == Node(c, k, d, v, y)
           r == Node(b, j, d, u, w)
           p == Node(b, j, d, Paint(u, "red"), Paint(w, "red"))
<1>1. s.child[Opposite(d)] = y
  BY NodeFields
<1>2. mm_rotate(s, Opposite(d)) = r
  BY Rotated
<1>3. PaintChildren(r, "red") = p
  BY NodePaintChildren
<1>4. Paint(w, "red") = Node("red", k, d, v, y)
  BY NodePaint
<1>5. Paint(p, "black") = Node("black", j, d, Paint(u, "red"), Paint(w, "red"))
  BY NodePaint
<1> HIDE DEF s, r, w, p
<1>6. Lifted(s, d) = Paint(p, "black")
  BY <1>1, <1>2, <1>3 DEF Lifted
<1> QED BY <1>4, <1>5, <1>6 DEF s
LEMMA LiftedWell ==
    ASSUME NEW c, NEW k, NEW b, NEW j, NEW d \in Sides, NEW u, NEW v, NEW y,
           Well(Node(c, k, d, Node(b, j, d, u, v), y))
    PROVE  /\ Well(Lifted(Node(c, k, d, Node(b, j, d, u, v), y), d))
           /\ Keys(Lifted(Node(c, k, d, Node(b, j, d, u, v), y), d)) = Keys(Node(c, k, d, Node(b, j, d, u, v), y))
<1> DEFINE r == Node(b, j, d, u, v)
           s == Node(c, k, d, r, y)
<1>1. Well(r) /\ Well(y) /\ Keys(s) = {k} \cup Keys(r) \cup Keys(y)
  <2>1. Well(Node(c, k, d, r, y))
    OBVIOUS
  <2> HIDE DEF r
  <2>2. Well(r) /\ Well(y)
    BY <2>1, WellParts
  <2>3. Keys(Node(c, k, d, r, y)) = {k} \cup Keys(r) \cup Keys(y)
    BY <2>1, WellKeys
  <2> QED BY <2>2, <2>3
<1>2. CASE IsRed(y)
  <2>1. Lifted(s, d) = Node("red", k, d, Paint(r, "black"), Paint(y, "black"))
    BY <1>2, LiftedRed
  <2> HIDE DEF r
  <2>2. /\ Well(Paint(r, "black")) /\ Keys(Paint(r, "black")) = Keys(r)
        /\ Well(Paint(y, "black")) /\ Keys(Paint(y, "black")) = Keys(y)
    BY <1>1, WellPaint, BlackIs
  <2>3. /\ Well(Node("red", k, d, Paint(r, "black"), Paint(y, "black")))
        /\ Keys(Node("red", k, d, Paint(r, "black"), Paint(y, "black")))
              = {k} \cup Keys(Paint(r, "black")) \cup Keys(Paint(y, "black"))
    <3> DEFINE r1 == Paint(r, "black")
               y1 == Paint(y, "black")
    <3>1. Well(r1) /\ Well(y1) /\ Keys(r1) \subseteq Keys(r) /\ Keys(y1) \subseteq Keys(y)
      BY <2>2
    <3>2. Well(Node(c, k, d, r, y))
      BY DEF r
    <3> HIDE DEF r1, y1
    <3>3. "red" \in Colors
      BY BlackIs
    <3> HIDE DEF r
    <3>4. Well(Node("red", k, d, r1, y1)) /\ Keys(Node("red", k, d, r1, y1)) = {k} \cup Keys(r1) \cup Keys(y1)
      BY <3>1, <3>2, <3>3, WellSwap
    <3> QED BY <3>4 DEF r1, y1
  <2>4. Well(Lifted(s, d)) /\ Keys(Lifted(s, d)) = Keys(s)
    <3> HIDE DEF s
    <3> QED BY <1>1, <2>1, <2>2, <2>3
  <2> QED BY <2>4 DEF r
<1>3. CASE ~IsRed(y)
  <2> DEFINE w == Node("red", k, d, v, y)
             z == Node("black", j, d, u, w)
             u1 == Paint(u, "red")
  <2>1. Lifted(s, d) = Node("black", j, d, u1, w)
    BY <1>3, LiftedBlack
  <2>2. Well(z) /\ Keys(z) = Keys(s)
    BY RotateBackWell, BlackIs
  <2> HIDE DEF s, w
  <2>3. Well(u) /\ Well(w) /\ Keys(z) = {j} \cup Keys(u) \cup Keys(w)
    BY <2>2, WellParts, WellKeys
  <2>4. Well(u1) /\ Keys(u1) = Keys(u)
    BY <2>3, WellPaint, BlackIs
  <2> HIDE DEF u1
  <2>5. Well(Node("black", j, d, u1, w)) /\ Keys(Node("black", j, d, u1, w)) = {j} \cup Keys(u1) \cup Keys(w)
    BY <2>2, <2>3, <2>4, WellSwap, BlackIs
  <2>6. Well(Lifted(s, d)) /\ Keys(Lifted(s, d)) = Keys(s)
    BY <2>1, <2>2, <2>3, <2>4, <2>5
  <2> QED BY <2>6 DEF s
<1> QED BY <1>2, <1>3

LEMMA RedPaint == ASSUME NEW t, NEW b, Legal(t, b), IsRed(t) PROVE Paint(t, "red") = t
<1>1. "left" \in Sides /\ ~t.null
  BY LegalRed DEF Sides
<1>2. t = Node(t.color, t.key, "left", t.child["left"], t.child[Opposite("left")])
  BY <1>1, LegalNode
<1>3. Paint(t, "red") = Node("red", t.key, "left", t.child["left"], t.child[Opposite("left")])
  BY <1>2, NodePaint
<1> QED BY <1>2, <1>3 DEF IsRed

LEMMA LiftedLegal ==
    ASSUME NEW k, NEW j, NEW d \in Sides, NEW u, NEW v, NEW y, NEW h,
           Well(Node("black", k, d, Node("red", j, d, u, v), y)),
           Legal(u, h), Legal(v, h), Legal(y, h), IsRed(u), ~IsRed(v)
    PROVE  Legal(Lifted(Node("black", k, d, Node("red", j, d, u, v), y), d), h + 1)
<1> DEFINE r == Node("red", j, d, u, v)
           s == Node("black", k, d, r, y)
<1>1. Lifted(s, d) \in Tree
  BY LiftedWell DEF Well
<1>2. CASE IsRed(y)
  <2> DEFINE r1 == Node("black", j, d, u, v)
             y1 == Paint(y, "black")
  <2>1. Lifted(s, d) = Node("red", k, d, Paint(r, "black"), y1)
    BY <1>2, LiftedRed
  <2>2. Paint(r, "black") = r1
    BY NodePaint
  <2> HIDE DEF s
  <2>3. Node("red", k, d, r1, y1) \in Tree
    BY <1>1, <2>1, <2>2
  <2>4. r1 \in Tree
    <3> HIDE DEF r1, y1
    <3> QED BY <2>3, OfNodeParts
  <2>5. Legal(r1, h + 1) /\ ~IsRed(r1)
    BY <2>4, LegalBlackUp, NodeRed
  <2>6. Legal(y1, h + 1) /\ ~IsRed(y1)
    <3>1. Well(y)
      BY WellParts
    <3> QED BY <1>2, <3>1, LegalPaint, PaintNotRed
  <2> HIDE DEF r1, y1
  <2>7. Legal(Node("red", k, d, r1, y1), h + 1)
    BY <2>3, <2>5, <2>6, LegalRedUp
  <2>8. Legal(Lifted(s, d), h + 1)
    BY <2>1, <2>2, <2>7
  <2> QED BY <2>8 DEF s
<1>3. CASE ~IsRed(y)
  <2> DEFINE w == Node("red", k, d, v, y)
  <2>1. Lifted(s, d) = Node("black", j, d, Paint(u, "red"), w)
    BY <1>3, LiftedBlack
  <2>2. Paint(u, "red") = u
    BY RedPaint
  <2> HIDE DEF s
  <2>3. Node("black", j, d, u, w) \in Tree
    BY <1>1, <2>1, <2>2
  <2>4. w \in Tree
    <3> HIDE DEF w
    <3> QED BY <2>3, OfNodeParts
  <2>5. Legal(w, h)
    BY <1>3, <2>4, LegalRedUp
  <2> HIDE DEF w
  <2>6. Legal(Node("black", j, d, u, w), h + 1)
    BY <2>3, <2>5, LegalBlackUp
  <2>7. Legal(Lifted(s, d), h + 1)
    BY <2>1, <2>2, <2>6
  <2> QED BY <2>7 DEF s
<1> QED BY <1>2, <1>3

\* What the fix-up makes of a node whose child, on the side d, is almost legal.
LEMMA FixupWell ==
    ASSUME NEW c, NEW k, NEW d \in Sides, NEW r, NEW y, NEW h \in Nat, Well(Node(c, k, d, r, y)), Almost(r, h)
    PROVE  /\ Well(InsertFixup(Node(c, k, d, r, y), d))
           /\ Keys(InsertFixup(Node(c, k, d, r, y), d)) = Keys(Node(c, k, d, r, y))
<1>1. CASE ~IsRed(r)
  BY <1>1, FixupSides
<1>2. CASE IsRed(r)
  <2> DEFINE u == r.child[d]
             v == r.child[Opposite(d)]
             j == r.key
  <2>1. r \in Tree /\ ~r.null
    BY DEF Almost
  <2>2. r.color = "red"
    BY <1>2 DEF IsRed
  <2>3. r = Node("red", j, d, u, v) /\ u \in Tree /\ v \in Tree
    BY <2>1, <2>2, TreeNode
  <2>4. \E e \in Sides : Legal(r.child[e], h) /\ Legal(r.child[Opposite(e)], h) /\ ~IsRed(r.child[Opposite(e)])
    BY <1>2, <2>2, BlackIs DEF Almost
  <2>5. Legal(u, h) /\ Legal(v, h) /\ (~IsRed(u) \/ ~IsRed(v))
    BY <2>4, Mirror
  <2> HIDE DEF u, v, j
  <2>6. CASE ~IsRed(u) /\ ~IsRed(v)
    BY <2>3, <2>6, FixupLegal
  <2>7. CASE IsRed(u)
    <3>1. Well(Node(c, k, d, Node("red", j, d, u, v), y))
      BY <2>3
    <3>2. ~IsRed(v)
      BY <2>5, <2>7
    <3> QED BY <2>3, <2>7, <3>1, <3>2, FixupOuter, LiftedWell
  <2>8. CASE IsRed(v)
    <3> DEFINE i == v.key
               p == v.child[d]
               q == v.child[Opposite(d)]
               z == Node("red", i, d, Node("red", j, d, u, p), q)
    <3>1. v = Node("red", i, d, p, q)
      BY <2>5, <2>8, LegalRed, LegalNode DEF IsRed
    <3> HIDE DEF i, p, q
    <3>2. Well(Node(c, k, d, Node("red", j, d, u, Node("red", i, d, p, q)), y))
      BY <2>3, <3>1
    <3>3. Well(r) /\ Well(y) /\ Keys(Node(c, k, d, r, y)) = {k} \cup Keys(r) \cup Keys(y)
      <4>1. Well(r) /\ Well(y)
        BY WellParts
      <4>2. Keys(Node(c, k, d, r, y)) = {k} \cup Keys(r) \cup Keys(y)
        BY WellKeys
      <4> QED BY <4>1, <4>2
    <3>4. Well(z) /\ Keys(z) = Keys(r)
      <4>1. Well(Node("red", j, d, u, Node("red", i, d, p, q)))
        BY <2>3, <3>1, <3>3
      <4>2. Well(z) /\ Keys(z) = Keys(Node("red", j, d, u, Node("red", i, d, p, q)))
        BY <4>1, RotateWell, BlackIs
      <4> QED BY <2>3, <3>1, <4>2
    <3>5. c \in Colors
      BY WellParts
    <3>6. Well(Node(c, k, d, z, y)) /\ Keys(Node(c, k, d, z, y)) = {k} \cup Keys(z) \cup Keys(y)
      <4> HIDE DEF z
      <4> QED BY <3>3, <3>4, <3>5, WellSwap
    <3>7. /\ Well(Lifted(Node(c, k, d, z, y), d))
          /\ Keys(Lifted(Node(c, k, d, z, y), d)) = Keys(Node(c, k, d, z, y))
      BY <3>6, LiftedWell
    <3>8. InsertFixup(Node(c, k, d, r, y), d) = Lifted(Node(c, k, d, z, y), d)
      BY <2>3, <3>1, FixupInner
    <3> HIDE DEF z
    <3> QED BY <3>3, <3>4, <3>6, <3>7, <3>8
  <2> QED BY <2>6, <2>7, <2>8
<1> QED BY <1>1, <1>2
LEMMA FixupFits ==
    ASSUME NEW c, NEW k, NEW d \in Sides, NEW r, NEW y, NEW h \in Nat, Well(Node(c, k, d, r, y)),
           Almost(r, h), Legal(y, h), c = "red" => Legal(r, h) /\ ~IsRed(y)
    PROVE  /\ Almost(InsertFixup(Node(c, k, d, r, y), d), h + Weight(c))
           /\ c # "red" => Legal(InsertFixup(Node(c, k, d, r, y), d), h + Weight(c))
<1> DEFINE t == Node(c, k, d, r, y)
           F == InsertFixup(t, d)
<1>1. t \in Tree /\ ~t.null
  BY NodeNull DEF Well
<1>2. ASSUME Legal(r, h), F = t PROVE Almost(F, h + Weight(c)) /\ (c # "red" => Legal(F, h + Weight(c)))
  <2>1. Almost(t, h + Weight(c))
    BY <1>1, <1>2, AlmostNode
  <2>2. c # "red" => Legal(t, h + Weight(c))
    BY <1>1, <1>2, LegalUp
  <2> HIDE DEF t, F
  <2> QED BY <1>2, <2>1, <2>2
<1>3. ASSUME Legal(F, h + 1), ~F.null, c = "black" PROVE Almost(F, h + Weight(c)) /\ (c # "red" => Legal(F, h + Weight(c)))
  <2>1. Weight(c) = 1
    BY <1>3, BlackIs
  <2> HIDE DEF F
  <2>2. Almost(F, h + 1)
    BY <1>3, LegalAlmost
  <2> QED BY <1>3, <2>1, <2>2
<1>4. ASSUME NEW f, Well(f), Keys(f) = Keys(t) PROVE ~f.null
  <2>1. k \in Keys(t)
    BY WellKeys
  <2> HIDE DEF t
  <2> QED BY <1>4, <2>1, OfNull DEF Well
<1>5. ~F.null
  <2>1. Well(F) /\ Keys(F) = Keys(t)
    BY FixupWell
  <2> HIDE DEF F, t
  <2> QED BY <1>4, <2>1
<1>6. c \in Colors
  BY WellParts
<1>7. CASE ~IsRed(r)
  <2>1. Legal(r, h)
    BY <1>7, AlmostLegal
  <2>2. F = t
    BY <1>7, FixupSides
  <2> QED BY <1>2, <2>1, <2>2
<1>8. CASE IsRed(r)
  <2> DEFINE u == r.child[d]
             v == r.child[Opposite(d)]
             j == r.key
  <2>1. r \in Tree /\ ~r.null
    BY DEF Almost
  <2>2. r.color = "red"
    BY <1>8 DEF IsRed
  <2>3. r = Node("red", j, d, u, v) /\ u \in Tree /\ v \in Tree
    BY <2>1, <2>2, TreeNode
  <2>4. \E e \in Sides : Legal(r.child[e], h) /\ Legal(r.child[Opposite(e)], h) /\ ~IsRed(r.child[Opposite(e)])
    BY <1>8, <2>2, BlackIs DEF Almost
  <2>5. Legal(u, h) /\ Legal(v, h) /\ (~IsRed(u) \/ ~IsRed(v))
    BY <2>4, Mirror
  <2> HIDE DEF u, v, j
  <2>6. ASSUME IsRed(u) \/ IsRed(v) PROVE c = "black"
    <3>1. Legal(r, h) => ~IsRed(u) /\ ~IsRed(v)
      <4>1. ASSUME Legal(r, h) PROVE ~IsRed(u) /\ ~IsRed(v)
        <5>1. Legal(Node("red", j, d, u, v), h)
          BY <2>3, <4>1
        <5> QED BY <5>1, LegalRedNode
      <4> QED BY <4>1
    <3> QED BY <1>6, <2>6, <3>1 DEF Colors
  <2>7. CASE ~IsRed(u) /\ ~IsRed(v)
    <3>1. Legal(r, h)
      BY <2>1, <2>3, <2>5, <2>7, LegalRedUp
    <3>2. F = t
      BY <2>3, <2>7, FixupLegal
    <3> QED BY <1>2, <3>1, <3>2
  <2>8. CASE IsRed(u)
    <3>1. c = "black" /\ ~IsRed(v)
      BY <2>5, <2>6, <2>8
    <3>2. F = Lifted(Node("black", k, d, Node("red", j, d, u, v), y), d)
      BY <2>3, <2>8, <3>1, FixupOuter
    <3>3. Well(Node("black", k, d, Node("red", j, d, u, v), y))
      BY <2>3, <3>1
    <3>4. Legal(Lifted(Node("black", k, d, Node("red", j, d, u, v), y), d), h + 1)
      BY <2>5, <2>8, <3>1, <3>3, LiftedLegal
    <3>5. Legal(F, h + 1)
      <4> HIDE DEF F
      <4> QED BY <3>2, <3>4
    <3> QED BY <1>3, <1>5, <3>1, <3>5
  <2>9. CASE IsRed(v)
    <3> DEFINE i == v.key
               p == v.child[d]
               q == v.child[Opposite(d)]
               w == Node("red", j, d, u, p)
               z == Node("red", i, d, w, q)
    <3>1. v = Node("red", i, d, p, q)
      BY <2>5, <2>9, LegalRed, LegalNode DEF IsRed
    <3> HIDE DEF i, p, q
    <3>2. c = "black" /\ ~IsRed(u)
      BY <2>5, <2>6, <2>9
    <3>3. Legal(p, h) /\ Legal(q, h) /\ ~IsRed(p) /\ ~IsRed(q)
      <4>1. Legal(Node("red", i, d, p, q), h)
        BY <2>5, <3>1
      <4> QED BY <4>1, LegalRedNode
    <3>4. Well(r) /\ Well(y)
      BY WellParts
    <3>5. Well(z) /\ Keys(z) = Keys(r)
      <4>1. Well(Node("red", j, d, u, Node("red", i, d, p, q)))
        BY <2>3, <3>1, <3>4
      <4>2. Well(z) /\ Keys(z) = Keys(Node("red", j, d, u, Node("red", i, d, p, q)))
        BY <4>1, RotateWell, BlackIs
      <4> QED BY <2>3, <3>1, <4>2
    <3>6. Well(Node("black", k, d, z, y))
      <4> HIDE DEF z
      <4>1. Keys(z) \subseteq Keys(r) /\ Keys(y) \subseteq Keys(y) /\ Well(z) /\ Well(y) /\ "black" \in Colors
        BY <3>4, <3>5, BlackIs
      <4> QED BY <4>1, WellSwap
    <3>7. Legal(w, h) /\ IsRed(w)
      <4>1. w \in Tree
        <5>1. Well(Node("red", i, d, w, q))
          BY <3>5
        <5> HIDE DEF w
        <5>2. Well(w)
          BY <5>1, WellParts
        <5> QED BY <5>2 DEF Well
      <4> QED BY <2>5, <3>2, <3>3, <4>1, LegalRedUp, NodeRed
    <3>8. F = Lifted(Node("black", k, d, z, y), d)
      BY <2>3, <3>1, <3>2, FixupInner
    <3>9. Legal(Lifted(Node("black", k, d, Node("red", i, d, w, q), y), d), h + 1)
      <4> HIDE DEF w
      <4> QED BY <3>3, <3>6, <3>7, LiftedLegal
    <3>10. Legal(F, h + 1)
      <4> HIDE DEF F
      <4> QED BY <3>8, <3>9
    <3> QED BY <1>3, <1>5, <3>2, <3>10
  <2> QED BY <2>7, <2>8, <2>9
<1> QED BY <1>7, <1>8

\* The insertion of a segment that is not in the tree.
Inserted(t, r, k, b) == /\ Well(r) /\ Keys(r) = Keys(t) \cup {k}
                        /\ Almost(r, b)
                        /\ ~IsRed(t) => Legal(r, b)

LEMMA InsertNull ==
    ASSUME NEW t, NEW b, Well(t), Legal(t, b), t.null, NEW k \in Segments PROVE Inserted(t, mm_insert_node(k)[t], k, b)
<1> DEFINE r == Node("red", k, "left", t, t)
<1>1. t = Sentinel /\ b = 0 /\ ~IsRed(t)
  BY LegalNull, SentinelNull
<1>2. t \in Tree /\ Keys(t) = {} /\ "left" \in Sides /\ "red" \in Colors
  BY OfNull, BlackIs DEF Well, Sides
<1>3. mm_insert_node(k)[t] = r
  <2>1. mm_insert_node(k)[t] = [null |-> FALSE, color |-> "red", key |-> k, child |-> [d \in Sides |-> t]]
    BY <1>2, InsertExists
  <2>2. [d \in Sides |-> t] = Children("left", t, t)
    BY DEF Children
  <2> QED BY <2>1, <2>2 DEF Node, Cell, NotNull
<1>4. Well(r) /\ Keys(r) = {k}
  <2>1. Beside(t, k, "left") /\ Beside(t, k, Opposite("left"))
    BY <1>2 DEF Beside
  <2>2. Well(r) /\ Keys(r) = {k} \cup Keys(t) \cup Keys(t)
    BY <1>2, <2>1, WellNode
  <2> QED BY <1>2, <2>2
<1>5. Legal(r, b)
  BY <1>1, <1>2, <1>4, LegalRedUp DEF Well
<1>6. Almost(r, b)
  BY <1>5, NodeNull, LegalAlmost
<1> HIDE DEF r
<1> QED BY <1>2, <1>3, <1>4, <1>5, <1>6 DEF Inserted

LEMMA InsertNode ==
    ASSUME NEW t, NEW b, Well(t), Legal(t, b), ~t.null, NEW k \in Segments, k \notin Keys(t),
           NEW d \in Sides, d = IF Index!mm_cmp_node(k, t.key) THEN "left" ELSE "right",
           \A h : Legal(t.child[d], h) /\ Well(t.child[d]) /\ k \notin Keys(t.child[d]) =>
                      Inserted(t.child[d], mm_insert_node(k)[t.child[d]], k, h)
    PROVE  Inserted(t, mm_insert_node(k)[t], k, b)
<1> DEFINE c == t.color
           j == t.key
           x == t.child[d]
           y == t.child[Opposite(d)]
           h == b - Weight(c)
           r == mm_insert_node(k)[x]
           F == InsertFixup(Node(c, j, d, r, y), d)
<1>1. t = Node(c, j, d, x, y) /\ t \in Tree
  BY TreeNode DEF Well
<1>2. mm_insert_node(k)[t] = InsertFixup(Put(t, d, r), d)
  BY <1>1, InsertExists
<1> HIDE DEF c, j, x, y, r
<1>3. Put(t, d, r) = Node(c, j, d, r, y)
  BY <1>1, NodePut
<1>4. c \in Colors /\ j \in Segments /\ Well(x) /\ Well(y)
  <2>1. Well(Node(c, j, d, x, y))
    BY <1>1
  <2> QED BY <2>1, WellParts
<1>5. Keys(t) = {j} \cup Keys(x) \cup Keys(y) /\ Beside(x, j, d) /\ Beside(y, j, Opposite(d))
  <2>1. Well(Node(c, j, d, x, y))
    BY <1>1
  <2> QED BY <1>1, <2>1, WellKeys
<1>6. Legal(x, h) /\ Legal(y, h) /\ (c = "red" => ~IsRed(x) /\ ~IsRed(y))
  <2>1. Legal(Node(c, j, d, x, y), b)
    BY <1>1
  <2> QED BY <2>1, LegalDown
<1>7. h \in Nat /\ h + Weight(c) = b
  <2>1. b \in Nat /\ h \in Nat
    BY <1>6, LegalParts
  <2>2. Weight(c) \in Nat
    BY WeightIs
  <2> QED BY <2>1, <2>2
<1> HIDE DEF h
<1>8. Before(k, j, d)
  <2>1. k # j
    BY <1>5
  <2>2. \/ d = "left" /\ Index!mm_cmp_node(k, j)
        \/ d = "right" /\ ~Index!mm_cmp_node(k, j)
    BY DEF j
  <2>3. "left" # "right"
    OBVIOUS
  <2> QED BY <1>4, <2>1, <2>2, <2>3, CmpOrder DEF Before
<1>9. Inserted(x, r, k, h)
  BY <1>4, <1>5, <1>6 DEF x, r
<1>10. Well(r) /\ Keys(r) = Keys(x) \cup {k} /\ Almost(r, h) /\ (~IsRed(x) => Legal(r, h))
  BY <1>9 DEF Inserted
<1>11. Beside(r, j, d)
  BY <1>5, <1>8, <1>10 DEF Beside
<1>12. Well(Node(c, j, d, r, y)) /\ Keys(Node(c, j, d, r, y)) = {j} \cup Keys(r) \cup Keys(y)
  BY <1>4, <1>5, <1>10, <1>11, WellNode
<1>13. Well(F) /\ Keys(F) = Keys(Node(c, j, d, r, y))
  BY <1>7, <1>10, <1>12, FixupWell
<1>14. Almost(F, h + Weight(c)) /\ (c # "red" => Legal(F, h + Weight(c)))
  BY <1>6, <1>7, <1>10, <1>12, FixupFits
<1>15. IsRed(t) <=> c = "red"
  BY DEF IsRed, c
<1> HIDE DEF F
<1>16. Keys(F) = Keys(t) \cup {k}
  BY <1>5, <1>10, <1>12, <1>13
<1>17. mm_insert_node(k)[t] = F
  BY <1>2, <1>3 DEF F
<1> QED BY <1>7, <1>13, <1>14, <1>15, <1>16, <1>17 DEF Inserted

LEMMA InsertKeeps ==
    ASSUME NEW k \in Segments
    PROVE  \A t \in Tree : \A b : Well(t) /\ Legal(t, b) /\ k \notin Keys(t) => Inserted(t, mm_insert_node(k)[t], k, b)
<1> DEFINE P(t) == \A b : Well(t) /\ Legal(t, b) /\ k \notin Keys(t) => Inserted(t, mm_insert_node(k)[t], k, b)
           A == {t \in Tree : P(t)}
<1>1. ASSUME NEW t \in Tree, t.null PROVE P(t)
  BY <1>1, InsertNull
<1>2. ASSUME NEW t \in Tree, ~t.null, t.child["left"] \in A, t.child["right"] \in A PROVE P(t)
  <2> SUFFICES ASSUME NEW b, Well(t), Legal(t, b), k \notin Keys(t) PROVE Inserted(t, mm_insert_node(k)[t], k, b)
    OBVIOUS
  <2>1. PICK d \in Sides : d = IF Index!mm_cmp_node(k, t.key) THEN "left" ELSE "right"
    BY DEF Sides
  <2>2. t.child[d] \in A
    BY <1>2, <2>1
  <2> QED BY <1>2, <2>1, <2>2, InsertNode
<1>3. Tree \subseteq A
  <2>1. ASSUME NEW t \in Tree, ~t.null => t.child["left"] \in A /\ t.child["right"] \in A PROVE t \in A
    BY <1>1, <1>2, <2>1
  <2> HIDE DEF A
  <2> QED BY <2>1, TreeSets
<1> QED BY <1>3
-----------------------------------------------------------------------------
(***************************************************************************)
(* The deletion: the cases of a sibling.                                   *)
(***************************************************************************)
LEMMA SiblingBlack ==
    ASSUME NEW c, NEW k, NEW d \in Sides, NEW x, NEW j, NEW n, NEW f, ~IsRed(n), ~IsRed(f)
    PROVE  LET e == BlackSibling(Node(c, k, d, x, Node("black", j, d, n, f)), d)
           IN e.tree = Node("black", k, d, x, Node("red", j, d, n, f)) /\ (e.balance <=> c = "red")
<1> DEFINE y == Node("black", j, d, n, f)
           t == Node(c, k, d, x, y)
           o == Opposite(d)
           s == Node("black", k, d, x, y)
           y1 == Node("red", j, d, n, f)
           s1 == Node("black", k, d, x, y1)
           e == BlackSibling(t, d)
<1>1. t.child[o] = y
  BY NodeFields
<1>2. y.child[d] = n /\ y.child[o] = f
  BY NodeFields
<1>3. ~IsRed(y) /\ (IsRed(t) <=> c = "red")
  <2>1. "black" # "red"
    OBVIOUS
  <2> QED BY <2>1, NodeRed
<1>4. Paint(t, "black") = s /\ Paint(y, "red") = y1
  BY NodePaint
<1>5. Put(s, o, y1) = s1
  BY NodePut
<1> HIDE DEF t, y, o, s, y1, s1
<1>6. e = [tree |-> s1, balance |-> IsRed(t)]
  BY <1>1, <1>2, <1>3, <1>4, <1>5 DEF BlackSibling, o
<1>7. e.tree = s1 /\ (e.balance <=> c = "red")
  BY <1>3, <1>6
<1> QED BY <1>7 DEF t, y, s1, y1

LEMMA SiblingFar ==
    ASSUME NEW c, NEW k, NEW d \in Sides, NEW x, NEW j, NEW n, NEW f, IsRed(f)
    PROVE  LET e == BlackSibling(Node(c, k, d, x, Node("black", j, d, n, f)), d)
           IN e.tree = Node(c, j, d, Node("black", k, d, x, n), Paint(f, "black")) /\ e.balance
<1> DEFINE y == Node("black", j, d, n, f)
           t == Node(c, k, d, x, y)
           o == Opposite(d)
           w == Node(c, k, d, x, n)
           u == Node("black", j, d, w, f)
           u1 == Node(c, j, d, w, f)
           w1 == Node("black", k, d, x, n)
           s1 == Node(c, j, d, w1, Paint(f, "black"))
           e == BlackSibling(t, d)
<1>1. t.child[o] = y
  BY NodeFields
<1>2. y.child[d] = n /\ y.child[o] = f
  BY NodeFields
<1>3. ~IsRed(y)
  <2>1. "black" # "red"
    OBVIOUS
  <2> QED BY <2>1, NodeRed
<1>4. mm_rotate(t, d) = u
  BY Rotated
<1>5. u.child[d] = w /\ w.color = c
  BY NodeFields
<1>6. Paint(u, c) = u1 /\ Paint(w, "black") = w1
  BY NodePaint
<1>7. PaintChildren(u1, "black") = Node(c, j, d, Paint(w, "black"), Paint(f, "black"))
  BY NodePaintChildren
<1>8. PaintChildren(u1, "black") = s1
  BY <1>6, <1>7
<1> HIDE DEF t, y, o, w, u, u1, w1, s1
<1>9. e = [tree |-> s1, balance |-> TRUE]
  BY <1>1, <1>2, <1>3, <1>4, <1>5, <1>6, <1>8 DEF BlackSibling, o
<1>10. e.tree = s1 /\ e.balance
  BY <1>9
<1> QED BY <1>10 DEF t, y, s1, w1

LEMMA SiblingNear ==
    ASSUME NEW c, NEW k, NEW d \in Sides, NEW x, NEW j, NEW i, NEW p, NEW q, NEW f, ~IsRed(f)
    PROVE  LET e == BlackSibling(Node(c, k, d, x, Node("black", j, d, Node("red", i, d, p, q), f)), d)
           IN e.tree = Node(c, i, d, Node("black", k, d, x, p), Node("black", j, d, q, f)) /\ e.balance
<1> DEFINE n == Node("red", i, d, p, q)
           y == Node("black", j, d, n, f)
           t == Node(c, k, d, x, y)
           o == Opposite(d)
           z == Node("black", j, d, q, f)
           z1 == Node("red", j, d, q, f)
           v == Node("red", i, d, p, z)
           v1 == Node("black", i, d, p, z)
           v2 == Node("black", i, d, p, z1)
           s == Node(c, k, d, x, v2)
           w == Node(c, k, d, x, p)
           u == Node("black", i, d, w, z1)
           u1 == Node(c, i, d, w, z1)
           w1 == Node("black", k, d, x, p)
           s1 == Node(c, i, d, w1, z)
           e == BlackSibling(t, d)
<1>1. t.child[o] = y
  BY NodeFields
<1>2. y.child[d] = n /\ y.child[o] = f
  BY NodeFields
<1>3. ~IsRed(y) /\ IsRed(n)
  <2>1. "black" # "red"
    OBVIOUS
  <2> QED BY <2>1, NodeRed
<1>4. mm_rotate(y, o) = v
  BY Rotated
<1>5. v.child[o] = z
  BY NodeFields
<1>6. Paint(z, "red") = z1 /\ Paint(v, "black") = v1
  BY NodePaint
<1>7. Put(v1, o, z1) = v2
  BY NodePut
<1>8. Put(t, o, v2) = s
  BY NodePut
<1>9. mm_rotate(s, d) = u
  BY Rotated
<1>10. u.child[d] = w
  BY NodeFields
<1>11. w.color = c
  BY NodeFields
<1>12. Paint(u, c) = u1
  BY NodePaint
<1>13. PaintChildren(u1, "black") = s1
  <2>1. PaintChildren(u1, "black") = Node(c, i, d, Paint(w, "black"), Paint(z1, "black"))
    BY NodePaintChildren
  <2>2. Paint(w, "black") = w1 /\ Paint(z1, "black") = z
    BY NodePaint
  <2> QED BY <2>1, <2>2
<1> HIDE DEF t, y, o, n, z, z1, v, v1, v2, s, w, u, u1, w1, s1
<1>14. e = [tree |-> s1, balance |-> TRUE]
  BY <1>1, <1>2, <1>3, <1>4, <1>5, <1>6, <1>7, <1>8, <1>9, <1>10, <1>11, <1>12, <1>13 DEF BlackSibling, o
<1>15. e.tree = s1 /\ e.balance
  BY <1>14
<1> QED BY <1>15 DEF t, y, n, s1, w1, z
\* e.tree takes the place of a legal tree with the segments S, a root of the
\* colour c and the black height b, or of one less when e.balance is not set.
Mended(e, S, c, b) == /\ Well(e.tree) /\ Keys(e.tree) = S
                      /\ IsRed(e.tree) => c = "red"
                      /\ \/ e.balance /\ Legal(e.tree, b)
                         \/ ~e.balance /\ ~IsRed(e.tree) /\ Legal(e.tree, b - 1)

LEMMA WellRecolour ==
    ASSUME NEW c, NEW k, NEW d \in Sides, NEW x, NEW y, Well(Node(c, k, d, x, y)), NEW b \in Colors
    PROVE  Well(Node(b, k, d, x, y)) /\ Keys(Node(b, k, d, x, y)) = Keys(Node(c, k, d, x, y))
<1>1. Well(x) /\ Well(y)
  BY WellParts
<1>2. Keys(Node(c, k, d, x, y)) = {k} \cup Keys(x) \cup Keys(y)
  BY WellKeys
<1>3. Well(Node(b, k, d, x, y)) /\ Keys(Node(b, k, d, x, y)) = {k} \cup Keys(x) \cup Keys(y)
  BY <1>1, WellSwap
<1> QED BY <1>2, <1>3

LEMMA WellOther ==
    ASSUME NEW c, NEW k, NEW d \in Sides, NEW x, NEW y, Well(Node(c, k, d, x, y)), NEW z, Well(z), Keys(z) = Keys(y)
    PROVE  Well(Node(c, k, d, x, z)) /\ Keys(Node(c, k, d, x, z)) = Keys(Node(c, k, d, x, y))
<1>1. Well(x) /\ c \in Colors
  BY WellParts
<1>2. Keys(Node(c, k, d, x, y)) = {k} \cup Keys(x) \cup Keys(y)
  BY WellKeys
<1>3. Well(Node(c, k, d, x, z)) /\ Keys(Node(c, k, d, x, z)) = {k} \cup Keys(x) \cup Keys(z)
  <2>1. Keys(z) \subseteq Keys(y) /\ Keys(x) \subseteq Keys(x)
    OBVIOUS
  <2> QED BY <1>1, <2>1, WellSwap
<1> QED BY <1>2, <1>3

LEMMA WellSide ==
    ASSUME NEW c, NEW k, NEW d \in Sides, NEW x, NEW y, Well(Node(c, k, d, x, y)), NEW z, Well(z), Keys(z) = Keys(x)
    PROVE  Well(Node(c, k, d, z, y)) /\ Keys(Node(c, k, d, z, y)) = Keys(Node(c, k, d, x, y))
<1>1. Well(y) /\ c \in Colors
  BY WellParts
<1>2. Keys(Node(c, k, d, x, y)) = {k} \cup Keys(x) \cup Keys(y)
  BY WellKeys
<1>3. Well(Node(c, k, d, z, y)) /\ Keys(Node(c, k, d, z, y)) = {k} \cup Keys(z) \cup Keys(y)
  <2>1. Keys(z) \subseteq Keys(x) /\ Keys(y) \subseteq Keys(y)
    OBVIOUS
  <2> QED BY <1>1, <2>1, WellSwap
<1> QED BY <1>2, <1>3

LEMMA TreeParts ==
    ASSUME NEW c, NEW k, NEW d \in Sides, NEW x, NEW y, Well(Node(c, k, d, x, y))
    PROVE  Node(c, k, d, x, y) \in Tree /\ x \in Tree /\ y \in Tree /\ Well(x) /\ Well(y)
<1>1. Well(x) /\ Well(y)
  BY WellParts
<1> QED BY <1>1 DEF Well

LEMMA MendBlack ==
    ASSUME NEW c, NEW k, NEW d \in Sides, NEW x, NEW j, NEW n, NEW f, NEW h,
           Well(Node(c, k, d, x, Node("black", j, d, n, f))), Legal(x, h), Legal(n, h), Legal(f, h),
           ~IsRed(n), ~IsRed(f)
    PROVE  /\ Well(Node("black", k, d, x, Node("red", j, d, n, f)))
           /\ Keys(Node("black", k, d, x, Node("red", j, d, n, f))) = Keys(Node(c, k, d, x, Node("black", j, d, n, f)))
           /\ Legal(Node("black", k, d, x, Node("red", j, d, n, f)), h + 1)
<1> DEFINE y == Node("black", j, d, n, f)
           z == Node("red", j, d, n, f)
           t == Node(c, k, d, x, y)
           s == Node(c, k, d, x, z)
           u == Node("black", k, d, x, z)
<1>1. Well(y)
  <2>1. Well(t)
    OBVIOUS
  <2> HIDE DEF y
  <2> QED BY <2>1, TreeParts
<1>2. Well(z) /\ Keys(z) = Keys(y)
  BY <1>1, WellRecolour, BlackIs
<1>3. Well(s) /\ Keys(s) = Keys(t)
  <2>1. Well(t)
    OBVIOUS
  <2> HIDE DEF y, z
  <2> QED BY <1>2, <2>1, WellOther
<1>4. Well(u) /\ Keys(u) = Keys(s)
  <2> HIDE DEF z
  <2> QED BY <1>3, WellRecolour, BlackIs
<1>5. Legal(z, h)
  BY <1>2, LegalRedUp DEF Well
<1>6. Legal(u, h + 1)
  <2> HIDE DEF z
  <2> QED BY <1>4, <1>5, LegalBlackUp DEF Well
<1> QED BY <1>3, <1>4, <1>6

LEMMA MendFar ==
    ASSUME NEW c, NEW k, NEW d \in Sides, NEW x, NEW j, NEW n, NEW f, NEW h,
           Well(Node(c, k, d, x, Node("black", j, d, n, f))), Legal(x, h), Legal(n, h), Legal(f, h), IsRed(f)
    PROVE  /\ Well(Node(c, j, d, Node("black", k, d, x, n), Paint(f, "black")))
           /\ Keys(Node(c, j, d, Node("black", k, d, x, n), Paint(f, "black")))
                  = Keys(Node(c, k, d, x, Node("black", j, d, n, f)))
           /\ Legal(Node(c, j, d, Node("black", k, d, x, n), Paint(f, "black")), (h + 1) + Weight(c))
<1> DEFINE t == Node(c, k, d, x, Node("black", j, d, n, f))
           w == Node("black", k, d, x, n)
           u == Node(c, j, d, w, f)
           f1 == Paint(f, "black")
           s == Node(c, j, d, w, f1)
<1>1. c \in Colors
  BY WellParts
<1>2. Well(u) /\ Keys(u) = Keys(t)
  BY <1>1, RotateWell, BlackIs
<1>3. Well(w) /\ Well(f)
  <2> HIDE DEF w
  <2> QED BY <1>2, TreeParts
<1>4. Well(f1) /\ Keys(f1) = Keys(f)
  BY <1>3, WellPaint, BlackIs
<1>5. Well(s) /\ Keys(s) = Keys(u)
  <2> HIDE DEF w, f1
  <2> QED BY <1>2, <1>4, WellOther
<1>6. Legal(w, h + 1) /\ ~IsRed(w)
  <2>1. "black" # "red"
    OBVIOUS
  <2> QED BY <1>3, <2>1, LegalBlackUp, NodeRed DEF Well
<1>7. Legal(f1, h + 1) /\ ~IsRed(f1)
  BY <1>3, LegalPaint, PaintNotRed
<1>8. Legal(s, (h + 1) + Weight(c))
  <2> HIDE DEF w, f1
  <2> QED BY <1>5, <1>6, <1>7, LegalUp DEF Well
<1> QED BY <1>2, <1>5, <1>8

LEMMA MendNear ==
    ASSUME NEW c, NEW k, NEW d \in Sides, NEW x, NEW j, NEW i, NEW p, NEW q, NEW f, NEW h,
           Well(Node(c, k, d, x, Node("black", j, d, Node("red", i, d, p, q), f))),
           Legal(x, h), Legal(Node("red", i, d, p, q), h), Legal(f, h)
    PROVE  /\ Well(Node(c, i, d, Node("black", k, d, x, p), Node("black", j, d, q, f)))
           /\ Keys(Node(c, i, d, Node("black", k, d, x, p), Node("black", j, d, q, f)))
                  = Keys(Node(c, k, d, x, Node("black", j, d, Node("red", i, d, p, q), f)))
           /\ Legal(Node(c, i, d, Node("black", k, d, x, p), Node("black", j, d, q, f)), (h + 1) + Weight(c))
<1> DEFINE y == Node("black", j, d, Node("red", i, d, p, q), f)
           t == Node(c, k, d, x, y)
           z == Node("black", j, d, q, f)
           v == Node("black", i, d, p, z)
           r == Node(c, k, d, x, v)
           w == Node("black", k, d, x, p)
           s == Node(c, i, d, w, z)
<1>1. c \in Colors
  BY WellParts
<1>2. Well(y)
  <2>1. Well(t)
    OBVIOUS
  <2> HIDE DEF y
  <2> QED BY <2>1, TreeParts
<1>3. Well(v) /\ Keys(v) = Keys(y)
  BY <1>2, RotateBackWell, BlackIs
<1>4. Well(r) /\ Keys(r) = Keys(t)
  <2>1. Well(t)
    OBVIOUS
  <2> HIDE DEF y, v
  <2> QED BY <1>3, <2>1, WellOther
<1>5. Well(s) /\ Keys(s) = Keys(r)
  <2>1. Well(Node(c, k, d, x, Node("black", i, d, p, z)))
    BY <1>4
  <2> HIDE DEF z
  <2> QED BY <1>1, <2>1, RotateWell, BlackIs
<1>6. Legal(p, h) /\ Legal(q, h)
  BY LegalRedNode
<1>7. Well(w) /\ Well(z)
  <2> HIDE DEF w, z
  <2> QED BY <1>5, TreeParts
<1>8. "black" # "red"
  OBVIOUS
<1>9. Legal(w, h + 1) /\ ~IsRed(w)
  BY <1>6, <1>7, <1>8, LegalBlackUp, NodeRed DEF Well
<1>10. Legal(z, h + 1) /\ ~IsRed(z)
  BY <1>6, <1>7, <1>8, LegalBlackUp, NodeRed DEF Well
<1>11. Legal(s, (h + 1) + Weight(c))
  <2> HIDE DEF w, z
  <2> QED BY <1>5, <1>9, <1>10, LegalUp DEF Well
<1> QED BY <1>4, <1>5, <1>11
\* A black sibling mends the side that has lost a black node, or hands the
\* loss up; below a red node it always mends it.
LEMMA SiblingMends ==
    ASSUME NEW c, NEW k, NEW d \in Sides, NEW x, NEW j, NEW n, NEW f, NEW h,
           Well(Node(c, k, d, x, Node("black", j, d, n, f))), Legal(x, h), Legal(n, h), Legal(f, h)
    PROVE  LET t == Node(c, k, d, x, Node("black", j, d, n, f))
               e == BlackSibling(t, d)
           IN Mended(e, Keys(t), c, (h + 1) + Weight(c)) /\ (c = "red" => e.balance)
<1> DEFINE t == Node(c, k, d, x, Node("black", j, d, n, f))
           e == BlackSibling(t, d)
           G == Mended(e, Keys(t), c, (h + 1) + Weight(c)) /\ (c = "red" => e.balance)
<1>1. h \in Nat
  BY LegalParts
<1>2. c \in Colors
  BY WellParts
<1>3. CASE ~IsRed(n) /\ ~IsRed(f)
  <2> DEFINE s == Node("black", k, d, x, Node("red", j, d, n, f))
  <2>1. e.tree = s /\ (e.balance <=> c = "red")
    BY <1>3, SiblingBlack
  <2>2. Well(s) /\ Keys(s) = Keys(t) /\ Legal(s, h + 1)
    BY <1>3, MendBlack
  <2>3. ~IsRed(s)
    <3>1. "black" # "red"
      OBVIOUS
    <3> QED BY <3>1, NodeRed
  <2>4. c = "red" => (h + 1) + Weight(c) = h + 1
    BY <1>1, BlackIs
  <2>5. c # "red" => ((h + 1) + Weight(c)) - 1 = h + 1
    BY <1>1, <1>2, BlackIs DEF Colors
  <2>6. G
    <3> HIDE DEF s, e, t
    <3> QED BY <2>1, <2>2, <2>3, <2>4, <2>5 DEF Mended
  <2> QED BY <2>6
<1>4. ASSUME NEW s, e.tree = s, e.balance, Well(s), Keys(s) = Keys(t), Legal(s, (h + 1) + Weight(c)),
             IsRed(s) <=> c = "red"
      PROVE  G
  <2> HIDE DEF e, t
  <2> QED BY <1>4 DEF Mended
<1>5. CASE IsRed(f)
  <2> DEFINE s == Node(c, j, d, Node("black", k, d, x, n), Paint(f, "black"))
  <2>1. e.tree = s /\ e.balance
    BY <1>5, SiblingFar
  <2>2. Well(s) /\ Keys(s) = Keys(t) /\ Legal(s, (h + 1) + Weight(c))
    BY <1>5, MendFar
  <2>3. IsRed(s) <=> c = "red"
    BY NodeRed
  <2>4. G
    <3> HIDE DEF s, G
    <3> QED BY <1>4, <2>1, <2>2, <2>3
  <2> QED BY <2>4
<1>6. CASE IsRed(n) /\ ~IsRed(f)
  <2> DEFINE i == n.key
             p == n.child[d]
             q == n.child[Opposite(d)]
             s == Node(c, i, d, Node("black", k, d, x, p), Node("black", j, d, q, f))
  <2>1. n = Node("red", i, d, p, q)
    BY <1>6, LegalRed, LegalNode DEF IsRed
  <2> HIDE DEF i, p, q
  <2>2. e.tree = s /\ e.balance
    BY <1>6, <2>1, SiblingNear
  <2>3. Well(s) /\ Keys(s) = Keys(t) /\ Legal(s, (h + 1) + Weight(c))
    <3>1. Well(Node(c, k, d, x, Node("black", j, d, Node("red", i, d, p, q), f))) /\ Legal(Node("red", i, d, p, q), h)
      BY <2>1
    <3>2. /\ Well(s) /\ Legal(s, (h + 1) + Weight(c))
          /\ Keys(s) = Keys(Node(c, k, d, x, Node("black", j, d, Node("red", i, d, p, q), f)))
      BY <3>1, MendNear
    <3> QED BY <2>1, <3>2
  <2>4. IsRed(s) <=> c = "red"
    BY NodeRed
  <2>5. G
    <3> HIDE DEF s, G
    <3> QED BY <1>4, <2>2, <2>3, <2>4
  <2> QED BY <2>5
<1> QED BY <1>3, <1>5, <1>6

LEMMA SideOfBlack ==
    ASSUME NEW c, NEW k, NEW d \in Sides, NEW x, NEW y, ~IsRed(y)
    PROVE  mm_delete_side(Node(c, k, d, x, y), d) = BlackSibling(Node(c, k, d, x, y), d)
<1> DEFINE t == Node(c, k, d, x, y)
<1>1. t.child[Opposite(d)] = y
  BY NodeFields
<1> HIDE DEF t
<1>2. mm_delete_side(t, d) = BlackSibling(t, d)
  BY <1>1 DEF mm_delete_side
<1> QED BY <1>2 DEF t

LEMMA SideOfRed ==
    ASSUME NEW c, NEW k, NEW d \in Sides, NEW x, NEW j, NEW n, NEW f
    PROVE  LET e == mm_delete_side(Node(c, k, d, x, Node("red", j, d, n, f)), d)
               below == BlackSibling(Node("red", k, d, x, n), d)
           IN e.tree = Node("black", j, d, below.tree, f) /\ e.balance = below.balance
<1> DEFINE y == Node("red", j, d, n, f)
           t == Node(c, k, d, x, y)
           w == Node(c, k, d, x, n)
           r == Node("red", j, d, w, f)
           w1 == Node("red", k, d, x, n)
           r1 == Node("black", j, d, w, f)
           below == BlackSibling(w1, d)
           s == Node("black", j, d, below.tree, f)
           e == mm_delete_side(t, d)
<1>1. t.child[Opposite(d)] = y
  BY NodeFields
<1>2. IsRed(y)
  BY NodeRed
<1>3. mm_rotate(t, d) = r
  BY Rotated
<1>4. r.child[d] = w
  BY NodeFields
<1>5. Paint(w, "red") = w1 /\ Paint(r, "black") = r1
  BY NodePaint
<1>6. Put(r1, d, below.tree) = s
  BY NodePut
<1> HIDE DEF t, y, w, r, w1, r1, s
<1>7. e = [tree |-> s, balance |-> below.balance]
  BY <1>1, <1>2, <1>3, <1>4, <1>5, <1>6 DEF mm_delete_side
<1>8. e.tree = s /\ e.balance = below.balance
  <2> HIDE DEF e, below
  <2> QED BY <1>7
<1> QED BY <1>8 DEF t, y, s, w1

\* A legal tree of a height of at least 1 has a node.
LEMMA LegalHigh == ASSUME NEW t, NEW h \in Nat, Legal(t, h + 1) PROVE ~t.null
<1>1. h + 1 # 0
  OBVIOUS
<1> QED BY <1>1, LegalNull

\* A legal tree of a height of at least 1 that is not red, seen from a side.
LEMMA LegalBlackNode ==
    ASSUME NEW t, NEW h \in Nat, Legal(t, h + 1), ~IsRed(t), NEW d \in Sides
    PROVE  /\ t = Node("black", t.key, d, t.child[d], t.child[Opposite(d)])
           /\ Legal(t.child[d], h) /\ Legal(t.child[Opposite(d)], h)
<1> DEFINE x == t.child[d]
           y == t.child[Opposite(d)]
<1>1. ~t.null
  BY LegalHigh
<1>2. t = Node(t.color, t.key, d, x, y) /\ t.color \in Colors
  BY <1>1, LegalNode
<1>3. t.color = "black"
  BY <1>2 DEF IsRed, Colors
<1>4. Legal(x, (h + 1) - Weight("black")) /\ Legal(y, (h + 1) - Weight("black"))
  <2> HIDE DEF x, y
  <2>1. Legal(Node("black", t.key, d, x, y), h + 1)
    BY <1>2, <1>3
  <2> QED BY <2>1, LegalDown
<1>5. (h + 1) - Weight("black") = h
  BY BlackIs
<1> QED BY <1>2, <1>3, <1>4, <1>5

LEMMA SideMends ==
    ASSUME NEW c, NEW k, NEW d \in Sides, NEW x, NEW y, NEW h \in Nat,
           Well(Node(c, k, d, x, y)), Legal(x, h), Legal(y, h + 1), ~IsRed(x), c = "red" => ~IsRed(y)
    PROVE  Mended(mm_delete_side(Node(c, k, d, x, y), d), Keys(Node(c, k, d, x, y)), c, (h + 1) + Weight(c))
<1> DEFINE t == Node(c, k, d, x, y)
           j == y.key
           n == y.child[d]
           f == y.child[Opposite(d)]
           e == mm_delete_side(t, d)
<1>1. c \in Colors
  BY WellParts
<1>2. CASE ~IsRed(y)
  <2>1. y = Node("black", j, d, n, f) /\ Legal(n, h) /\ Legal(f, h)
    BY <1>2, LegalBlackNode
  <2> HIDE DEF j, n, f
  <2>2. Well(Node(c, k, d, x, Node("black", j, d, n, f)))
    BY <2>1
  <2>3. Mended(BlackSibling(Node(c, k, d, x, Node("black", j, d, n, f)), d),
               Keys(Node(c, k, d, x, Node("black", j, d, n, f))), c, (h + 1) + Weight(c))
    BY <2>1, <2>2, SiblingMends
  <2>4. e = BlackSibling(t, d)
    BY <1>2, SideOfBlack
  <2> QED BY <2>1, <2>3, <2>4
<1>3. CASE IsRed(y)
  <2> DEFINE w == Node("red", k, d, x, n)
             below == BlackSibling(w, d)
             s == Node("black", j, d, below.tree, f)
  <2>1. y = Node("red", j, d, n, f)
    BY <1>3, LegalRed, LegalNode DEF IsRed
  <2> HIDE DEF j, n, f
  <2>2. c = "black"
    BY <1>1, <1>3 DEF Colors
  <2>3. Legal(n, h + 1) /\ Legal(f, h + 1) /\ ~IsRed(n) /\ ~IsRed(f)
    <3>1. Legal(Node("red", j, d, n, f), h + 1)
      BY <2>1
    <3> QED BY <3>1, LegalRedNode
  <2>4. e.tree = s /\ e.balance = below.balance
    BY <2>1, SideOfRed
  <2>5. Well(Node("black", j, d, w, f)) /\ Keys(Node("black", j, d, w, f)) = Keys(t)
    <3>1. Well(Node(c, k, d, x, Node("red", j, d, n, f)))
      BY <2>1
    <3>2. /\ Well(Node("black", j, d, w, f))
          /\ Keys(Node("black", j, d, w, f)) = Keys(Node(c, k, d, x, Node("red", j, d, n, f)))
      BY <3>1, RotateWell, BlackIs
    <3> QED BY <2>1, <3>2
  <2>6. Well(w) /\ Well(f)
    <3> HIDE DEF w
    <3> QED BY <2>5, TreeParts
  <2>7. Mended(below, Keys(w), "red", (h + 1) + Weight("red")) /\ below.balance
    <3> DEFINE i == n.key
               p == n.child[d]
               q == n.child[Opposite(d)]
    <3>1. n = Node("black", i, d, p, q) /\ Legal(p, h) /\ Legal(q, h)
      BY <2>3, LegalBlackNode
    <3> HIDE DEF i, p, q
    <3>2. Well(Node("red", k, d, x, Node("black", i, d, p, q)))
      BY <2>6, <3>1
    <3>3. /\ Mended(BlackSibling(Node("red", k, d, x, Node("black", i, d, p, q)), d),
                    Keys(Node("red", k, d, x, Node("black", i, d, p, q))), "red", (h + 1) + Weight("red"))
          /\ BlackSibling(Node("red", k, d, x, Node("black", i, d, p, q)), d).balance
      BY <3>1, <3>2, SiblingMends
    <3> QED BY <3>1, <3>3
  <2> HIDE DEF below, e
  <2>8. Well(below.tree) /\ Keys(below.tree) = Keys(w) /\ Legal(below.tree, h + 1)
    <3>1. (h + 1) + Weight("red") = h + 1
      BY BlackIs
    <3> QED BY <2>7, <3>1 DEF Mended
  <2>9. Well(s) /\ Keys(s) = Keys(t)
    <3> HIDE DEF w, t
    <3> QED BY <2>5, <2>8, WellSide
  <2>10. Legal(s, (h + 1) + 1)
    BY <2>3, <2>8, <2>9, LegalBlackUp DEF Well
  <2>11. ~IsRed(s)
    <3>1. "black" # "red"
      OBVIOUS
    <3> QED BY <3>1, NodeRed
  <2>12. (h + 1) + Weight(c) = (h + 1) + 1
    BY <2>2, BlackIs
  <2> HIDE DEF s, t
  <2>13. Mended(e, Keys(t), c, (h + 1) + Weight(c))
    BY <2>4, <2>7, <2>9, <2>10, <2>11, <2>12 DEF Mended
  <2> QED BY <2>13 DEF e, t
<1> QED BY <1>2, <1>3
-----------------------------------------------------------------------------
(***************************************************************************)
(* The deletion: the way down to the node and up again.                    *)
(***************************************************************************)
LEMMA RebalanceIs ==
    ASSUME NEW c, NEW k, NEW d \in Sides, NEW x, NEW y, NEW e
    PROVE  /\ e.balance => /\ Rebalance(Node(c, k, d, x, y), d, e).tree = Node(c, k, d, e.tree, y)
                           /\ Rebalance(Node(c, k, d, x, y), d, e).balance
           /\ ~e.balance => Rebalance(Node(c, k, d, x, y), d, e) = mm_delete_side(Node(c, k, d, e.tree, y), d)
<1> DEFINE t == Node(c, k, d, x, y)
           s == Node(c, k, d, e.tree, y)
<1>1. Put(t, d, e.tree) = s
  BY NodePut
<1> HIDE DEF t, s
<1>2. /\ e.balance => Rebalance(t, d, e).tree = s /\ Rebalance(t, d, e).balance
      /\ ~e.balance => Rebalance(t, d, e) = mm_delete_side(s, d)
  BY <1>1 DEF Rebalance
<1> QED BY <1>2 DEF t, s

LEMMA RebalanceMends ==
    ASSUME NEW c, NEW k, NEW d \in Sides, NEW x, NEW y, NEW e, NEW S, NEW a, NEW h,
           Well(Node(c, k, d, e.tree, y)), Mended(e, S, a, h), Legal(y, h), c = "red" => a # "red" /\ ~IsRed(y)
    PROVE  Mended(Rebalance(Node(c, k, d, x, y), d, e), Keys(Node(c, k, d, e.tree, y)), c, h + Weight(c))
<1> DEFINE z == e.tree
           s == Node(c, k, d, z, y)
           r == Rebalance(Node(c, k, d, x, y), d, e)
<1>1. Well(z) /\ (IsRed(z) => a = "red")
  BY DEF Mended
<1>2. Well(s)
  OBVIOUS
<1>3. CASE e.balance
  <2>1. r.tree = s /\ r.balance
    BY <1>3, RebalanceIs
  <2>2. Legal(z, h)
    BY <1>3 DEF Mended
  <2> HIDE DEF z
  <2>3. Legal(s, h + Weight(c))
    BY <1>1, <1>2, <2>2, LegalUp DEF Well
  <2>4. IsRed(s) <=> c = "red"
    BY NodeRed
  <2> HIDE DEF s, r
  <2>5. Mended(r, Keys(s), c, h + Weight(c))
    BY <1>2, <2>1, <2>3, <2>4 DEF Mended
  <2> QED BY <2>5 DEF r, s, z
<1>4. CASE ~e.balance
  <2>1. r = mm_delete_side(s, d)
    BY <1>4, RebalanceIs
  <2>2. Legal(z, h - 1) /\ ~IsRed(z)
    BY <1>4 DEF Mended
  <2> HIDE DEF z
  <2>3. h - 1 \in Nat /\ h \in Nat
    BY <2>2, LegalParts
  <2>4. (h - 1) + 1 = h
    BY <2>3
  <2>5. Mended(mm_delete_side(s, d), Keys(s), c, ((h - 1) + 1) + Weight(c))
    <3> DEFINE i == h - 1
    <3>1. i \in Nat /\ Legal(z, i) /\ Legal(y, i + 1)
      BY <2>2, <2>3, <2>4
    <3> HIDE DEF i
    <3>2. Mended(mm_delete_side(s, d), Keys(s), c, (i + 1) + Weight(c))
      BY <1>2, <2>2, <3>1, SideMends
    <3> QED BY <3>2 DEF i
  <2> HIDE DEF s, r
  <2>6. Mended(r, Keys(s), c, h + Weight(c))
    BY <2>1, <2>4, <2>5
  <2> QED BY <2>6 DEF r, s, z
<1> QED BY <1>3, <1>4

LEMMA KeysDiffer ==
    ASSUME NEW c, NEW k, NEW d \in Sides, NEW x, NEW y, Well(Node(c, k, d, x, y))
    PROVE  k \notin Keys(x) /\ k \notin Keys(y) /\ Keys(x) \cap Keys(y) = {}
<1>1. k \in Segments /\ Well(x) /\ Well(y)
  BY WellParts
<1>2. Beside(x, k, d) /\ Beside(y, k, Opposite(d))
  BY WellKeys
<1>3. Keys(x) \subseteq Segments /\ Keys(y) \subseteq Segments
  BY <1>1, Short DEF Well
<1>4. \A m \in Keys(x) : Before(m, k, d)
  BY <1>2 DEF Beside
<1>5. \A m \in Keys(y) : Before(k, m, d)
  BY <1>1, <1>2, <1>3, SideOrder DEF Beside
<1> QED BY <1>1, <1>3, <1>4, <1>5, SideOrder

LEMMA UnlinkMends ==
    ASSUME NEW c, NEW k, NEW d \in Sides, NEW x, NEW y, NEW b,
           Well(Node(c, k, d, x, y)), Legal(Node(c, k, d, x, y), b), y.null
    PROVE  Mended(Unlink(Node(c, k, d, x, y), d), Keys(Node(c, k, d, x, y)) \ {k}, c, b)
<1> DEFINE t == Node(c, k, d, x, y)
           e == Unlink(t, d)
           h == b - Weight(c)
           z == Paint(x, "black")
<1>1. Legal(x, h) /\ Legal(y, h) /\ (c = "red" => ~IsRed(x) /\ ~IsRed(y))
  BY LegalDown
<1>2. b \in Nat /\ h = 0
  BY <1>1, LegalNull, LegalParts
<1>3. Well(x) /\ Well(y) /\ c \in Colors
  BY WellParts
<1>4. Keys(t) \ {k} = Keys(x)
  <2>1. Keys(t) = {k} \cup Keys(x) \cup Keys(y)
    BY WellKeys
  <2>2. Keys(y) = {}
    BY <1>3, OfNull DEF Well
  <2>3. k \notin Keys(x)
    BY KeysDiffer
  <2> HIDE DEF t
  <2> QED BY <2>1, <2>2, <2>3
<1>5. Well(z) /\ Keys(z) = Keys(x) /\ ~IsRed(z)
  BY <1>1, <1>3, WellPaint, PaintNotRed, BlackIs
<1>6. t.child[d] = x
  BY NodeFields
<1>7. IsRed(t) <=> c = "red"
  BY NodeRed
<1> HIDE DEF t
<1>8. e.tree = z /\ (e.balance <=> c = "red" \/ IsRed(x))
  BY <1>6, <1>7 DEF Unlink
<1>9. CASE IsRed(x)
  <2>1. c = "black"
    BY <1>1, <1>3, <1>9 DEF Colors
  <2>2. h + 1 = b
    BY <1>2, <2>1, BlackIs
  <2> HIDE DEF e, h
  <2>3. Legal(z, b)
    BY <1>1, <1>3, <1>9, <2>2, LegalPaint
  <2> HIDE DEF z
  <2>4. Mended(e, Keys(t) \ {k}, c, b)
    BY <1>4, <1>5, <1>8, <1>9, <2>3 DEF Mended
  <2> QED BY <2>4 DEF e, t
<1>10. CASE ~IsRed(x)
  <2>1. Legal(z, h)
    BY <1>1, <1>10, LegalBlack
  <2>2. c = "red" => h = b
    BY <1>2, BlackIs
  <2>3. c # "red" => h = b - 1
    BY <1>2, <1>3, BlackIs DEF Colors
  <2> HIDE DEF e, h, z
  <2>4. Mended(e, Keys(t) \ {k}, c, b)
    BY <1>4, <1>5, <1>8, <1>10, <2>1, <2>2, <2>3 DEF Mended
  <2> QED BY <2>4 DEF e, t
<1> QED BY <1>9, <1>10

\* The leftmost node has the least of the segments.
Least(k, S) == k \in S /\ \A m \in S : m = k \/ Index!mm_cmp_node(k, m)

LEMMA LeftmostLeast == \A t \in Tree : Well(t) /\ ~t.null => Least(Leftmost[t], Keys(t))
<1> DEFINE A == {t \in Tree : Well(t) /\ ~t.null => Least(Leftmost[t], Keys(t))}
<1>1. "left" \in Sides /\ Opposite("left") = "right"
  BY DEF Sides, Opposite
<1>2. ASSUME NEW t \in Tree, ~t.null, Well(t), t.child["left"] \in A PROVE Least(Leftmost[t], Keys(t))
  <2> DEFINE x == t.child["left"]
             y == t.child["right"]
             k == t.key
  <2>1. t = Node(t.color, k, "left", x, y) /\ x \in Tree
    BY <1>1, <1>2, TreeNode
  <2>2. Leftmost[t] = IF x.null THEN k ELSE Leftmost[x]
    BY <1>2, LeftmostExists
  <2>3. x \in A
    BY <1>2
  <2> HIDE DEF x, y, k
  <2>4. Well(Node(t.color, k, "left", x, y))
    BY <1>2, <2>1
  <2>5. Well(x) /\ Well(y) /\ k \in Segments
    BY <1>1, <2>4, WellParts
  <2>6. Keys(t) = {k} \cup Keys(x) \cup Keys(y) /\ Beside(x, k, "left") /\ Beside(y, k, "right")
    BY <1>1, <2>1, <2>4, WellKeys
  <2>7. \A m \in Keys(y) : Index!mm_cmp_node(k, m) /\ m \in Segments
    <3>1. "right" # "left"
      OBVIOUS
    <3> QED BY <2>5, <2>6, <3>1, Short DEF Beside, Before, Well
  <2>8. \A m \in Keys(x) : Index!mm_cmp_node(m, k) /\ m \in Segments
    BY <2>5, <2>6, Short DEF Beside, Before, Well
  <2>9. CASE x.null
    <3>1. Keys(x) = {}
      BY <2>1, <2>9, OfNull
    <3> QED BY <2>2, <2>6, <2>7, <2>9, <3>1 DEF Least
  <2>10. CASE ~x.null
    <3> DEFINE i == Leftmost[x]
    <3>1. Least(i, Keys(x))
      BY <2>3, <2>5, <2>10
    <3>2. Leftmost[t] = i
      BY <2>2, <2>10
    <3> HIDE DEF i
    <3>3. i \in Segments /\ Index!mm_cmp_node(i, k) /\ i \in Keys(x)
      BY <2>8, <3>1 DEF Least
    <3>4. \A m \in Keys(y) : Index!mm_cmp_node(i, m)
      BY <2>5, <2>7, <3>3, CmpOrder
    <3> QED BY <2>6, <3>1, <3>2, <3>3, <3>4 DEF Least
  <2> QED BY <2>9, <2>10
<1>3. Tree \subseteq A
  <2>1. ASSUME NEW t \in Tree, ~t.null => t.child["left"] \in A /\ t.child["right"] \in A PROVE t \in A
    BY <1>2, <2>1
  <2> HIDE DEF A
  <2> QED BY <2>1, TreeSets
<1> QED BY <1>3
LEMMA TakeNode ==
    ASSUME NEW t, NEW b, Well(t), Legal(t, b), ~t.null, ~t.child["left"].null,
           \A h : LET x == t.child["left"]
                  IN Legal(x, h) => Mended(TakeLeftmost[x], Keys(x) \ {Leftmost[x]}, x.color, h)
    PROVE  Mended(TakeLeftmost[t], Keys(t) \ {Leftmost[t]}, t.color, b)
<1> DEFINE x == t.child["left"]
           y == t.child["right"]
           k == t.key
           c == t.color
           e == TakeLeftmost[x]
           i == Leftmost[x]
           z == e.tree
           h == b - Weight(c)
<1>1. "left" \in Sides /\ Opposite("left") = "right" /\ t \in Tree
  BY DEF Sides, Opposite, Well
<1>2. t = Node(c, k, "left", x, y) /\ x \in Tree
  BY <1>1, TreeNode
<1>3. Leftmost[t] = i /\ TakeLeftmost[t] = Rebalance(t, "left", e)
  BY <1>1, LeftmostExists, TakeLeftmostExists
<1>4. ~x.null /\ (Legal(x, h) => Mended(e, Keys(x) \ {i}, x.color, h))
  OBVIOUS
<1> HIDE DEF x, y, k, c, e, i
<1>5. Well(Node(c, k, "left", x, y)) /\ Legal(Node(c, k, "left", x, y), b)
  BY <1>2
<1>6. Legal(x, h) /\ Legal(y, h) /\ (c = "red" => ~IsRed(x) /\ ~IsRed(y))
  BY <1>1, <1>5, LegalDown
<1>7. b \in Nat /\ Weight(c) \in Nat
  BY <1>5, LegalParts, WeightIs
<1>8. h + Weight(c) = b
  BY <1>7
<1> HIDE DEF h
<1>9. Mended(e, Keys(x) \ {i}, x.color, h)
  BY <1>4, <1>6
<1>10. Well(z) /\ Keys(z) = Keys(x) \ {i}
  BY <1>9 DEF Mended
<1>11. i \in Keys(x)
  <2>1. Well(x)
    BY <1>1, <1>5, WellParts
  <2> QED BY <1>2, <1>4, <2>1, LeftmostLeast DEF Least, i
<1>12. Well(Node(c, k, "left", z, y)) /\ Keys(Node(c, k, "left", z, y)) = Keys(Node(c, k, "left", x, y)) \ {i}
  <2>1. Well(Node(c, k, "left", x, y)) /\ "left" \in Sides
    BY <1>1, <1>5
  <2>2. Well(y) /\ c \in Colors
    BY <2>1, WellParts
  <2>3. Keys(z) \subseteq Keys(x) /\ Keys(y) \subseteq Keys(y)
    BY <1>10
  <2>4. Keys(Node(c, k, "left", x, y)) = {k} \cup Keys(x) \cup Keys(y)
    BY <2>1, WellKeys
  <2>5. k \notin Keys(x) /\ Keys(x) \cap Keys(y) = {}
    BY <2>1, KeysDiffer
  <2> HIDE DEF z
  <2>6. Well(Node(c, k, "left", z, y)) /\ Keys(Node(c, k, "left", z, y)) = {k} \cup Keys(z) \cup Keys(y)
    BY <2>1, <2>2, <2>3, <1>10, WellSwap
  <2> QED BY <2>4, <2>5, <2>6, <1>10, <1>11
<1>13. c = "red" => x.color # "red" /\ ~IsRed(y)
  BY <1>6 DEF IsRed
<1>14. Mended(Rebalance(Node(c, k, "left", x, y), "left", e), Keys(Node(c, k, "left", z, y)), c, h + Weight(c))
  BY <1>1, <1>6, <1>9, <1>12, <1>13, RebalanceMends
<1>15. Mended(TakeLeftmost[t], Keys(t) \ {Leftmost[t]}, c, b)
  BY <1>2, <1>3, <1>8, <1>12, <1>14
<1> QED BY <1>15 DEF c

LEMMA TakeLast ==
    ASSUME NEW t, NEW b, Well(t), Legal(t, b), ~t.null, t.child["left"].null
    PROVE  Mended(TakeLeftmost[t], Keys(t) \ {Leftmost[t]}, t.color, b)
<1> DEFINE x == t.child["right"]
           y == t.child["left"]
           k == t.key
           c == t.color
<1>1. "right" \in Sides /\ Opposite("right") = "left" /\ t \in Tree
  BY DEF Sides, Opposite, Well
<1>2. t = Node(c, k, "right", x, y)
  BY <1>1, TreeNode
<1>3. Leftmost[t] = k /\ TakeLeftmost[t] = Unlink(t, "right")
  BY <1>1, LeftmostExists, TakeLeftmostExists
<1>4. y.null
  OBVIOUS
<1> HIDE DEF x, y, k, c
<1>5. Well(Node(c, k, "right", x, y)) /\ Legal(Node(c, k, "right", x, y), b)
  BY <1>2
<1>6. Mended(Unlink(Node(c, k, "right", x, y), "right"), Keys(Node(c, k, "right", x, y)) \ {k}, c, b)
  BY <1>1, <1>4, <1>5, UnlinkMends
<1>7. Mended(TakeLeftmost[t], Keys(t) \ {Leftmost[t]}, c, b)
  BY <1>2, <1>3, <1>6
<1> QED BY <1>7 DEF c

LEMMA TakeKeeps ==
    \A t \in Tree : \A b : Well(t) /\ Legal(t, b) /\ ~t.null =>
        Mended(TakeLeftmost[t], Keys(t) \ {Leftmost[t]}, t.color, b)
<1> DEFINE P(t) == \A b : Well(t) /\ Legal(t, b) /\ ~t.null =>
                       Mended(TakeLeftmost[t], Keys(t) \ {Leftmost[t]}, t.color, b)
           A == {t \in Tree : P(t)}
<1>1. ASSUME NEW t \in Tree, ~t.null, t.child["left"] \in A PROVE P(t)
  <2> SUFFICES ASSUME NEW b, Well(t), Legal(t, b)
               PROVE  Mended(TakeLeftmost[t], Keys(t) \ {Leftmost[t]}, t.color, b)
    OBVIOUS
  <2>1. CASE t.child["left"].null
    BY <1>1, <2>1, TakeLast
  <2>2. CASE ~t.child["left"].null
    <3> DEFINE x == t.child["left"]
    <3>1. Well(x)
      <4>1. "left" \in Sides
        BY DEF Sides
      <4>2. t = Node(t.color, t.key, "left", x, t.child[Opposite("left")])
        BY <1>1, <4>1, TreeNode
      <4> HIDE DEF x
      <4>3. Well(Node(t.color, t.key, "left", x, t.child[Opposite("left")]))
        BY <4>2
      <4> QED BY <4>1, <4>3, WellParts
    <3>2. \A h : Legal(x, h) => Mended(TakeLeftmost[x], Keys(x) \ {Leftmost[x]}, x.color, h)
      BY <1>1, <2>2, <3>1
    <3> QED BY <1>1, <2>2, <3>2, TakeNode
  <2> QED BY <2>1, <2>2
<1>2. Tree \subseteq A
  <2>1. ASSUME NEW t \in Tree, ~t.null => t.child["left"] \in A /\ t.child["right"] \in A PROVE t \in A
    <3>1. CASE t.null
      BY <3>1
    <3>2. CASE ~t.null
      BY <1>1, <2>1, <3>2
    <3> QED BY <3>1, <3>2
  <2> HIDE DEF A
  <2> QED BY <2>1, TreeSets
<1> QED BY <1>2

\* The node to delete: it goes, or takes the least segment of its right side.
LEMMA DeleteLast ==
    ASSUME NEW t, NEW b, Well(t), Legal(t, b), ~t.null, t.child["right"].null
    PROVE  Mended(mm_delete_node(t.key)[t], Keys(t) \ {t.key}, t.color, b)
<1> DEFINE x == t.child["left"]
           y == t.child["right"]
           k == t.key
           c == t.color
<1>1. "left" \in Sides /\ Opposite("left") = "right" /\ t \in Tree
  BY DEF Sides, Opposite, Well
<1>2. t = Node(c, k, "left", x, y)
  BY <1>1, TreeNode
<1>3. mm_delete_node(k)[t] = Unlink(t, "left")
  BY <1>1, DeleteExists
<1>4. y.null
  OBVIOUS
<1> HIDE DEF x, y, k, c
<1>5. Well(Node(c, k, "left", x, y)) /\ Legal(Node(c, k, "left", x, y), b)
  BY <1>2
<1>6. Mended(Unlink(Node(c, k, "left", x, y), "left"), Keys(Node(c, k, "left", x, y)) \ {k}, c, b)
  BY <1>1, <1>4, <1>5, UnlinkMends
<1>7. Mended(mm_delete_node(k)[t], Keys(t) \ {k}, c, b)
  BY <1>2, <1>3, <1>6
<1> QED BY <1>7 DEF c, k

LEMMA DeleteTarget ==
    ASSUME NEW t, NEW b, Well(t), Legal(t, b), ~t.null, ~t.child["right"].null
    PROVE  Mended(mm_delete_node(t.key)[t], Keys(t) \ {t.key}, t.color, b)
<1> DEFINE x == t.child["right"]
           y == t.child["left"]
           k == t.key
           c == t.color
           e == TakeLeftmost[x]
           i == Leftmost[x]
           z == e.tree
           h == b - Weight(c)
<1>1. "right" \in Sides /\ Opposite("right") = "left" /\ t \in Tree
  BY DEF Sides, Opposite, Well
<1>2. t = Node(c, k, "right", x, y) /\ x \in Tree
  BY <1>1, TreeNode
<1>3. mm_delete_node(k)[t] = Rebalance(Rekey(t, i), "right", e)
  BY <1>1, DeleteExists
<1>4. ~x.null
  OBVIOUS
<1> HIDE DEF x, y, k, c, e, i
<1>5. Rekey(t, i) = Node(c, i, "right", x, y)
  BY <1>2, NodeKey
<1>6. Well(Node(c, k, "right", x, y)) /\ Legal(Node(c, k, "right", x, y), b)
  BY <1>2
<1>7. Legal(x, h) /\ Legal(y, h) /\ (c = "red" => ~IsRed(x) /\ ~IsRed(y))
  BY <1>1, <1>6, LegalDown
<1>8. h + Weight(c) = b
  <2>1. b \in Nat /\ Weight(c) \in Nat
    BY <1>6, LegalParts, WeightIs
  <2> QED BY <2>1
<1>9. c \in Colors /\ k \in Segments /\ Well(x) /\ Well(y)
  BY <1>1, <1>6, WellParts
<1>10. Keys(t) = {k} \cup Keys(x) \cup Keys(y) /\ Beside(x, k, "right") /\ Beside(y, k, "left")
  BY <1>1, <1>2, <1>6, WellKeys
<1> HIDE DEF h
<1>11. Mended(e, Keys(x) \ {i}, x.color, h)
  BY <1>2, <1>4, <1>7, <1>9, TakeKeeps DEF e, i
<1>12. Least(i, Keys(x))
  BY <1>2, <1>4, <1>9, LeftmostLeast DEF i
<1>13. Well(z) /\ Keys(z) = Keys(x) \ {i}
  BY <1>11 DEF Mended
<1>14. Keys(x) \subseteq Segments /\ Keys(y) \subseteq Segments
  BY <1>9, Short DEF Well
<1>15. i \in Keys(x) /\ i \in Segments /\ \A m \in Keys(x) \ {i} : Index!mm_cmp_node(i, m)
  BY <1>12, <1>14 DEF Least
<1> HIDE DEF z
<1>16. "right" # "left"
  OBVIOUS
<1>17. Beside(z, i, "right")
  BY <1>13, <1>15, <1>16 DEF Beside, Before
<1>18. Beside(y, i, "left")
  <2>1. Index!mm_cmp_node(k, i)
    BY <1>10, <1>15, <1>16 DEF Beside, Before
  <2>2. \A m \in Keys(y) : Index!mm_cmp_node(m, k)
    BY <1>10 DEF Beside, Before
  <2> QED BY <1>9, <1>14, <1>15, <2>1, <2>2, CmpOrder DEF Beside, Before
<1>19. Well(Node(c, i, "right", z, y)) /\ Keys(Node(c, i, "right", z, y)) = {i} \cup Keys(z) \cup Keys(y)
  BY <1>1, <1>9, <1>13, <1>15, <1>17, <1>18, WellNode
<1>20. Keys(Node(c, i, "right", z, y)) = Keys(t) \ {k}
  <2>1. k \notin Keys(x) /\ k \notin Keys(y)
    BY <1>1, <1>6, KeysDiffer
  <2> QED BY <1>10, <1>13, <1>15, <1>19, <2>1
<1>21. c = "red" => x.color # "red" /\ ~IsRed(y)
  BY <1>7 DEF IsRed
<1>22. Mended(Rebalance(Node(c, i, "right", x, y), "right", e), Keys(Node(c, i, "right", z, y)), c, h + Weight(c))
  BY <1>1, <1>7, <1>11, <1>19, <1>21, RebalanceMends DEF z
<1>23. Mended(mm_delete_node(k)[t], Keys(t) \ {k}, c, b)
  BY <1>3, <1>5, <1>8, <1>20, <1>22
<1> QED BY <1>23 DEF c, k

LEMMA DeleteNode ==
    ASSUME NEW t, NEW b, Well(t), Legal(t, b), ~t.null, NEW k \in Segments, k \in Keys(t), k # t.key,
           NEW d \in Sides, d = IF Index!mm_cmp_node(k, t.key) THEN "left" ELSE "right",
           \A h : LET x == t.child[d]
                  IN Well(x) /\ Legal(x, h) /\ k \in Keys(x) => Mended(mm_delete_node(k)[x], Keys(x) \ {k}, x.color, h)
    PROVE  Mended(mm_delete_node(k)[t], Keys(t) \ {k}, t.color, b)
<1> DEFINE c == t.color
           j == t.key
           x == t.child[d]
           y == t.child[Opposite(d)]
           e == mm_delete_node(k)[x]
           z == e.tree
           h == b - Weight(c)
<1>1. t = Node(c, j, d, x, y) /\ t \in Tree
  BY TreeNode DEF Well
<1>2. mm_delete_node(k)[t] = Rebalance(t, d, e)
  BY <1>1, DeleteExists
<1>3. Well(x) /\ Legal(x, h) /\ k \in Keys(x) => Mended(e, Keys(x) \ {k}, x.color, h)
  OBVIOUS
<1>4. \/ d = "left" /\ Index!mm_cmp_node(k, j)
      \/ d = "right" /\ ~Index!mm_cmp_node(k, j)
  OBVIOUS
<1> HIDE DEF c, j, x, y, e
<1>5. Well(Node(c, j, d, x, y)) /\ Legal(Node(c, j, d, x, y), b)
  BY <1>1
<1>6. Legal(x, h) /\ Legal(y, h) /\ (c = "red" => ~IsRed(x) /\ ~IsRed(y))
  BY <1>5, LegalDown
<1>7. h + Weight(c) = b
  <2>1. b \in Nat /\ Weight(c) \in Nat
    BY <1>5, LegalParts, WeightIs
  <2> QED BY <2>1
<1>8. j \in Segments /\ Well(x) /\ Well(y)
  BY <1>5, WellParts
<1>9. Keys(t) = {j} \cup Keys(x) \cup Keys(y) /\ Beside(x, j, d) /\ Beside(y, j, Opposite(d))
  BY <1>1, <1>5, WellKeys
<1> HIDE DEF h
<1>10. Before(k, j, d)
  <2>1. "left" # "right" /\ k # j
    BY DEF j
  <2> QED BY <1>4, <1>8, <2>1, CmpOrder DEF Before
<1>11. k \in Keys(x)
  <2>1. k \notin Keys(y)
    <3>1. ASSUME k \in Keys(y) PROVE FALSE
      <4>1. Before(k, j, Opposite(d))
        BY <1>9, <3>1 DEF Beside
      <4>2. Before(j, k, d)
        BY <1>8, <4>1, SideOrder
      <4> QED BY <1>8, <1>10, <4>2, SideOrder
    <3> QED BY <3>1
  <2>2. k # j
    BY DEF j
  <2> QED BY <1>9, <2>1, <2>2
<1>12. Mended(e, Keys(x) \ {k}, x.color, h)
  BY <1>3, <1>6, <1>8, <1>11
<1>13. Well(z) /\ Keys(z) = Keys(x) \ {k}
  BY <1>12 DEF Mended
<1>14. Well(Node(c, j, d, z, y)) /\ Keys(Node(c, j, d, z, y)) = Keys(Node(c, j, d, x, y)) \ {k}
  <2>1. Well(Node(c, j, d, x, y))
    BY <1>5
  <2>2. Well(y) /\ c \in Colors
    BY <2>1, WellParts
  <2>3. Keys(z) \subseteq Keys(x) /\ Keys(y) \subseteq Keys(y)
    BY <1>13
  <2>4. Keys(Node(c, j, d, x, y)) = {j} \cup Keys(x) \cup Keys(y)
    BY <2>1, WellKeys
  <2>5. j \notin Keys(x) /\ Keys(x) \cap Keys(y) = {}
    BY <2>1, KeysDiffer
  <2> HIDE DEF z
  <2>6. Well(Node(c, j, d, z, y)) /\ Keys(Node(c, j, d, z, y)) = {j} \cup Keys(z) \cup Keys(y)
    BY <2>1, <2>2, <2>3, <1>13, WellSwap
  <2> QED BY <2>4, <2>5, <2>6, <1>13, <1>11
<1>15. c = "red" => x.color # "red" /\ ~IsRed(y)
  BY <1>6 DEF IsRed
<1>16. Mended(Rebalance(Node(c, j, d, x, y), d, e), Keys(Node(c, j, d, z, y)), c, h + Weight(c))
  BY <1>6, <1>12, <1>14, <1>15, RebalanceMends
<1>17. Mended(mm_delete_node(k)[t], Keys(t) \ {k}, c, b)
  BY <1>1, <1>2, <1>7, <1>14, <1>16
<1> QED BY <1>17 DEF c

LEMMA DeleteKeeps ==
    ASSUME NEW k \in Segments
    PROVE  \A t \in Tree : \A b : Well(t) /\ Legal(t, b) /\ k \in Keys(t) =>
               Mended(mm_delete_node(k)[t], Keys(t) \ {k}, t.color, b)
<1> DEFINE P(t) == \A b : Well(t) /\ Legal(t, b) /\ k \in Keys(t) =>
                       Mended(mm_delete_node(k)[t], Keys(t) \ {k}, t.color, b)
           A == {t \in Tree : P(t)}
<1>1. ASSUME NEW t \in Tree, t.null PROVE P(t)
  BY <1>1, OfNull
<1>2. ASSUME NEW t \in Tree, ~t.null, t.child["left"] \in A, t.child["right"] \in A PROVE P(t)
  <2> SUFFICES ASSUME NEW b, Well(t), Legal(t, b), k \in Keys(t)
               PROVE  Mended(mm_delete_node(k)[t], Keys(t) \ {k}, t.color, b)
    OBVIOUS
  <2>1. CASE t.key = k
    BY <1>2, <2>1, DeleteLast, DeleteTarget
  <2>2. CASE t.key # k
    <3>1. PICK d \in Sides : d = IF Index!mm_cmp_node(k, t.key) THEN "left" ELSE "right"
      BY DEF Sides
    <3>2. t.child[d] \in A
      BY <1>2, <3>1
    <3> QED BY <1>2, <2>2, <3>1, <3>2, DeleteNode
  <2> QED BY <2>1, <2>2
<1>3. Tree \subseteq A
  <2>1. ASSUME NEW t \in Tree, ~t.null => t.child["left"] \in A /\ t.child["right"] \in A PROVE t \in A
    BY <1>1, <1>2, <2>1
  <2> HIDE DEF A
  <2> QED BY <2>1, TreeSets
<1> QED BY <1>3
-----------------------------------------------------------------------------
(***************************************************************************)
(* The search.                                                             *)
(***************************************************************************)

\* r is the best fit for size among the segments S, or NULL.
Found(r, S, size) == IF Index!Fitting(S, size) = {} THEN r = NULL ELSE Least(r, Index!Fitting(S, size))

LEMMA NullNoSegment == NULL \notin Segments
<1>1. ASSUME NULL \in Segments PROVE FALSE
  <2>1. PICK a \in Sizes, b \in Addresses : <<>> = <<a, b>>
    BY <1>1 DEF Segments, NULL
  <2>2. Len(<<>>) = Len(<<a, b>>)
    BY <2>1
  <2> QED BY <2>2
<1> QED BY <1>1

LEMMA SegmentNumbers == \A k \in Segments : k[1] \in Nat
<1>1. \A k \in Segments : k[1] \in Sizes
  BY DEF Segments
<1> QED BY <1>1, SizesAssumption

LEMMA SearchKeeps ==
    ASSUME NEW size \in Nat
    PROVE  \A t \in Tree : Well(t) => Found(mm_search_node(size)[t], Keys(t), size)
<1> DEFINE A == {t \in Tree : Well(t) => Found(mm_search_node(size)[t], Keys(t), size)}
<1>1. ASSUME NEW t \in Tree, t.null, Well(t) PROVE Found(mm_search_node(size)[t], Keys(t), size)
  <2>1. mm_search_node(size)[t] = NULL
    BY <1>1, SearchExists
  <2>2. Keys(t) = {}
    BY <1>1, OfNull
  <2> QED BY <2>1, <2>2 DEF Found, Index!Fitting
<1>2. ASSUME NEW t \in Tree, ~t.null, Well(t), t.child["left"] \in A, t.child["right"] \in A
      PROVE  Found(mm_search_node(size)[t], Keys(t), size)
  <2> DEFINE x == t.child["left"]
             y == t.child["right"]
             k == t.key
             r == mm_search_node(size)[t]
             p == mm_search_node(size)[x]
             q == mm_search_node(size)[y]
             Fit(S) == Index!Fitting(S, size)
  <2>1. "left" \in Sides /\ Opposite("left") = "right" /\ "right" # "left"
    BY DEF Sides, Opposite
  <2>2. t = Node(t.color, k, "left", x, y)
    BY <1>2, <2>1, TreeNode
  <2>3. r = IF size <= k[1] THEN (IF p = NULL THEN k ELSE p) ELSE q
    BY <1>2, SearchExists
  <2>4. (Well(x) => Found(p, Keys(x), size)) /\ (Well(y) => Found(q, Keys(y), size))
    BY <1>2
  <2> HIDE DEF x, y, k, r, p, q
  <2>5. Well(Node(t.color, k, "left", x, y))
    BY <1>2, <2>2
  <2>6. k \in Segments /\ Well(x) /\ Well(y)
    BY <2>1, <2>5, WellParts
  <2>7. Keys(t) = {k} \cup Keys(x) \cup Keys(y) /\ Beside(x, k, "left") /\ Beside(y, k, "right")
    BY <2>1, <2>2, <2>5, WellKeys
  <2>8. Keys(x) \subseteq Segments /\ Keys(y) \subseteq Segments
    BY <2>6, Short DEF Well
  <2>9. \A m \in Keys(x) : Index!mm_cmp_node(m, k)
    BY <2>7 DEF Beside, Before
  <2>10. \A m \in Keys(y) : Index!mm_cmp_node(k, m)
    BY <2>1, <2>7 DEF Beside, Before
  <2>11. Found(p, Keys(x), size) /\ Found(q, Keys(y), size)
    BY <2>4, <2>6
  <2>12. Fit(Keys(x)) \subseteq Keys(x) /\ Fit(Keys(y)) \subseteq Keys(y)
    BY DEF Index!Fitting
  <2>13. CASE size <= k[1]
    <3>1. Fit(Keys(t)) = {k} \cup Fit(Keys(x)) \cup Fit(Keys(y))
      BY <2>7, <2>13 DEF Index!Fitting
    <3> HIDE DEF Fit
    <3>2. CASE Fit(Keys(x)) = {}
      <4>1. r = k
        BY <2>3, <2>11, <2>13, <3>2 DEF Found, Fit
      <4>2. Least(k, Fit(Keys(t)))
        BY <2>10, <2>12, <3>1, <3>2 DEF Least
      <4> QED BY <3>1, <4>1, <4>2 DEF Found, Fit, r
    <3>3. CASE Fit(Keys(x)) # {}
      <4>1. Least(p, Fit(Keys(x)))
        BY <2>11, <3>3 DEF Found, Fit
      <4>2. p \in Keys(x) /\ p \in Segments
        BY <2>8, <2>12, <4>1 DEF Least
      <4>3. p # NULL
        BY <4>2, NullNoSegment
      <4>4. r = p
        BY <2>3, <2>13, <4>3
      <4>5. Index!mm_cmp_node(p, k) /\ \A m \in Keys(y) : Index!mm_cmp_node(p, m)
        BY <2>6, <2>8, <2>9, <2>10, <4>2, CmpOrder
      <4>6. Least(p, Fit(Keys(t)))
        BY <2>12, <3>1, <4>1, <4>5 DEF Least
      <4> QED BY <3>1, <4>4, <4>6 DEF Found, Fit, r
    <3> QED BY <3>2, <3>3
  <2>14. CASE ~(size <= k[1])
    <3>1. \A m \in Keys(x) : ~(size <= m[1])
      <4>1. \A m \in Keys(x) : m[1] \in Nat /\ k[1] \in Nat
        BY <2>6, <2>8, SegmentNumbers
      <4>2. \A m \in Keys(x) : m[1] <= k[1]
        BY <2>9, <4>1 DEF Index!mm_cmp_node
      <4> QED BY <2>14, <4>1, <4>2
    <3>2. Fit(Keys(t)) = Fit(Keys(y))
      BY <2>7, <2>14, <3>1 DEF Index!Fitting
    <3>3. r = q
      BY <2>3, <2>14
    <3> QED BY <2>11, <3>2, <3>3 DEF Found, Fit, r
  <2> QED BY <2>13, <2>14
<1>3. Tree \subseteq A
  <2>1. ASSUME NEW t \in Tree, ~t.null => t.child["left"] \in A /\ t.child["right"] \in A PROVE t \in A
    BY <1>1, <1>2, <2>1
  <2> HIDE DEF A
  <2> QED BY <2>1, TreeSets
<1> QED BY <1>3

\* The least of the fitting segments is the best fit.
LEMMA LeastFits ==
    ASSUME NEW S \in SUBSET Segments, NEW size, NEW k, Least(k, Index!Fitting(S, size))
    PROVE  Index!BestFit(S, size) = k
<1> DEFINE F == Index!Fitting(S, size)
           B(i) == \A m \in F : m = i \/ Index!mm_cmp_node(i, m)
<1>1. F \subseteq Segments
  BY DEF Index!Fitting
<1>2. k \in F /\ B(k)
  BY DEF Least
<1>3. \A i \in F : B(i) => i = k
  <2>1. \A i, m \in Segments : Index!mm_cmp_node(i, m) => ~Index!mm_cmp_node(m, i)
    BY CmpOrder
  <2> HIDE DEF F
  <2> QED BY <1>1, <1>2, <2>1
<1>4. Index!BestFit(S, size) = CHOOSE i \in F : B(i)
  BY DEF Index!BestFit
<1> HIDE DEF F, B
<1> QED BY <1>2, <1>3, <1>4

-----------------------------------------------------------------------------
(***************************************************************************)
(* The theorems.                                                           *)
(***************************************************************************)

\* The inductive invariant: a search tree with legal colours, a black root
\* and one black height.
TreeInv == Well(root) /\ ~IsRed(root) /\ \E b : Legal(root, b)

LEMMA RootPainted ==
    ASSUME NEW t, NEW b, Well(t), Legal(t, b)
    PROVE  /\ Well(Paint(t, "black")) /\ Keys(Paint(t, "black")) = Keys(t)
           /\ ~IsRed(Paint(t, "black")) /\ \E h : Legal(Paint(t, "black"), h)
<1>1. Well(Paint(t, "black")) /\ Keys(Paint(t, "black")) = Keys(t)
  BY WellPaint, BlackIs
<1>2. ~IsRed(Paint(t, "black"))
  BY PaintNotRed
<1>3. \E h : Legal(Paint(t, "black"), h)
  <2>1. CASE IsRed(t)
    BY <2>1, LegalPaint
  <2>2. CASE ~IsRed(t)
    BY <2>2, LegalBlack
  <2> QED BY <2>1, <2>2
<1> QED BY <1>1, <1>2, <1>3

LEMMA InitTree == Init => TreeInv /\ Keys(root) = {}
<1>1. Sentinel \in Tree /\ Sentinel.null /\ ~IsRed(Sentinel)
  BY SentinelIn, SentinelNull
<1>2. Keys(Sentinel) = {} /\ Well(Sentinel)
  BY <1>1, OfNull DEF Well
<1>3. Legal(Sentinel, 0)
  BY LegalSentinel
<1> HIDE DEF Sentinel
<1> QED BY <1>1, <1>2, <1>3 DEF Init, TreeInv

LEMMA InsertStep ==
    ASSUME TreeInv, NEW k \in Segments, mm_insert(k)
    PROVE  TreeInv' /\ k \notin Keys(root) /\ Keys(root') = Keys(root) \cup {k}
<1> DEFINE r == mm_insert_node(k)[root]
<1>1. Well(root) /\ ~IsRed(root) /\ k \notin Keys(root) /\ root' = Paint(r, "black")
  BY DEF TreeInv, mm_insert
<1>2. PICK b : Legal(root, b)
  BY DEF TreeInv
<1>3. Inserted(root, r, k, b)
  BY <1>1, <1>2, InsertKeeps DEF Well
<1> HIDE DEF r
<1>4. Well(r) /\ Keys(r) = Keys(root) \cup {k} /\ Legal(r, b)
  BY <1>1, <1>3 DEF Inserted
<1>5. /\ Well(root') /\ Keys(root') = Keys(r)
      /\ ~IsRed(root') /\ \E h : Legal(root', h)
  BY <1>1, <1>4, RootPainted
<1> QED BY <1>1, <1>4, <1>5 DEF TreeInv

LEMMA DeleteStep ==
    ASSUME TreeInv, NEW k \in Segments, mm_delete(k)
    PROVE  TreeInv' /\ k \in Keys(root) /\ Keys(root') = Keys(root) \ {k}
<1> DEFINE e == mm_delete_node(k)[root]
           r == e.tree
<1>1. Well(root) /\ k \in Keys(root) /\ root' = Paint(r, "black")
  BY DEF TreeInv, mm_delete
<1>2. PICK b : Legal(root, b)
  BY DEF TreeInv
<1>3. Mended(e, Keys(root) \ {k}, root.color, b)
  BY <1>1, <1>2, DeleteKeeps DEF Well
<1> HIDE DEF e
<1>4. Well(r) /\ Keys(r) = Keys(root) \ {k} /\ \E h : Legal(r, h)
  BY <1>3 DEF Mended
<1> HIDE DEF r
<1>5. /\ Well(root') /\ Keys(root') = Keys(r)
      /\ ~IsRed(root') /\ \E h : Legal(root', h)
  BY <1>1, <1>4, RootPainted
<1> QED BY <1>1, <1>4, <1>5 DEF TreeInv

\* Whatever is inserted and deleted, in whatever order, the root is a binary
\* search tree with legal colours and one black height.
THEOREM Invariance == Spec => []TreeInv
<1>1. Init => TreeInv
  BY InitTree
<1>2. TreeInv /\ [Next]_root => TreeInv'
  <2> SUFFICES ASSUME TreeInv, [Next]_root PROVE TreeInv'
    OBVIOUS
  <2>1. CASE root' = root
    BY <2>1 DEF TreeInv
  <2>2. CASE Next
    BY <2>2, InsertStep, DeleteStep DEF Next
  <2> QED BY <2>1, <2>2
<1> QED BY <1>1, <1>2, PTL DEF Spec

\* The tree is ordered all the way down, so that the descent of
\* mm_delete_node finds every segment that was inserted.
THEOREM TreesOrdered == Spec => []Ordered
<1>1. TreeInv => Ordered
  BY DEF TreeInv, Well, Ordered
<1> QED BY <1>1, Invariance, PTL

\* The recolourings of insertion and deletion leave no red node with a red
\* child, a black root and a black sentinel.
THEOREM ColoursRight == Spec => []ColoursLegal
<1>1. TreeInv => ColoursLegal
  <2> HIDE DEF Sentinel
  <2> QED BY DEF TreeInv, Legal, ColoursLegal
<1> QED BY <1>1, Invariance, PTL

\* The flag *balance tells the callers of mm_delete_node the truth: all ways
\* down have as many black nodes after every operation.
THEOREM HeightsEqual == Spec => []Balanced
<1>1. TreeInv => Balanced
  <2> SUFFICES ASSUME TreeInv PROVE Balanced
    OBVIOUS
  <2>1. PICK b : BlackHeights[root] = {b}
    BY DEF TreeInv, Legal
  <2> QED BY <2>1, FS_Singleton DEF Balanced
<1> QED BY <1>1, Invariance, PTL

\* mm_search finds the best fit of all free segments, or NULL if none fits.
THEOREM SearchesBestFit == Spec => []SearchIsBestFit
<1>1. TreeInv => SearchIsBestFit
  <2> SUFFICES ASSUME TreeInv, NEW size \in Sizes
               PROVE  mm_search(size) = IF Index!Fitting(Keys(root), size) = {} THEN NULL
                                        ELSE Index!BestFit(Keys(root), size)
    BY DEF SearchIsBestFit
  <2>1. Well(root) /\ root \in Tree /\ size \in Nat
    BY SizesAssumption DEF TreeInv, Well
  <2>2. Found(mm_search_node(size)[root], Keys(root), size)
    BY <2>1, SearchKeeps
  <2>3. Keys(root) \subseteq Segments
    BY <2>1, Short DEF Well
  <2>4. Found(mm_search(size), Keys(root), size)
    BY <2>2 DEF mm_search
  <2> QED BY <2>3, <2>4, LeastFits DEF Found
<1> QED BY <1>1, Invariance, PTL

\* The tree implements the index of free segments: an insertion or deletion,
\* with all its rotations, adds or removes that one segment and no other.
THEOREM FreeIndexImplemented == Spec => ImplementsFreeIndex
<1>1. Init => Index!Init
  BY InitTree DEF Index!Init
<1>2. TreeInv /\ [Next]_root => [Index!Next]_(Keys(root))
  <2> SUFFICES ASSUME TreeInv, [Next]_root PROVE Index!Next \/ Keys(root)' = Keys(root)
    OBVIOUS
  <2>1. CASE root' = root
    BY <2>1
  <2>2. ASSUME NEW k \in Segments, mm_insert(k) PROVE Index!Next
    BY <2>2, InsertStep DEF Index!Next, Index!Insert
  <2>3. ASSUME NEW k \in Segments, mm_delete(k) PROVE Index!Next
    BY <2>3, DeleteStep DEF Index!Next, Index!Delete
  <2> QED BY <2>1, <2>2, <2>3 DEF Next
<1> QED BY <1>1, <1>2, Invariance, PTL DEF Spec, ImplementsFreeIndex, Index!Spec
=============================================================================
