------------------------------- MODULE RBTree -------------------------------
(***************************************************************************)
(* The red-black tree of free segments in malloclab-handout/mm.c.          *)
(*                                                                         *)
(* A tree is a record as struct MM_Node has it: `null' marks the sentinel  *)
(* data->null, which has a colour and no children (its pointers are 0, and *)
(* following one is an error here as it is in the code); any other node    *)
(* has the key <<size, address>>, a colour and a child on either side.     *)
(* The recursive functions of the code are recursive functions on trees,   *)
(* and those that come in two mirrored copies are written once, for the    *)
(* side d and its opposite.                                                *)
(***************************************************************************)
EXTENDS Integers, FiniteSets

CONSTANTS Sizes, Addresses

\* size_t and pointers have a width.
ASSUME SizesAssumption == Sizes \subseteq Nat /\ IsFiniteSet(Sizes)
ASSUME AddressesAssumption == Addresses \subseteq Nat /\ IsFiniteSet(Addresses)

Segments == Sizes \X Addresses

Sides == {"left", "right"}
Opposite(d) == IF d = "left" THEN "right" ELSE "left"

Colors == {"black", "red"}

Sentinel == [null |-> TRUE, color |-> "black"]

\* The trees of a height of at most n.
Trees[n \in 0..Cardinality(Segments)] ==
    [null : {TRUE}, color : Colors] \cup
    IF n = 0 THEN {}
    ELSE [null : {FALSE}, color : Colors, key : Segments, child : [Sides -> Trees[n - 1]]]

\* No tree with one node at most for each segment is higher than these.
Tree == Trees[Cardinality(Segments)]

VARIABLE root           \* data->root

Subtrees[t \in Tree] ==
    {t} \cup IF t.null THEN {} ELSE Subtrees[t.child["left"]] \cup Subtrees[t.child["right"]]

\* The nodes of a tree, and the segments they stand for.
Nodes(t) == {n \in Subtrees[t] : ~n.null}
Keys(t) == {n.key : n \in Nodes(t)}

Index == INSTANCE FreeIndex WITH free <- Keys(root)

NULL == <<>>            \* the null pointer mm_search_node may return

Put(t, d, x) == [t EXCEPT !.child[d] = x]
Paint(t, c) == [t EXCEPT !.color = c]
Rekey(t, k) == [t EXCEPT !.key = k]
PaintChildren(t, c) == [t EXCEPT !.child = [d \in Sides |-> Paint(@[d], c)]]
IsRed(t) == t.color = "red"

MutantRotateFar(t, d) == LET tmp == t.child[Opposite(d)]
                         IN Put(tmp, d, Put(t, Opposite(d), tmp.child[Opposite(d)]))

\* mm_rotate_left (d = "left"), mm_rotate_right.
mm_rotate(t, d) == LET tmp == t.child[Opposite(d)]
                   IN Put(tmp, d, Put(t, Opposite(d), tmp.child[d]))

MutantSearchStrict(size) ==
    LET search[t \in Tree] ==
            IF t.null THEN NULL
            ELSE IF size < t.key[1]
                 THEN LET ptr == search[t.child["left"]]
                      IN IF ptr = NULL THEN t.key ELSE ptr
                 ELSE search[t.child["right"]]
    IN search

mm_search_node(size) ==
    LET search[t \in Tree] ==
            IF t.null THEN NULL
            ELSE IF size <= t.key[1]
                 THEN LET ptr == search[t.child["left"]]
                      IN IF ptr = NULL THEN t.key ELSE ptr
                 ELSE search[t.child["right"]]
    IN search

MutantNoStraighten(t, d) ==
    LET o == Opposite(d)
    IN IF ~IsRed(t.child[d]) \/ ~IsRed(t.child[d].child[d]) THEN t
       ELSE IF IsRed(t.child[o]) THEN Paint(PaintChildren(t, "black"), "red")
       ELSE Paint(PaintChildren(mm_rotate(t, o), "red"), "black")

\* mm_insert_node, after it has inserted into the side d of t: straighten a
\* bent pair of red nodes, then recolour or rotate.
InsertFixup(t, d) ==
    LET o == Opposite(d)
        s == IF IsRed(t.child[d]) /\ IsRed(t.child[d].child[o])
             THEN Put(t, d, mm_rotate(t.child[d], d))
             ELSE t
    IN IF ~IsRed(t.child[d]) \/ ~IsRed(s.child[d].child[d]) THEN s
       ELSE IF IsRed(s.child[o]) THEN Paint(PaintChildren(s, "black"), "red")
       ELSE Paint(PaintChildren(mm_rotate(s, o), "red"), "black")

mm_insert_node(new) ==
    LET insert[t \in Tree] ==
            IF t.null
            THEN [null |-> FALSE, color |-> "red", key |-> new, child |-> [d \in Sides |-> t]]
            ELSE LET d == IF Index!mm_cmp_node(new, t.key) THEN "left" ELSE "right"
                 IN InsertFixup(Put(t, d, insert[t.child[d]]), d)
    IN insert

(***************************************************************************)
(* mm_delete_left (d = "left") and mm_delete_right: the side d of t has    *)
(* lost a black node.  The result is the new tree and *balance, which says *)
(* whether the tree t has its old black height again.  A red sibling is    *)
(* rotated above t, and the code calls itself on t, which has a child of   *)
(* that red node as its sibling then: a black one, and no case is given    *)
(* here for another.                                                       *)
(***************************************************************************)
BlackSibling(t, d) ==
    LET o == Opposite(d)
        near == t.child[o].child[d]
        far == t.child[o].child[o]
        \* a red near nephew is rotated above its parent
        x == mm_rotate(t.child[o], o)
        s == IF IsRed(near) /\ ~IsRed(far)
             THEN Put(t, o, Put(Paint(x, "black"), o, Paint(x.child[o], "red")))
             ELSE t
        u == mm_rotate(s, d)
    IN CASE ~IsRed(t.child[o]) /\ ~IsRed(near) /\ ~IsRed(far) ->
              [tree |-> Put(Paint(t, "black"), o, Paint(t.child[o], "red")), balance |-> IsRed(t)]
         [] ~IsRed(t.child[o]) /\ (IsRed(near) \/ IsRed(far)) ->
              [tree |-> PaintChildren(Paint(u, u.child[d].color), "black"), balance |-> TRUE]

mm_delete_side(t, d) ==
    LET r == mm_rotate(t, d)
        below == BlackSibling(Paint(r.child[d], "red"), d)
    IN IF IsRed(t.child[Opposite(d)])
       THEN [tree |-> Put(Paint(r, "black"), d, below.tree), balance |-> below.balance]
       ELSE BlackSibling(t, d)

\* mm_delete_node goes on above the side d, where e.tree has replaced the subtree.
Rebalance(t, d, e) ==
    LET s == Put(t, d, e.tree)
    IN IF e.balance THEN [tree |-> s, balance |-> TRUE] ELSE mm_delete_side(s, d)

MutantAlwaysBalanced(t, d) == [tree |-> Paint(t.child[d], "black"), balance |-> TRUE]

MutantDropChild(t, d) == [tree |-> Sentinel, balance |-> IsRed(t)]

\* A node with one child at most, on the side d, is replaced by that child.
Unlink(t, d) == [tree |-> Paint(t.child[d], "black"), balance |-> IsRed(t) \/ IsRed(t.child[d])]

\* The key of the leftmost node: *target.  As in the functions below the
\* sentinel, which has no such fields, fails at once.
Leftmost[t \in Tree] == IF t.null \/ t.child["left"].null THEN t.key ELSE Leftmost[t.child["left"]]

\* mm_delete_node with a target: the leftmost node of t is taken out.
TakeLeftmost[t \in Tree] ==
    IF t.null \/ t.child["left"].null THEN Unlink(t, "right")
    ELSE Rebalance(t, "left", TakeLeftmost[t.child["left"]])

mm_delete_node(del) ==
    LET delete[t \in Tree] ==
            IF t.null \/ t.key = del
            THEN LET right == t.child["right"]
                 IN IF right.null THEN Unlink(t, "left")
                    ELSE Rebalance(Rekey(t, Leftmost[right]), "right", TakeLeftmost[right])
            ELSE LET d == IF Index!mm_cmp_node(del, t.key) THEN "left" ELSE "right"
                 IN Rebalance(t, d, delete[t.child[d]])
    IN delete

-----------------------------------------------------------------------------
mm_search(size) == mm_search_node(size)[root]

Init == root = Sentinel                         \* mm_init

mm_insert(k) == /\ k \notin Keys(root)
                /\ root' = Paint(mm_insert_node(k)[root], "black")

mm_delete(k) == /\ k \in Keys(root)
                /\ root' = Paint(mm_delete_node(k)[root].tree, "black")

Next == \E k \in Segments : mm_insert(k) \/ mm_delete(k)

Spec == Init /\ [][Next]_root
-----------------------------------------------------------------------------
(* Properties.                                                             *)

\* A binary search tree: what is left of a node is smaller, what is right of
\* it larger, all the way down (mm_check_node looks at the children only), so
\* that mm_delete_node finds every node of the tree again by descending.
SearchTree(t) == \A n \in Nodes(t) :
                    /\ \A x \in Keys(n.child["left"]) : Index!mm_cmp_node(x, n.key)
                    /\ \A x \in Keys(n.child["right"]) : Index!mm_cmp_node(n.key, x)

Ordered == SearchTree(root)

\* The colours mm_check_node expects: no red node has a red child, the root is
\* black, and none of the recolourings has painted the shared sentinel red.
NoRedPair(t) == \A n \in Nodes(t), d \in Sides : IsRed(n) => ~IsRed(n.child[d])

ColoursLegal == /\ ~IsRed(root) /\ NoRedPair(root)
                /\ \A n \in Subtrees[root] : n.null => n = Sentinel

\* The numbers of black nodes on the ways from t down to the sentinel.
BlackHeights[t \in Tree] ==
    IF t.null THEN {0}
    ELSE {h + (IF IsRed(t) THEN 0 ELSE 1) :
             h \in BlackHeights[t.child["left"]] \cup BlackHeights[t.child["right"]]}

\* All ways down have as many black nodes, which mm_check does not test: the
\* flag balance of the deletion is set whenever, and only when, it may be.
Balanced == Cardinality(BlackHeights[root]) = 1

\* mm_search "Tries to find least segment bigger than given size": it finds
\* the best fit of the whole tree, or nothing when nothing fits.
SearchIsBestFit ==
    \A size \in Sizes : mm_search(size) = IF Index!Fitting(Keys(root), size) = {}
                                          THEN NULL
                                          ELSE Index!BestFit(Keys(root), size)

\* The tree implements the index of free segments: an insertion or deletion,
\* with all its rotations, adds or removes that one segment and no other.
ImplementsFreeIndex == Index!Spec
=============================================================================
