-------------------------------- MODULE Heap --------------------------------
(***************************************************************************)
(* The allocator of malloclab-handout/mm.c on the heap of memlib.c.        *)
(*                                                                         *)
(* Addresses and sizes are counted in units of ALIGNMENT (8) bytes from    *)
(* mem_heap_lo().  A segment of size n at address a has its header (the    *)
(* footer of the segment before it, its size and flags) in unit a and its  *)
(* payload in the units a+1 .. a+n-1; unit a+1 holds the tree pointers     *)
(* while the segment is free.  Units 0..2 hold MM_Data, and the last unit  *)
(* of the heap a header of size 0.                                         *)
(*                                                                         *)
(* A heap is a record: brk, the units in use; seg, the headers by address; *)
(* tree, the red-black tree as the set of its keys <<size, address>> (what *)
(* module RBTree implements); and ok, FALSE once mem_sbrk has failed.      *)
(* Every routine of mm.c is an operator from heaps to heaps.               *)
(***************************************************************************)
EXTENDS FiniteSetsExt

CONSTANTS
    MM_UNIT,    \* least growth of the heap, in units (18 in mm.c)
    MAX_HEAP    \* units mem_sbrk can hand out (2621440 in config.h)

ASSUME UnitAssumption == MM_UNIT \in Nat \ {0}
ASSUME MaxHeapAssumption == MAX_HEAP \in Nat \ (0..3)

VARIABLE heap

Index == INSTANCE FreeIndex WITH Segments <- Nat \X Nat, free <- heap.tree

NULL == 0
FirstNode == 3          \* MM_DATA_SIZE
NodeUnits == 2          \* MM_NODE_SIZE: a header and the tree pointers

MutantTruncate(bytes) == bytes \div 8 + 1

\* ALIGN, MM_HEADER_SIZE and MM_ALIGN: a request in bytes as a segment size.
SegmentSize(bytes) == (bytes + 7) \div 8 + 1

mm_get_next(h, a) == a + h.seg[a].size

IsFree(h, a) == h.seg[a].size # 0 /\ ~h.seg[a].alloc

Key(h, a) == <<h.seg[a].size, a>>

mm_insert(h, a) == [h EXCEPT !.tree = @ \cup {Key(h, a)}]
mm_delete(h, a) == [h EXCEPT !.tree = @ \ {Key(h, a)}]

\* mm_init on an empty heap.
mm_init == [brk  |-> FirstNode + 1,
            seg  |-> [a \in {FirstNode} |-> [size |-> 0, alloc |-> FALSE, prev |-> NULL]],
            tree |-> {},
            ok   |-> TRUE]

MutantSplitAny(h, now, size) ==
    LET next == now + size
        end == mm_get_next(h, now)
    IN IF h.seg[now].size < size + 1
       THEN [h EXCEPT !.seg[end].prev = now]
       ELSE mm_insert([h EXCEPT !.seg =
                [x \in DOMAIN h.seg \cup {next} |->
                    IF x = next THEN [size |-> end - next, alloc |-> FALSE, prev |-> now]
                    ELSE IF x = now THEN [h.seg[now] EXCEPT !.size = size]
                    ELSE IF x = end THEN [h.seg[end] EXCEPT !.prev = next]
                    ELSE h.seg[x]]], next)

\* mm_frag_node: cut the segment down to size, unless what is left would not
\* hold a node, and put the rest into the tree.
mm_frag_node(h, now, size) ==
    LET next == now + size
        end == mm_get_next(h, now)
    IN IF h.seg[now].size < size + NodeUnits
       THEN [h EXCEPT !.seg[end].prev = now]
       ELSE mm_insert([h EXCEPT !.seg =
                [x \in DOMAIN h.seg \cup {next} |->
                    IF x = next THEN [size |-> end - next, alloc |-> FALSE, prev |-> now]
                    ELSE IF x = now THEN [h.seg[now] EXCEPT !.size = size]
                    ELSE IF x = end THEN [h.seg[end] EXCEPT !.prev = next]
                    ELSE h.seg[x]]], next)

MutantGrowPastEnd(h, n) ==
    LET ptr == h.brk - 1
    IN IF h.brk > MAX_HEAP
       THEN [h EXCEPT !.ok = FALSE]
       ELSE [h EXCEPT !.brk = @ + n,
                !.seg = [x \in DOMAIN h.seg \cup {ptr + n} |->
                    IF x = ptr + n THEN [size |-> 0, alloc |-> FALSE, prev |-> ptr]
                    ELSE IF x = ptr THEN [h.seg[ptr] EXCEPT !.size = n, !.alloc = TRUE]
                    ELSE h.seg[x]]]

\* mem_sbrk(n), and the header of the last unit becomes an allocated segment
\* of size n in front of a new last header.
Grow(h, n) ==
    LET ptr == h.brk - 1
    IN IF h.brk + n > MAX_HEAP
       THEN [h EXCEPT !.ok = FALSE]
       ELSE [h EXCEPT !.brk = @ + n,
                !.seg = [x \in DOMAIN h.seg \cup {ptr + n} |->
                    IF x = ptr + n THEN [size |-> 0, alloc |-> FALSE, prev |-> ptr]
                    ELSE IF x = ptr THEN [h.seg[ptr] EXCEPT !.size = n, !.alloc = TRUE]
                    ELSE h.seg[x]]]

\* mm_sbrk: a small request takes MM_UNIT, and gives back what it does not
\* need, one unit less than it could.  The new segment is at brk - 1.
mm_sbrk(h, n) ==
    IF n >= MM_UNIT THEN Grow(h, n)
    ELSE LET g == Grow(h, MM_UNIT)
         IN IF g.ok THEN mm_frag_node(g, h.brk - 1, n + 1) ELSE g

MutantNotMarked(h, bytes) ==
    LET size == SegmentSize(bytes)
        ptr == Index!BestFit(h.tree, size)[2]
    IN IF Index!Fitting(h.tree, size) = {}
       THEN [heap |-> mm_sbrk(h, size), ptr |-> h.brk - 1]
       ELSE [heap |-> mm_frag_node(mm_delete(h, ptr), ptr, size), ptr |-> ptr]

\* mm_malloc: the heap, and the address of the segment for the request.
mm_malloc(h, bytes) ==
    LET size == SegmentSize(bytes)
        ptr == Index!BestFit(h.tree, size)[2]
    IN IF Index!Fitting(h.tree, size) = {}
       THEN [heap |-> mm_sbrk(h, size), ptr |-> h.brk - 1]
       ELSE [heap |-> [mm_frag_node(mm_delete(h, ptr), ptr, size) EXCEPT !.seg[ptr].alloc = TRUE],
             ptr |-> ptr]

MutantForgetFooter(h, lo, hi) ==
    LET inside == {a \in DOMAIN h.seg : lo <= a /\ a < hi}
    IN [h EXCEPT !.tree = @ \ {Key(h, a) : a \in inside},
                 !.seg = [x \in (DOMAIN h.seg \ inside) \cup {lo} |->
                            IF x = lo THEN [h.seg[lo] EXCEPT !.size = hi - lo]
                            ELSE h.seg[x]]]

\* The segments from lo up to hi become one: the free ones leave the tree,
\* the sizes are added up, and the segment at hi gets a new footer before it.
Coalesce(h, lo, hi) ==
    LET inside == {a \in DOMAIN h.seg : lo <= a /\ a < hi}
    IN [h EXCEPT !.tree = @ \ {Key(h, a) : a \in inside},
                 !.seg = [x \in (DOMAIN h.seg \ inside) \cup {lo} |->
                            IF x = lo THEN [h.seg[lo] EXCEPT !.size = hi - lo]
                            ELSE IF x = hi THEN [h.seg[hi] EXCEPT !.prev = lo]
                            ELSE h.seg[x]]]

MutantFreeKeepsNode(h, now) ==
    LET prev == h.seg[now].prev
        next == mm_get_next(h, now)
        lo == IF prev # NULL /\ ~h.seg[prev].alloc THEN prev ELSE now
        hi == IF IsFree(h, next) THEN mm_get_next(h, next) ELSE next
        c == Coalesce(h, lo, hi)
    IN mm_insert([c EXCEPT !.seg[lo].alloc = FALSE, !.tree = h.tree], lo)

mm_free(h, now) ==
    LET prev == h.seg[now].prev
        next == mm_get_next(h, now)
        lo == IF prev # NULL /\ ~h.seg[prev].alloc THEN prev ELSE now
        hi == IF IsFree(h, next) THEN mm_get_next(h, next) ELSE next
    IN mm_insert([Coalesce(h, lo, hi) EXCEPT !.seg[lo].alloc = FALSE], lo)

\* Where the two loops of mm_realloc stop: at the first segment after now that
\* is not free, or at which the segments before it are large enough.
ScanEnd(h, now, size) ==
    Min({a \in DOMAIN h.seg : now < a /\ (~IsFree(h, a) \/ a - now >= size)})

\* mm_realloc of a segment, for more than 0 bytes: the heap, the segment, and
\* how many units mm_memcpy has copied.
Reallocate(h, now, bytes) ==
    LET size == SegmentSize(bytes)
        end == ScanEnd(h, now, size)
        lacking == size - (end - now)
        grown == mm_sbrk(h, lacking)
        more == IF lacking > 0 THEN mm_insert([grown EXCEPT !.seg[end].alloc = FALSE], end)
                ELSE h
        new == mm_malloc(h, bytes)
    IN IF size <= h.seg[now].size
       THEN [heap |-> mm_frag_node(h, now, size), ptr |-> now, copied |-> 0]
       ELSE IF lacking > 0 /\ h.seg[end].size # 0
       THEN [heap |-> mm_free(new.heap, now), ptr |-> new.ptr,
             copied |-> h.seg[now].size - 1]
       ELSE [heap |-> Coalesce(more, now, ScanEnd(more, now, size)), ptr |-> now, copied |-> 0]

mm_realloc(h, now, bytes) ==
    IF now = NULL
    THEN LET new == mm_malloc(h, bytes)
         IN [heap |-> new.heap, ptr |-> new.ptr, copied |-> 0]
    ELSE IF bytes = 0 THEN [heap |-> mm_free(h, now), ptr |-> now, copied |-> 0]
    ELSE Reallocate(h, now, bytes)

-----------------------------------------------------------------------------
(* Properties of a heap between two calls.                                 *)

Last == heap.brk - 1
Occupied == {a \in DOMAIN heap.seg : a # Last}

\* The list of segments, as mm_check walks it: it starts after MM_Data, ends at
\* the last unit of the heap, leaves nothing out, and every footer points to
\* the header of the segment before it.
ListIntact ==
    /\ FirstNode \in DOMAIN heap.seg /\ heap.seg[FirstNode].prev = NULL
    /\ Last \in DOMAIN heap.seg /\ heap.seg[Last].size = 0
    /\ \A a \in Occupied :
        /\ FirstNode <= a /\ a < mm_get_next(heap, a)
        /\ mm_get_next(heap, a) \in DOMAIN heap.seg
        /\ heap.seg[mm_get_next(heap, a)].prev = a
        /\ \A b \in DOMAIN heap.seg : b <= a \/ mm_get_next(heap, a) <= b

\* The tree holds the free segments under their current sizes, and nothing
\* else (mm_check compares the numbers only).
TreeMatchesList == heap.tree = {Key(heap, a) : a \in {b \in Occupied : IsFree(heap, b)}}

\* Every segment is large enough for its header and, once it is free, for the
\* pointers of a tree node, which would otherwise overwrite the next header.
SegmentsHoldNodes == \A a \in Occupied : heap.seg[a].size >= NodeUnits
=============================================================================
