------------------------------ MODULE MDriver ------------------------------
(***************************************************************************)
(* The malloc driver (malloclab-handout/mdriver.c) running any trace on    *)
(* the allocator of module Heap: it allocates, resizes and frees blocks,   *)
(* fills each one with the low byte of its index, judges what the          *)
(* allocator returns (eval_mm_valid), and measures how much of the heap    *)
(* was used (eval_mm_util).  The code runs a trace once for each; both make *)
(* the same calls on a heap set up anew, and what the allocator returns    *)
(* depends on these calls only.                                            *)
(***************************************************************************)
EXTENDS Heap

CONSTANTS
    Ids,            \* the blocks of a trace
    Number,         \* Number[i]: the index of block i in the trace
    Requests        \* the request sizes of a trace, in bytes

ASSUME IdsAssumption == 0 \notin Ids /\ IsFiniteSet(Ids)
ASSUME NumberAssumption == Number \in [Ids -> Nat]
ASSUME RequestsAssumption == Requests \subseteq Nat

VARIABLES
    blocks,     \* blocks[i], block_sizes[i]: segment and size of block i
    mem,        \* mem[u]: the block that filled unit u, 0 for anything else
    total_size, max_total_size,     \* bytes in all blocks, now and at most
    verdict     \* "running", "error" (malloc_error), "abort" (assert) or "segv"

usage == <<total_size, max_total_size>>
vars == <<heap, blocks, mem, usage, verdict>>

Units == 0..MAX_HEAP

NoBlock == [ptr |-> NULL, size |-> 0]

Live == {i \in Ids : blocks[i] # NoBlock}

\* The units of the payload a block of size bytes asks for.
Payload(b) == IF b = NoBlock THEN {}
              ELSE b.ptr + 1 .. b.ptr + (b.size + 7) \div 8

\* clear_ranges.
NoBlocks == [i \in Ids |-> NoBlock]

Init == /\ heap = mm_init
        /\ blocks = NoBlocks
        /\ mem = [u \in Units |-> 0]
        /\ total_size = 0 /\ max_total_size = 0
        /\ verdict = "running"

\* What the allocator itself writes to: the headers, and the pointers of the
\* free segments in the tree.
Overhead(h) == DOMAIN h.seg \cup {k[2] + 1 : k \in h.tree}

MutantCopyShort(m, from, to, n) ==
    [u \in Units |-> IF u - to \in 1..n - 1 THEN m[u - to + from] ELSE m[u]]

\* mm_memcpy of the n units of payload of segment `from' to segment `to'.
mm_memcpy(m, from, to, n) ==
    [u \in Units |-> IF u - to \in 1..n THEN m[u - to + from] ELSE m[u]]

\* The memory after a call that leaves heap h, with the blocks bs: what is not
\* payload of a block has no particular contents.
Settle(m, h, bs) ==
    [u \in Units |-> IF u \notin Overhead(h) /\ \E i \in Ids : u \in Payload(bs[i])
                     THEN m[u] ELSE 0]

\* index & 0xFF, which memset writes to every byte of block i; the model keeps
\* whose byte it is.
Byte(i) == Number[i] % 256

\* A byte read through the pointer newp: char is signed where this is built.
AsChar(byte) == IF byte < 128 THEN byte ELSE byte - 256

\* newp[j] != (index & 0xFF) holds for no byte of unit u.
Matches(m, u, i) == m[u] # 0 /\ AsChar(Byte(m[u])) = Byte(i)

\* memset over a payload.
Fill(m, b, i) == [u \in Units |-> IF u \in Payload(b) THEN i ELSE m[u]]

\* The checks of add_range on block b, against the ranges of all blocks but i.
add_range(b, i) ==
    LET lo == b.ptr + 1
        hi == b.ptr + (b.size + 7) \div 8
    IN /\ hi <= heap'.brk - 1
       /\ \A j \in Live \ {i} :
            LET plo == blocks[j].ptr + 1
                phi == blocks[j].ptr + (blocks[j].size + 7) \div 8
            IN ~(lo \in plo..phi) /\ ~(hi \in plo..phi)

\* remove_range: block i is not tracked any more.
remove_range(i) == [blocks EXCEPT ![i] = NoBlock]

MutantCountResized(newsize, oldsize) ==
    /\ total_size' = total_size + newsize
    /\ max_total_size' = IF total_size' > max_total_size THEN total_size' ELSE max_total_size

\* The bytes in use change from those of a block of oldsize to newsize.
Account(newsize, oldsize) ==
    /\ total_size' = total_size + (newsize - oldsize)
    /\ max_total_size' = IF total_size' > max_total_size THEN total_size' ELSE max_total_size

\* A call has returned r for block i: the driver takes the block over, or gives
\* the trace up (what it then leaves undone makes no difference: a new trace, on
\* a new heap, is all that follows).
Judge(r, i, size, kept, m) ==
    LET b == [ptr |-> r.ptr, size |-> size]
    IN /\ heap' = r.heap
       /\ blocks' = [blocks EXCEPT ![i] = b]
       /\ mem' = Fill(Settle(m, r.heap, blocks'), b, i)
       /\ Account(size, blocks[i].size)
       /\ verdict' = IF size = 0 THEN "abort"
                     ELSE IF add_range(b, i) /\ kept THEN "running" ELSE "error"

\* mem_sbrk has failed: mm_sbrk writes through the pointer -1 - MM_HEADER_SIZE.
Segv == verdict' = "segv" /\ UNCHANGED <<heap, blocks, mem, usage>>

Alloc(i, size) ==
    /\ verdict = "running" /\ i \notin Live
    /\ LET r == mm_malloc(heap, size)
       IN IF r.heap.ok THEN Judge(r, i, size, TRUE, mem) ELSE Segv

Realloc(i, size) ==
    /\ verdict = "running" /\ i \in Live
    /\ LET b == blocks[i]
           r == mm_realloc(heap, b.ptr, size)
           m == mm_memcpy(mem, b.ptr, r.ptr, r.copied)
           n == (IF size < b.size THEN size + 7 ELSE b.size + 7) \div 8
           kept == \A j \in 1..n : Matches(m, r.ptr + j, i)
       IN IF r.heap.ok THEN Judge(r, i, size, kept, m) ELSE Segv

Free(i) ==
    /\ verdict = "running" /\ i \in Live
    /\ heap' = mm_free(heap, blocks[i].ptr)
    /\ blocks' = remove_range(i)
    /\ Account(0, blocks[i].size)
    /\ mem' = Settle(mem, heap', blocks')
    /\ UNCHANGED verdict

\* The next trace: mem_reset_brk, clear_ranges and mm_init.
NewTrace == /\ verdict \in {"running", "error"}
            /\ heap' = mm_init
            /\ blocks' = NoBlocks
            /\ mem' = [u \in Units |-> 0]
            /\ total_size' = 0 /\ max_total_size' = 0
            /\ verdict' = "running"

Next == \/ \E i \in Ids : \/ \E size \in Requests : Alloc(i, size) \/ Realloc(i, size)
                          \/ Free(i)
        \/ NewTrace

Spec == Init /\ [][Next]_vars
-----------------------------------------------------------------------------
(* Properties.                                                             *)

\* The variables keep their types.
TypeOK == /\ heap.brk \in 0..MAX_HEAP /\ heap.ok = TRUE
          /\ DOMAIN heap.seg \subseteq 0..MAX_HEAP
          /\ \A a \in DOMAIN heap.seg :
                heap.seg[a] \in [size: 0..MAX_HEAP, alloc: BOOLEAN, prev: 0..MAX_HEAP]
          /\ heap.tree \subseteq (0..MAX_HEAP) \X (0..MAX_HEAP)
          /\ blocks \in [Ids -> [ptr: 0..MAX_HEAP, size: Nat]]
          /\ mem \in [Units -> Ids \cup {0}]
          /\ total_size \in Nat /\ max_total_size \in Nat
          /\ verdict \in {"running", "error", "abort", "segv"}

\* Nothing is leaked and nothing handed out twice: the allocated segments of
\* the heap are those of the blocks, one for each.
NoLeak ==
    /\ {a \in Occupied : heap.seg[a].alloc} = {blocks[i].ptr : i \in Live}
    /\ \A i, j \in Live : blocks[i].ptr = blocks[j].ptr => i = j

\* eval_mm_valid finds no fault with any trace (blocks lie in the heap, do not
\* overlap, and keep their contents through mm_realloc) but where the fault is
\* its own: a block with an index whose low byte is 128 or more does not compare
\* equal to what it was filled with when it is resized.
TraceAccepted ==
    [][verdict = "running" /\ verdict' = "error" =>
         \E i \in Live, size \in Requests : Byte(i) > 127 /\ Realloc(i, size)]_vars

\* eval_mm_util's high water mark "for an optimal allocator, i.e., no gaps and no
\* internal fragmentation" never exceeds the heap it is divided by: the heap does
\* not shrink, and what is in use is counted through every resizing.
UtilisationAtMostOne ==
    /\ total_size = FoldSet(LAMBDA i, sum : sum + blocks[i].size, 0, Ids)
    /\ total_size <= max_total_size /\ max_total_size <= 8 * heap.brk

Client == INSTANCE Arena WITH extent <- [i \in Ids |-> Payload(blocks[i])], data <- mem

\* The allocator keeps what a client expects: no operation on one block, with
\* all its splitting and coalescing, moves or overwrites another.
ImplementsArena == Client!Spec
=============================================================================
