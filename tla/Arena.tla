------------------------------- MODULE Arena -------------------------------
(***************************************************************************)
(* What a client expects of malloc, free and realloc: blocks that do not   *)
(* overlap, stay where they are, and keep what was written into them until *)
(* they are themselves resized or freed.                                   *)
(***************************************************************************)
CONSTANTS Ids, Units

VARIABLES
    extent,     \* extent[i]: the units of block i, none when it is not allocated
    data        \* data[u]: the block that was last filled over unit u

vars == <<extent, data>>

Init == extent = [i \in Ids |-> {}] /\ data \in [Units -> Ids \cup {0}]

\* The other blocks are where they were, with their contents.
Others(i) == \A j \in Ids \ {i} : /\ extent'[j] = extent[j]
                                  /\ \A u \in extent[j] : data'[u] = data[u]

\* Block i is allocated, or resized (and perhaps moved), and filled.
Place(i) == /\ extent'[i] # {}
            /\ extent'[i] \subseteq Units
            /\ \A j \in Ids \ {i} : extent'[i] \cap extent[j] = {}
            /\ \A u \in extent'[i] : data'[u] = i
            /\ Others(i)

Free(i) == extent[i] # {} /\ extent'[i] = {} /\ Others(i)

\* The heap is set up anew.
Reset == extent' = [i \in Ids |-> {}]

Next == Reset \/ \E i \in Ids : Place(i) \/ Free(i)

Spec == Init /\ [][Next]_vars
=============================================================================
