------------------------------ MODULE Kmalloc -------------------------------
(***************************************************************************)
(* The kernel heap (kernel/kmalloc.c): blocks with headers in address      *)
(* order, first fit, splitting, and coalescing with both neighbours.  The  *)
(* unit is KMALLOC_ALIGN, 16 bytes, which is also the size of a header and *)
(* the least payload.  A heap h is a function on addresses: the header     *)
(* that stands there, or NoHdr where the magic number is not.  kmalloc and *)
(* kfree hold the heap's lock from end to end.                             *)
(***************************************************************************)
EXTENDS Integers

CONSTANT HeapUnits      \* units of the heap, with its first header

ASSUME HeapAssumption == HeapUnits \in Nat /\ HeapUnits >= 2

Addrs == 0 .. (HeapUnits - 1)
NULL == -1
NoHdr == [size |-> 0, free |-> FALSE, prev |-> NULL, next |-> NULL]

\* kmalloc_init.
OneBlock ==
    [a \in Addrs |-> IF a # 0 THEN NoHdr
                     ELSE [size |-> HeapUnits - 1, free |-> TRUE, prev |-> NULL, next |-> NULL]]

\* The blocks that a walk from g_head along next meets.
After(h, b) == IF b \in Addrs THEN h[b].next ELSE NULL
Blocks(h) ==
    LET at[i \in Nat] == IF i = 0 THEN 0 ELSE After(h, at[i - 1])
    IN  {at[i] : i \in 0 .. HeapUnits} \ {NULL}

\* The block that kmalloc(want) takes: first fit.  None: the empty set.
FirstFit(h, want) ==
    LET fits == {b \in Blocks(h) : h[b].free /\ h[b].size >= want}
    IN  {b \in fits : \A c \in fits : b <= c}

\* Header fields of a neighbour, if there is one.
SetPrev(h, b, p) == IF b = NULL THEN h ELSE [h EXCEPT ![b].prev = p]

\* Mutant of Split: the block after the new one goes on naming the old one.
SplitStale(h, b, want) ==
    LET n == b + 1 + want
        new == [size |-> h[b].size - want - 1, free |-> TRUE, prev |-> b, next |-> h[b].next]
    IN  [h EXCEPT ![n] = new, ![b].next = n, ![b].size = want]

\* The front of block b is carved off and a smaller free block is left after it.
Split(h, b, want) ==
    LET n == b + 1 + want
        new == [size |-> h[b].size - want - 1, free |-> TRUE, prev |-> b, next |-> h[b].next]
    IN  [SetPrev(h, h[b].next, n) EXCEPT ![n] = new, ![b].next = n, ![b].size = want]

\* The heap after kmalloc took block b: split when a header and a payload are left.
Taken(h, b, want) ==
    [IF h[b].size - want >= 2 THEN Split(h, b, want) ELSE h EXCEPT ![b].free = FALSE]

\* Block b swallows the block after it.
Merged(h, b) ==
    LET n == h[b].next
    IN  [SetPrev(h, h[n].next, b) EXCEPT
            ![b].size = @ + 1 + h[n].size, ![b].next = h[n].next, ![n] = NoHdr]

IsFree(h, b) == b # NULL /\ h[b].free

\* kfree of block b: the next block first, then the previous one.
Freed(h, b) ==
    LET h1 == [h EXCEPT ![b].free = TRUE]
        h2 == IF IsFree(h1, h1[b].next) THEN Merged(h1, b) ELSE h1
    IN  IF IsFree(h2, h2[b].prev) THEN Merged(h2, h2[b].prev) ELSE h2

\* The blocks of heap h lie end to end from its start to its end, each knows both
\* its neighbours, and no two neighbours are both free.
Tiled(h) ==
    \A b \in Blocks(h) :
        LET end == b + 1 + h[b].size
        IN  /\ h[b].size >= 1
            /\ h[b].next = IF end = HeapUnits THEN NULL ELSE end
            /\ end < HeapUnits => h[end].prev = b /\ ~(h[b].free /\ h[end].free)

=============================================================================
