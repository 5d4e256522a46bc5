-------------------------------- MODULE L2Heap --------------------------------
(***************************************************************************)
(* The shared L2 heap: l2_alloc.c (first fit, split, coalesce), l2_init.c  *)
(* which owns the one instance, and the system calls of l2_ecalls.c.       *)
(*                                                                         *)
(* Memory is counted in units of L2_DEFAULT_ALIGN (16 bytes): a header is  *)
(* one unit, the smallest block two. A block's header holds size,          *)
(* prev_size and the IN_USE flag; prev and next are the free-list pointers *)
(* in the payload of a free block, and stale in a used one.                *)
(***************************************************************************)
EXTENDS Integers, Sequences, FiniteSets, FiniteSetsExt, SequencesExt

CONSTANTS
    HeapUnits,      \* region_end - region_base
    L2Sizes,        \* sizes the guests ask for, in units (below 2^32 bytes)
    L2Aligns        \* alignments, in units

ASSUME L2Assumption ==
    /\ HeapUnits \in Nat /\ HeapUnits >= 2
    /\ L2Sizes \cup L2Aligns \subseteq Nat \ {0}

VARIABLES
    l2,             \* [hdr: unit -> header, head, alloc_count, free_block_count], or NoHeap
    owned           \* ghost: payload unit -> [size, align] asked for, of the live allocations

l2vars == <<l2, owned>>

Units == 1 .. HeapUnits
Nil == 0            \* block addresses are units 1 .. HeapUnits
NoHeap == [hdr |-> <<>>]
Header(size, prev_size) ==
    [size |-> size, prev_size |-> prev_size, used |-> FALSE, prev |-> Nil, next |-> Nil]

Sizes(h) == [u \in Units |-> h.hdr[u].size]

next_block(h, b) == IF b + h.hdr[b].size > HeapUnits THEN Nil ELSE b + h.hdr[b].size
prev_block(h, b) == IF h.hdr[b].prev_size = 0 THEN Nil ELSE b - h.hdr[b].prev_size

fl_push(h, b) ==
    LET h1 == [h EXCEPT !.hdr[b].prev = Nil, !.hdr[b].next = h.head]
        h2 == IF h.head = Nil THEN h1 ELSE [h1 EXCEPT !.hdr[h.head].prev = b]
    IN [h2 EXCEPT !.head = b, !.free_block_count = @ + 1]

fl_remove(h, b) ==
    LET p == h.hdr[b].prev
        n == h.hdr[b].next
        h1 == IF p # Nil THEN [h EXCEPT !.hdr[p].next = n] ELSE [h EXCEPT !.head = n]
        h2 == IF n # Nil THEN [h1 EXCEPT !.hdr[n].prev = p] ELSE h1
    IN [h2 EXCEPT !.free_block_count = @ - 1]

\* The block after b learns b's size.
TellNext(h, b) ==
    LET n == next_block(h, b) IN IF n = Nil THEN h ELSE [h EXCEPT !.hdr[n].prev_size = h.hdr[b].size]

l2_create ==
    fl_push([hdr |-> [u \in Units |-> IF u = 1 THEN Header(HeapUnits, 0) ELSE Header(0, 0)],
             head |-> Nil, alloc_count |-> 0, free_block_count |-> 0], 1)

\* The blocks met on the way from start along the links of next, to the first Nil.
Met(start, next) ==
    LET at[i \in 1 .. HeapUnits + 1] ==
            IF i = 1 THEN start ELSE IF at[i - 1] = Nil THEN Nil ELSE next[at[i - 1]]
    IN [i \in 1 .. Cardinality({j \in 1 .. HeapUnits + 1 : at[j] # Nil}) |-> at[i]]

FreeBlocks(h) == Met(h.head, [u \in Units |-> h.hdr[u].next])

Want(size, align) == ((size + align - 1) \div align) * align + 1

\* A mutant: the block after the tail keeps the size of the unsplit block.
Split_Untold(h, b, want) ==
    LET remaining == h.hdr[b].size - want
        tail == b + want
    IN IF remaining < 2 THEN h
       ELSE fl_push([h EXCEPT !.hdr[tail] = Header(remaining, want),
                              !.hdr[b].size = want], tail)

Split(h, b, want) ==
    LET remaining == h.hdr[b].size - want
        tail == b + want
        h1 == TellNext([h EXCEPT !.hdr[tail] = Header(remaining, want)], tail)
    IN IF remaining < 2 THEN h ELSE fl_push([h1 EXCEPT !.hdr[b].size = want], tail)

\* <<the heap, the block or Nil>>.
l2_alloc(h, size, align) ==
    LET free == FreeBlocks(h)
        fits == {i \in DOMAIN free : h.hdr[free[i]].size >= Want(size, align)}
        b == free[Min(fits)]
        h1 == Split(fl_remove(h, b), b, Want(size, align))
    IN IF fits = {} THEN <<h, Nil>>
       ELSE <<[h1 EXCEPT !.hdr[b].used = TRUE, !.alloc_count = @ + 1], b>>

CoalescePrev(h, b) ==
    LET p == prev_block(h, b)
        h1 == fl_remove(h, p)
    IN IF p = Nil \/ h.hdr[p].used THEN <<h, b>>
       ELSE <<TellNext([h1 EXCEPT !.hdr[p].size = @ + h.hdr[b].size], p), p>>

CoalesceNext(h, b) ==
    LET n == next_block(h, b)
        h1 == fl_remove(h, n)
    IN IF n = Nil \/ h.hdr[n].used THEN h
       ELSE TellNext([h1 EXCEPT !.hdr[b].size = @ + h.hdr[n].size], b)

l2_free(h, b) ==
    LET h1 == [h EXCEPT !.hdr[b].used = FALSE, !.alloc_count = @ - 1]
        c == CoalescePrev(h1, b)
    IN IF ~h.hdr[b].used THEN h ELSE fl_push(CoalesceNext(c[1], c[2]), c[2])

l2_largest_free(h) ==
    LET big == Max({0} \cup {h.hdr[b].size : b \in ToSet(FreeBlocks(h))}) IN IF big > 1 THEN big - 1 ELSE 0

Total(f, blocks) == MapThenSumSet(LAMBDA b : f[b], blocks)

l2_stats(h) ==
    LET free == Total(Sizes(h), ToSet(FreeBlocks(h)))
    IN [used_bytes |-> HeapUnits - free, free_bytes |-> free,
        alloc_count |-> h.alloc_count, free_block_count |-> h.free_block_count]

-----------------------------------------------------------------------------
L2Init == l2 = NoHeap /\ owned = <<>>

mgapi_l2_init == l2 = NoHeap /\ l2' = l2_create /\ UNCHANGED owned

\* The pool goes away with its allocations.
mgapi_l2_shutdown == l2 # NoHeap /\ l2' = NoHeap /\ owned' = <<>>

\* SYS_L2_ALLOC: 0 without a heap or when nothing fits. A guest holds the address of the
\* payload, one unit after the block.
h_l2_alloc(size, align) ==
    /\ l2 # NoHeap
    /\ LET r == l2_alloc(l2, size, align)
       IN /\ l2' = r[1]
          /\ owned' = IF r[2] = Nil THEN owned
                      ELSE [p \in DOMAIN owned \cup {r[2] + 1} |-> IF p = r[2] + 1 THEN [size |-> size, align |-> align] ELSE owned[p]]

\* SYS_L2_FREE of an address the guests were given, by any of them: every VM sees the pool.
h_l2_free(p) ==
    /\ l2 # NoHeap /\ l2' = l2_free(l2, p - 1)
    /\ owned' = [q \in DOMAIN owned \ {p} |-> owned[q]]

L2Next ==
    \/ mgapi_l2_init \/ mgapi_l2_shutdown
    \/ \E s \in L2Sizes, a \in L2Aligns : h_l2_alloc(s, a)
    \/ \E p \in DOMAIN owned : h_l2_free(p)

-----------------------------------------------------------------------------
\* The blocks in address order, by the sizes in the headers.
Chain(h) == Met(1, [u \in Units |-> next_block(h, u)])

\* The walker invariant of l2_alloc.c:20-22, with all that split and coalesce rely on: the
\* sizes lead from block to block to the end of the region, prev_size leads back, no two free
\* blocks touch, the free list is the free blocks linked both ways, the statistics add up, and
\* the used blocks are the live allocations, each large enough.
L2Exact ==
    l2 # NoHeap =>
    LET blocks == Chain(l2)
        free == FreeBlocks(l2)
        size(b) == l2.hdr[b].size
        n == Len(blocks)
    IN /\ blocks[n] + size(blocks[n]) = HeapUnits + 1
       /\ \A i \in 1 .. n :
            /\ size(blocks[i]) >= 2
            /\ l2.hdr[blocks[i]].prev_size = IF i = 1 THEN 0 ELSE size(blocks[i - 1])
            /\ i > 1 => l2.hdr[blocks[i]].used \/ l2.hdr[blocks[i - 1]].used
       /\ Cardinality(ToSet(free)) = Len(free)
       /\ ToSet(free) = {b \in ToSet(blocks) : ~l2.hdr[b].used}
       /\ \A i \in DOMAIN free : l2.hdr[free[i]].prev = IF i = 1 THEN Nil ELSE free[i - 1]
       /\ {b + 1 : b \in ToSet(blocks) \ ToSet(free)} = DOMAIN owned
       /\ \A p \in DOMAIN owned : owned[p].size <= size(p - 1) - 1
       /\ l2_stats(l2) = [used_bytes |-> Total(Sizes(l2), {p - 1 : p \in DOMAIN owned}),
                          free_bytes |-> HeapUnits - Total(Sizes(l2), {p - 1 : p \in DOMAIN owned}),
                          alloc_count |-> Cardinality(DOMAIN owned), free_block_count |-> Len(free)]
       /\ \A b \in ToSet(free) : l2_largest_free(l2) >= size(b) - 1

\* The alignment l2_alloc.h:50 promises, for a payload in units from a region base that is
\* aligned enough: l2_alloc only rounds the size up to it.
L2Aligned == \A p \in DOMAIN owned : (p - 1) % owned[p].align = 0

\* A state without the stale headers between blocks and the stale links of used blocks.
L2View ==
    IF l2 = NoHeap THEN <<>>
    ELSE <<owned, FreeBlocks(l2), l2.alloc_count, l2.free_block_count,
           {<<b, l2.hdr[b].size, l2.hdr[b].prev_size, l2.hdr[b].used,
              IF l2.hdr[b].used THEN Nil ELSE l2.hdr[b].prev>> : b \in ToSet(Chain(l2))}>>
=============================================================================
