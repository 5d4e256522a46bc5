------------------------------- MODULE SlabHeap -------------------------------
(***************************************************************************)
(* The slab allocator (memory/slab_stack.c) and a bump allocator carved    *)
(* from it (memory/bump.c).                                                *)
(*                                                                         *)
(* A bin holds blocks of MinBlock * 2^bin bytes. Its free blocks are a     *)
(* stack, the bitmap says which stacks are not empty, and each block's     *)
(* header holds its magic word. The locker makes an allocation and a free  *)
(* one step each. Sizes and counters are uint32_t of SlabBits bits.        *)
(***************************************************************************)
EXTENDS Integers, Sequences, FiniteSets, FiniteSetsExt, SequencesExt

CONSTANTS
    SlabBits,       \* width of uint32_t
    MinLog,         \* SLAB_MIN_BLOCK = 2^MinLog
    HeaderSize,     \* SLAB_HEADER_SIZE
    Bucket,         \* bucket_counts: bin -> number of blocks, a function of 0 .. n
    Requests,       \* sizes asked for
    BumpRegion,     \* sizes of the regions a bump allocator takes
    BumpSizes,      \* sizes asked of it
    Alignments      \* alignments asked of it

\* No request comes near 4 GB: size_to_bin cuts the size with its header to 32 bits.
ASSUME SlabAssumption ==
    /\ {SlabBits, MinLog, HeaderSize} \subseteq Nat
    /\ IsFiniteSet(DOMAIN Bucket) /\ DOMAIN Bucket # {}
    /\ DOMAIN Bucket = 0 .. Cardinality(DOMAIN Bucket) - 1
    /\ \A i \in DOMAIN Bucket : Bucket[i] \in Nat
    /\ Requests \cup BumpRegion \cup BumpSizes \cup Alignments \subseteq Nat /\ 0 \notin Alignments
    /\ \A n \in Requests \cup BumpRegion : n + HeaderSize <= 2^SlabBits

\* The powers of two are positive and grow.
ASSUME PowersAssumption ==
    \A m, n \in 0 .. SlabBits + MinLog + Cardinality(DOMAIN Bucket) :
        2^n \in Nat \ {0} /\ (m <= n => 2^m <= 2^n)

VARIABLES
    slab,           \* the SlabAllocator
    want,           \* ghost: the size asked for, of each block the callers hold
    bump,           \* the BumpAllocator, or NoBump
    spans           \* ghost: the set of <<offset, size>> handed out and not rewound

slabvars == <<slab, want, bump, spans>>

SlabBins == DOMAIN Bucket
BinCount == Cardinality(SlabBins)
Block == UNION {{i} \X (0 .. Bucket[i] - 1) : i \in SlabBins}
BinSize(i) == 2^(MinLog + i)
U32(n) == n % 2^SlabBits

-----------------------------------------------------------------------------
\* ceil(log2(v + 1)) for the largest bit of v: 32 - clz(v).
BitLength(v) == CHOOSE n \in 0 .. SlabBits : 2^n > v /\ \A m \in 0 .. n - 1 : 2^m <= v

\* BinCount when no bin is large enough. v is total - 1 cut to 32 bits; CLZ32(0) cannot
\* happen below 2^SlabBits - HeaderSize.
size_to_bin(size) ==
    LET total == size + HeaderSize
        log == BitLength(U32(total - 1))
        bin == IF log < MinLog THEN 0 ELSE log - MinLog
    IN CASE total <= 2^MinLog -> 0
         [] total > 2^MinLog /\ bin >= BinCount -> BinCount
         [] OTHER -> bin

SlabInit ==
    /\ slab = [stack  |-> [i \in SlabBins |-> [n \in 1 .. Bucket[i] |-> <<i, n - 1>>]],
               bitmap |-> {i \in SlabBins : Bucket[i] > 0},
               magic  |-> [b \in Block |-> "freed"],
               blocks_in_use |-> [i \in SlabBins |-> 0],
               peak_in_use   |-> [i \in SlabBins |-> 0],
               total_bytes_in_use |-> 0, peak_bytes_in_use |-> 0,
               alloc_count |-> 0, free_count |-> 0]
    /\ want = <<>>

NoBump == [region |-> <<>>, bytes |-> 0, offset |-> 0, peak |-> 0]

\* What slab_alloc returns: <<the allocator, the block>>, the block <<>> when it fails.
slab_alloc(a, n) ==
    LET bin == size_to_bin(n)
        top == Last(a.stack[bin])
        used == a.blocks_in_use[bin] + 1
        bytes == a.total_bytes_in_use + BinSize(bin)
        rest == Front(a.stack[bin])
    IN IF n = 0 \/ bin >= BinCount \/ bin \notin a.bitmap
       THEN <<a, <<>>>>
       ELSE <<[a EXCEPT !.stack[bin] = rest,
                        !.bitmap = IF rest = <<>> THEN @ \ {bin} ELSE @,
                        !.magic[top] = "allocated",
                        !.blocks_in_use[bin] = used,
                        !.peak_in_use[bin] = Max({@, used}),
                        !.total_bytes_in_use = bytes,
                        !.peak_bytes_in_use = Max({@, bytes}),
                        !.alloc_count = U32(@ + 1)],
              top>>

\* A mutant: a bin that was empty is not marked as having blocks again.
slab_free_NoBit(a, b) ==
    LET bin == b[1]
    IN IF a.magic[b] # "allocated" \/ Len(a.stack[bin]) >= Bucket[bin]
       THEN a
       ELSE [a EXCEPT !.stack[bin] = Append(@, b),
                      !.magic[b] = "freed",
                      !.blocks_in_use[bin] = IF @ > 0 THEN @ - 1 ELSE @,
                      !.total_bytes_in_use = IF @ >= BinSize(bin) THEN @ - BinSize(bin) ELSE 0,
                      !.free_count = U32(@ + 1)]

slab_free(a, b) ==
    LET bin == b[1]
    IN IF a.magic[b] # "allocated" \/ Len(a.stack[bin]) >= Bucket[bin]
       THEN a
       ELSE [a EXCEPT !.stack[bin] = Append(@, b),
                      !.bitmap = @ \cup {bin},
                      !.magic[b] = "freed",
                      !.blocks_in_use[bin] = IF @ > 0 THEN @ - 1 ELSE @,
                      !.total_bytes_in_use = IF @ >= BinSize(bin) THEN @ - BinSize(bin) ELSE 0,
                      !.free_count = U32(@ + 1)]

slab_block_size(a, b) == IF a.magic[b] = "allocated" THEN BinSize(b[1]) ELSE 0

\* <<allocator, the block returned, TRUE when the old block was given up>>.
slab_realloc(a, b, n) ==
    LET r == slab_alloc(a, n)
    IN CASE n = 0 -> <<slab_free(a, b), <<>>, TRUE>>
         [] n > 0 /\ slab_block_size(a, b) = 0 -> <<a, <<>>, FALSE>>
         [] n > 0 /\ slab_block_size(a, b) >= n -> <<a, b, FALSE>>
         [] n > 0 /\ slab_block_size(a, b) \in 1 .. n - 1 ->
              IF r[2] = <<>> THEN <<a, <<>>, FALSE>> ELSE <<slab_free(r[1], b), r[2], TRUE>>

-----------------------------------------------------------------------------
\* The calls. Freeing a block twice is a call the code handles; freeing the bump region
\* under the bump allocator is not, so a caller frees the blocks it was given.

Without(f, b) == [x \in DOMAIN f \ {b} |-> f[x]]
With(f, b, n) == [x \in DOMAIN f \cup {b} |-> IF x = b THEN n ELSE f[x]]

Alloc(n) ==
    LET r == slab_alloc(slab, n)
    IN slab' = r[1] /\ want' = IF r[2] = <<>> THEN want ELSE With(want, r[2], n)

Free(b) ==
    /\ b # bump.region
    /\ slab' = slab_free(slab, b) /\ want' = Without(want, b)

Realloc(b, n) ==
    LET r == slab_realloc(slab, b, n)
        kept == IF r[3] THEN Without(want, b) ELSE want
    IN /\ b # bump.region
       /\ slab' = r[1]
       /\ want' = IF r[2] = <<>> THEN kept ELSE With(kept, r[2], n)

bump_init_from_slab(n) ==
    LET r == slab_alloc(slab, n)
    IN /\ bump = NoBump /\ n > 0 /\ r[2] # <<>>
       /\ slab' = r[1] /\ want' = With(want, r[2], n)
       /\ bump' = [region |-> r[2], bytes |-> n, offset |-> 0, peak |-> 0]
       /\ spans' = {}

bump_destroy ==
    /\ bump # NoBump
    /\ slab' = slab_free(slab, bump.region) /\ want' = Without(want, bump.region)
    /\ bump' = NoBump /\ spans' = {}

bump_reset ==
    /\ bump' = [bump EXCEPT !.offset = 0, !.peak = 0] /\ spans' = {}
    /\ UNCHANGED <<slab, want>>

\* A mark is an offset; allocations at or above it are forgotten.
bump_rewind_to(mark) ==
    /\ bump' = IF mark > bump.offset THEN bump ELSE [bump EXCEPT !.offset = mark]
    /\ spans' = IF mark > bump.offset THEN spans ELSE {s \in spans : s[1] < mark}
    /\ UNCHANGED <<slab, want>>

bump_alloc_aligned(n, alignment) ==
    LET off == ((bump.offset + alignment - 1) \div alignment) * alignment
    IN /\ bump # NoBump /\ n > 0
       /\ off <= bump.bytes /\ n <= bump.bytes - off
       /\ bump' = [bump EXCEPT !.offset = off + n, !.peak = Max({@, off + n})]
       /\ spans' = spans \cup {<<off, n>>}
       /\ UNCHANGED <<slab, want>>

SlabNext ==
    \/ /\ UNCHANGED <<bump, spans>>
       /\ \/ \E n \in Requests : Alloc(n)
          \/ \E b \in Block : Free(b)
          \/ \E b \in Block, n \in Requests \cup {0} : Realloc(b, n)
    \/ \E n \in BumpRegion : bump_init_from_slab(n)
    \/ bump_destroy
    \/ bump # NoBump /\ bump_reset
    \/ \E s \in spans : \E mark \in {s[1], s[1] + s[2], bump.bytes} : bump_rewind_to(mark)
    \/ \E n \in BumpSizes, al \in Alignments : bump_alloc_aligned(n, al)

-----------------------------------------------------------------------------
\* What the bump allocator handed out and did not take back is disjoint and inside its
\* region, and the region is a block it holds.
BumpDisjoint ==
    bump # NoBump =>
        /\ slab.magic[bump.region] = "allocated" /\ bump.bytes <= BinSize(bump.region[1])
        /\ bump.offset <= bump.peak /\ bump.peak <= bump.bytes
        /\ \A s \in spans : s[1] + s[2] <= bump.offset
        /\ \A s, r \in spans : s = r \/ s[1] + s[2] <= r[1] \/ r[1] + r[2] <= s[1]

\* Every block is either held by a caller or once on its bin's stack; the bitmap, the magic
\* words and the statistics of slab_alloc, slab_free and slab_realloc say so; a block is at
\* least as large as what was asked of it; and BumpDisjoint (bump_alloc_aligned,
\* bump_rewind_to).
SlabExact ==
    LET given == DOMAIN want
        in(i) == {b \in given : b[1] = i}
    IN /\ \A i \in SlabBins :
            /\ ToSet(slab.stack[i]) = {b \in Block : b[1] = i} \ given
            /\ Len(slab.stack[i]) = Bucket[i] - Cardinality(in(i))
            /\ i \in slab.bitmap <=> slab.stack[i] # <<>>
            /\ slab.blocks_in_use[i] = Cardinality(in(i))
            /\ slab.peak_in_use[i] \in Cardinality(in(i)) .. Bucket[i]
       /\ given = {b \in Block : slab.magic[b] = "allocated"}
       /\ slab.total_bytes_in_use = MapThenSumSet(LAMBDA b : BinSize(b[1]), given)
       /\ slab.peak_bytes_in_use >= slab.total_bytes_in_use
       /\ U32(slab.alloc_count - slab.free_count) = U32(Cardinality(given))
       /\ \A b \in given : want[b] <= BinSize(b[1])
       /\ BumpDisjoint

\* A state with the two call counters reduced to their difference, which is all
\* SlabExact reads of them.
SlabView ==
    <<[slab EXCEPT !.alloc_count = U32(@ - slab.free_count), !.free_count = 0], want, bump, spans>>
=============================================================================
