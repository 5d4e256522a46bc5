------------------------------ MODULE Trashfs ------------------------------
(***************************************************************************)
(* storage/trashfs.c: the file system on a RAM region.  Every function of  *)
(* the source is an operator from the volume to what it returns, and the   *)
(* volume it leaves behind; HostFs calls them.                             *)
(*                                                                         *)
(* A volume is its bitmap, its inode table, the contents of its blocks and *)
(* the two counters the mounted handle caches.  A block's contents are     *)
(* read either as block pointers or as directory entries; what a file      *)
(* holds is never looked at and is left out.  Sizes and positions are      *)
(* counted in cells, BlockSize of which fill a block; BlockSize need not   *)
(* be a multiple of DirentSize, as 128 is not one of 48.                   *)
(***************************************************************************)
EXTENDS Integers, FiniteSets, SequencesExt

CONSTANTS
    InodeCount,      \* inode_count
    BlockCount,      \* data blocks: total_blocks - data_start
    Direct,          \* TRASHFS_DIRECT_PTRS
    PtrsPerBlock,    \* TRASHFS_PTRS_PER_BLOCK
    BlockSize,       \* TRASHFS_BLOCK_SIZE, in cells
    DirentSize,      \* TRASHFS_DIRENT_SIZE, in cells
    PathDepth        \* TRASHFS_PATH_DEPTH

ASSUME GeometryAssumption ==
    /\ {InodeCount, BlockCount, Direct, PtrsPerBlock, DirentSize, PathDepth} \subseteq Nat \ {0}
    /\ BlockSize \in Nat /\ DirentSize <= BlockSize

\* Inode and data block numbers; the inode table lies below the data blocks.
Inodes == 0..InodeCount - 1
Blocks == InodeCount..InodeCount + BlockCount - 1
RootInode == 0
BlockNone == 0

NoEntry == [inode |-> 0, type |-> "file", name |-> ""]
\* What a write leaves in a directory's block: an entry of no known name.
Junk == [inode |-> InodeCount - 1, type |-> "file", name |-> "?"]

EntsPerBlock == BlockSize \div DirentSize
ZeroBlock == [ptr |-> [i \in 0..PtrsPerBlock - 1 |-> BlockNone],
              ent |-> [i \in 0..EntsPerBlock - 1 |-> NoEntry]]

\* An inode: mode, size, the direct pointers and then the single, double
\* and triple indirect ones.
ZeroInode == [mode |-> "free", size |-> 0, ptr |-> [i \in 0..Direct + 2 |-> BlockNone]]

-----------------------------------------------------------------------------
(* mkfs and mount *)

rebuild_caches(v) ==
    [v EXCEPT !.free_blocks = Cardinality(Blocks \ v.used),
              !.free_inodes = Cardinality({i \in Inodes : v.inode[i].mode = "free"})]

\* The root directory owns the first data block from the start.
trashfs_format ==
    [used        |-> {InodeCount},
     inode       |-> [i \in Inodes |->
                        IF i = RootInode
                        THEN [ZeroInode EXCEPT !.mode = "dir", !.ptr[0] = InodeCount]
                        ELSE ZeroInode],
     data        |-> [b \in Blocks |-> ZeroBlock],
     free_blocks |-> BlockCount - 1,
     free_inodes |-> InodeCount - 1]

trashfs_mount(v) == rebuild_caches(v)

-----------------------------------------------------------------------------
(* Blocks and inodes *)

Least(S) == CHOOSE x \in S : \A y \in S : x <= y

alloc_block_v(v) ==
    IF v.used = Blocks
    THEN [vol |-> v, blk |-> BlockNone]
    ELSE LET b == Least(Blocks \ v.used)
         IN  [vol |-> [v EXCEPT !.used = @ \cup {b},
                                !.data[b] = ZeroBlock,
                                !.free_blocks = IF @ > 0 THEN @ - 1 ELSE @],
              blk |-> b]

\* The contents of a free block are never read before alloc_block_v zeroes
\* them; they are zeroed here, so that equal volumes are equal values.
free_block_v(v, S) ==
    LET freed == S \cap v.used
    IN  [v EXCEPT !.used = @ \ freed,
                  !.data = [b \in Blocks |-> IF b \in freed THEN ZeroBlock ELSE @[b]],
                  !.free_blocks = @ + Cardinality(freed)]

FreeInodes(v) == {i \in Inodes : v.inode[i].mode = "free"}

alloc_inode_v(v) == [v EXCEPT !.free_inodes = IF @ > 0 THEN @ - 1 ELSE @]

\* The pointers to follow from the inode to logical block lbn: an index
\* into the inode, then one index into each pointer block.
LbnPath(lbn) ==
    LET P == PtrsPerBlock
        s == lbn - Direct
        d == s - P
        t == d - P * P
    IN  IF s < 0              THEN <<lbn>>
        ELSE IF d < 0         THEN <<Direct, s>>
        ELSE IF t < 0         THEN <<Direct + 1, d \div P, d % P>>
        ELSE IF t < P * P * P THEN <<Direct + 2, t \div (P * P), (t \div P) % P, t % P>>
        ELSE <<>>

PtrOf(v, node, i) == IF node \in Inodes THEN v.inode[node].ptr[i] ELSE v.data[node].ptr[i]

SetPtr(v, node, i, b) ==
    IF node \in Inodes THEN [v EXCEPT !.inode[node].ptr[i] = b]
                       ELSE [v EXCEPT !.data[node].ptr[i] = b]

\* A step of bmap_alloc: slot i holds p, and n is the block to put there if it holds none.
\* Missing pointer blocks are allocated on the way and stay when a later
\* allocation fails.
Extend(a, i, n) ==
    IF n.blk = BlockNone THEN [vol |-> a.vol, node |-> a.node, ok |-> FALSE]
    ELSE [vol |-> SetPtr(n.vol, a.node, i, n.blk), node |-> n.blk, ok |-> TRUE]
Follow(a, i, p) == IF p # BlockNone THEN [a EXCEPT !.node = p] ELSE Extend(a, i, alloc_block_v(a.vol))

\* The n-th pointer of the path, if it has one; a path has at most four.
Reach(a, path, n) ==
    IF a.ok /\ n <= Len(path) THEN Follow(a, path[n], PtrOf(a.vol, a.node, path[n])) ELSE a

bmap_alloc(v, ino, lbn) ==
    LET path == LbnPath(lbn)
        start == [vol |-> v, node |-> ino, ok |-> path # <<>>]
        Result(end) == [vol |-> end.vol, blk |-> IF end.ok THEN end.node ELSE BlockNone]
    IN  Result(Reach(Reach(Reach(Reach(start, path, 1), path, 2), path, 3), path, 4))

Look(v, node, path, n) ==
    IF node # BlockNone /\ n <= Len(path) THEN PtrOf(v, node, path[n]) ELSE node

map_lbn(v, ino, lbn) ==
    LET path == LbnPath(lbn)
    IN  IF path = <<>> THEN BlockNone
        ELSE Look(v, Look(v, Look(v, PtrOf(v, ino, path[1]), path, 2), path, 3), path, 4)

\* The blocks depth pointer levels below slot value b, itself included.
Below(v, b, depth) ==
    LET Children(S) == {c \in Blocks : \E x \in S : \E i \in 0..PtrsPerBlock - 1 : v.data[x].ptr[i] = c}
        top == {b} \ {BlockNone}
        one == IF depth >= 1 THEN Children(top) ELSE {}
        two == IF depth >= 2 THEN Children(one) ELSE {}
        three == IF depth >= 3 THEN Children(two) ELSE {}
    IN  top \cup one \cup two \cup three

Depth(i) == IF i < Direct THEN 0 ELSE i - Direct + 1

OwnedBlocks(v, ino) ==
    UNION {Below(v, v.inode[ino].ptr[i], Depth(i)) : i \in 0..Direct + 2}

\* Bug: forgets what the pointer blocks point to.
free_all_blocks_TopOnly(v, ino) ==
    [free_block_v(v, {v.inode[ino].ptr[i] : i \in 0..Direct + 2}) EXCEPT !.inode[ino].ptr = ZeroInode.ptr]

free_all_blocks(v, ino) ==
    [free_block_v(v, OwnedBlocks(v, ino)) EXCEPT !.inode[ino].ptr = ZeroInode.ptr]

-----------------------------------------------------------------------------
(* Directories *)

dirent_align(off) ==
    LET pos == off % BlockSize
    IN  IF pos + DirentSize > BlockSize THEN off + BlockSize - pos ELSE off

\* The offsets a scan of a directory of dsize cells stops at.
DirOffsets(dsize) ==
    {off \in 0..dsize - DirentSize :
        dirent_align(off) = off /\ (off % BlockSize) % DirentSize = 0}

EntryIn(v, b, off) == IF b = BlockNone THEN NoEntry ELSE v.data[b].ent[(off % BlockSize) \div DirentSize]
EntryAt(v, dir, off) == EntryIn(v, map_lbn(v, dir, off \div BlockSize), off)

SetEntry(v, dir, off, e) ==
    [v EXCEPT !.data[map_lbn(v, dir, off \div BlockSize)].ent[(off % BlockSize) \div DirentSize] = e]

Live(v, dir) == {off \in DirOffsets(v.inode[dir].size) : EntryAt(v, dir, off).inode # 0}
Named(v, dir, name) == {off \in Live(v, dir) : EntryAt(v, dir, off).name = name}

dir_find_in(v, dir, name) ==
    LET First(S) == IF S = {} THEN NoEntry ELSE EntryAt(v, dir, Least(S))
    IN  First(Named(v, dir, name))

dir_is_empty(v, dir) == Live(v, dir) = {}

dir_clear_entry_in(v, dir, name) == SetEntry(v, dir, Least(Named(v, dir, name)), NoEntry)

\* A freed slot is taken first; otherwise the directory grows by one.
Grown(dir, off, g) ==
    IF g.blk = BlockNone THEN [vol |-> g.vol, off |-> off, ok |-> FALSE]
    ELSE [vol |-> [g.vol EXCEPT !.inode[dir].size = off + DirentSize], off |-> off, ok |-> TRUE]

dir_alloc_dirent_in(v, dir) ==
    LET Free(off) == map_lbn(v, dir, off \div BlockSize) # BlockNone /\ EntryAt(v, dir, off).inode = 0
        Grow(off) == Grown(dir, off, bmap_alloc(v, dir, off \div BlockSize))
        Take(free) == IF free # {} THEN [vol |-> v, off |-> Least(free), ok |-> TRUE]
                      ELSE Grow(dirent_align(v.inode[dir].size))
    IN  Take({off \in DirOffsets(v.inode[dir].size) : Free(off)})

-----------------------------------------------------------------------------
(* Paths: sequences of components *)

\* A walk is [res, cur, type, stack]; stack holds the directories ".." goes back to. Descend
\* enters what the entry e names, which has to be a directory if dir.
Descend(a, e, dir) ==
    IF e.inode = 0 THEN [a EXCEPT !.res = "NOT_FOUND"]
    ELSE IF dir /\ e.type # "dir" THEN [a EXCEPT !.res = "NOT_DIR"]
    ELSE IF dir /\ Len(a.stack) >= PathDepth THEN [a EXCEPT !.res = "INVALID_ARG"]
    ELSE [a EXCEPT !.cur = e.inode, !.type = e.type, !.stack = IF dir THEN Append(@, e.inode) ELSE @]
BackTo(a, stack) == [a EXCEPT !.stack = stack, !.cur = Last(stack), !.type = "dir"]

WalkOne(v, a, comps, i, allow_last_nondir) ==
    IF a.res # "ok" \/ comps[i] = "." THEN a
    ELSE IF comps[i] = ".." THEN BackTo(a, IF Len(a.stack) > 1 THEN Front(a.stack) ELSE a.stack)
    ELSE Descend(a, dir_find_in(v, a.cur, comps[i]), i < Len(comps) \/ ~allow_last_nondir)

AtRoot == [res |-> "ok", cur |-> RootInode, type |-> "dir", stack |-> <<RootInode>>]

path_step(v, comps, allow_last_nondir) ==
    LET after[i \in 0..Len(comps)] ==
            IF i = 0 THEN AtRoot ELSE WalkOne(v, after[i - 1], comps, i, allow_last_nondir)
    IN  after[Len(comps)]

resolve_full(v, path) == path_step(v, path, TRUE)

resolve_parent(v, path) ==
    IF path = <<>> \/ (path # <<>> /\ Last(path) \in {".", ".."})
    THEN [res |-> "INVALID_ARG", cur |-> RootInode]
    ELSE path_step(v, Front(path), FALSE)

-----------------------------------------------------------------------------
(* Files.  A handle is [inode, size, pos, is_dir]. *)

Handle(v, ino, type, append) ==
    [inode |-> ino, size |-> v.inode[ino].size, is_dir |-> type = "dir",
     pos |-> IF append THEN v.inode[ino].size ELSE 0]

\* Adds a name to a directory: the new inode becomes used only once there
\* is a slot for its entry.
AddEntry(slot, parent, ino, name, mode) ==
    IF ~slot.ok THEN [res |-> "NO_SPACE", inode |-> 0, vol |-> [slot.vol EXCEPT !.free_inodes = @ + 1]]
    ELSE [res |-> "ok", inode |-> ino,
          vol |-> SetEntry([slot.vol EXCEPT !.inode[ino] = [ZeroInode EXCEPT !.mode = mode]],
                           parent, slot.off, [inode |-> ino, type |-> mode, name |-> name])]

Create(v, parent, name, mode) ==
    IF FreeInodes(v) = {} THEN [res |-> "NO_SPACE", vol |-> v, inode |-> 0]
    ELSE AddEntry(dir_alloc_dirent_in(alloc_inode_v(v), parent), parent, Least(FreeInodes(v)), name, mode)

Opens(v, ino, type, flags) ==
    LET Open(w) == [res |-> "ok", vol |-> w, file |-> Handle(w, ino, type, "APPEND" \in flags)]
    IN  Open(IF "TRUNC" \in flags /\ type # "dir"
             THEN [free_all_blocks(v, ino) EXCEPT !.inode[ino].size = 0] ELSE v)

\* Open the entry e of the directory, or make it.
OpenEntry(v, dir, name, e, flags) ==
    LET Made(new) == IF new.res = "ok" THEN Opens(new.vol, new.inode, "file", flags)
                     ELSE [res |-> new.res, vol |-> new.vol]
    IN  IF e.inode # 0 THEN Opens(v, e.inode, e.type, flags)
        ELSE IF "CREAT" \notin flags THEN [res |-> "NOT_FOUND", vol |-> v]
        ELSE Made(Create(v, dir, name, "file"))

trashfs_open(v, path, flags) ==
    LET In(up) == IF up.res # "ok" THEN [res |-> up.res, vol |-> v]
                  ELSE OpenEntry(v, up.cur, Last(path), dir_find_in(v, up.cur, Last(path)), flags)
    IN  In(resolve_parent(v, path))

trashfs_read(f, n) ==
    LET left == IF f.pos < f.size THEN f.size - f.pos ELSE 0
    IN  [f EXCEPT !.pos = @ + IF n < left THEN n ELSE left]

\* A block written through a handle whose inode now is a directory holds
\* junk where its entries were.
Scribble(v, ino, blk, cell) ==
    IF v.inode[ino].mode = "dir" /\ cell \div DirentSize < EntsPerBlock
    THEN [v EXCEPT !.data[blk].ent[cell \div DirentSize] = Junk]
    ELSE v

\* A cell written to the block m that bmap_alloc found for it.
WriteCell(a, m) ==
    IF m.blk = BlockNone THEN [vol |-> m.vol, f |-> a.f, done |-> a.done, ok |-> FALSE]
    ELSE [vol |-> Scribble(m.vol, a.f.inode, m.blk, a.f.pos % BlockSize),
          f |-> [a.f EXCEPT !.pos = @ + 1, !.size = IF a.f.pos + 1 > @ THEN a.f.pos + 1 ELSE @],
          done |-> a.done + 1, ok |-> TRUE]

NextCell(a) ==
    IF a.ok THEN WriteCell(a, bmap_alloc(a.vol, a.f.inode, a.f.pos \div BlockSize)) ELSE a

\* The size persisted at the end is the handle's, whatever the inode's is.
trashfs_write(v, f, n) ==
    LET after[c \in 0..n] ==
            IF c = 0 THEN [vol |-> v, f |-> f, done |-> 0, ok |-> TRUE] ELSE NextCell(after[c - 1])
        Written(end) == [res |-> IF end.done = 0 /\ n > 0 THEN "NO_SPACE" ELSE "ok",
                         vol |-> [end.vol EXCEPT !.inode[f.inode].size = end.f.size],
                         file |-> end.f, done |-> end.done]
    IN  IF f.is_dir THEN [res |-> "INVALID_ARG", vol |-> v, file |-> f, done |-> 0]
        ELSE Written(after[n])

\* np is base + off; a negative one is refused.
trashfs_lseek(f, off, whence) ==
    LET base == CASE whence = "SET" -> 0 [] whence = "CUR" -> f.pos [] whence = "END" -> f.size
    IN  IF base + off < 0 THEN [res |-> "INVALID_ARG", file |-> f]
                          ELSE [res |-> "ok", file |-> [f EXCEPT !.pos = base + off]]

\* Removes the entry, the blocks and the inode.
RemoveFrom(v, parent, name, ino) ==
    LET cleared == free_all_blocks(dir_clear_entry_in(v, parent, name), ino)
    IN  [cleared EXCEPT !.inode[ino] = ZeroInode, !.free_inodes = @ + 1]

Kept(v, res) == [res |-> res, vol |-> v, gone |-> {}]

trashfs_unlink(v, path) ==
    LET Unlink(dir, e) ==
            IF e.inode = 0 THEN Kept(v, "NOT_FOUND")
            ELSE IF e.type = "dir" THEN Kept(v, "NOT_DIR")
            ELSE [res |-> "ok", vol |-> RemoveFrom(v, dir, Last(path), e.inode), gone |-> {e.inode}]
        In(up) == IF up.res # "ok" THEN Kept(v, up.res)
                  ELSE Unlink(up.cur, dir_find_in(v, up.cur, Last(path)))
    IN  In(resolve_parent(v, path))

trashfs_mkdir(v, path) ==
    LET In(up) == IF up.res # "ok" THEN Kept(v, up.res)
                  ELSE IF dir_find_in(v, up.cur, Last(path)).inode # 0 THEN Kept(v, "EXISTS")
                  ELSE Create(v, up.cur, Last(path), "dir")
    IN  In(resolve_parent(v, path))

trashfs_rmdir(v, path) ==
    LET In(ino, up) ==
            IF up.res # "ok" THEN Kept(v, up.res)
            ELSE IF Named(v, up.cur, Last(path)) = {} THEN Kept(v, "NOT_FOUND")
            ELSE [res |-> "ok", vol |-> RemoveFrom(v, up.cur, Last(path), ino), gone |-> {ino}]
        Rmdir(at) ==
            IF at.res # "ok" THEN Kept(v, at.res)
            ELSE IF at.type # "dir" THEN Kept(v, "NOT_DIR")
            ELSE IF at.cur = RootInode THEN Kept(v, "INVALID_ARG")
            ELSE IF ~dir_is_empty(v, at.cur) THEN Kept(v, "NOT_EMPTY")
            ELSE In(at.cur, resolve_parent(v, path))
    IN  Rmdir(resolve_full(v, path))

\* A directory handle is [inode, size, pos]; the scan skips free slots.
trashfs_opendir(v, path) ==
    LET Open(at) ==
            IF at.res # "ok" THEN [res |-> at.res]
            ELSE IF at.type # "dir" THEN [res |-> "NOT_DIR"]
            ELSE [res |-> "ok", dir |-> [inode |-> at.cur, size |-> v.inode[at.cur].size, pos |-> 0]]
    IN  Open(resolve_full(v, path))

trashfs_readdir(v, d) ==
    LET ahead == {off \in DirOffsets(d.size) : off >= d.pos}
        live == {off \in ahead : EntryAt(v, d.inode, off).inode # 0}
        stop == IF live # {} THEN Least(live)
                ELSE IF ahead # {} THEN CHOOSE o \in ahead : \A p \in ahead : p <= o
                ELSE d.pos - DirentSize
    IN  [have |-> live # {}, dir |-> [d EXCEPT !.pos = stop + DirentSize]]
=============================================================================
