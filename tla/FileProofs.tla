----------------------------- MODULE FileProofs -----------------------------
(***************************************************************************)
(* trashfs and the guest file calls of vm_host_fs.c, for every number of   *)
(* blocks, inodes, entries per block and descriptors: no two pointers of   *)
(* the volume lead to one block, every block in use is reached, every inode*)
(* in use but the root has one name, the cached counts are exact, and the  *)
(* descriptors in use agree with the volume.                               *)
(*                                                                         *)
(* Ownership by counting references breaks in the middle of a write.  What *)
(* each call keeps instead is a Forest: every block in use gets an address *)
(* (an inode and the slots that lead to it) and every pointer leads to the *)
(* block whose address is one slot longer.  Distinct slots then lead to    *)
(* distinct blocks.  Namespace is the same for directories, Whole adds the *)
(* cached counts, and Shows(v, w) says what a call that gives up half-way  *)
(* may leave behind.                                                       *)
(*                                                                         *)
(* A file removed while a descriptor has it open is the exception: its     *)
(* inode may be another file's by the time it is written.  FilesFollow     *)
(* says so: the volume is Whole while no such write has happened (clean).  *)
(***************************************************************************)
EXTENDS HostFs, FiniteSetTheorems, WellFoundedInduction, NaturalsInduction,
        SequenceTheorems, TLAPS

\* A non-empty set of naturals has a least element.
LEMMA LeastNat ==
    ASSUME NEW S \in SUBSET Nat, S # {}
    PROVE  \E m \in S : \A k \in S : m <= k
<1> DEFINE Before == {ss \in Nat \X Nat : ss[1] < ss[2]}
<1>1. IsWellFoundedOn(Before, Nat)
  BY NatLessThanWellFounded DEF OpToRel
<1> HIDE DEF Before
<1>2. PICK m \in S : \A k \in S : ~(<<k, m>> \in Before)
  BY <1>1, WFMin
<1>3. ASSUME NEW k \in S
      PROVE  m <= k
  <2>1. <<k, m>> \in Nat \X Nat /\ ~(<<k, m>> \in Before)
    BY <1>2
  <2> QED
    BY <2>1 DEF Before
<1> QED
  BY <1>3

\* Induction over the naturals, about a set.
LEMMA SetOfAllNats ==
    ASSUME NEW Good \in SUBSET Nat, 0 \in Good, \A n \in Good : n + 1 \in Good
    PROVE  Good = Nat
<1> SUFFICES ASSUME Nat \ Good # {} PROVE FALSE
  OBVIOUS
<1>1. PICK m \in Nat \ Good : \A k \in Nat \ Good : m <= k
  BY LeastNat, Nat \ Good \in SUBSET Nat
<1>2. m # 0 /\ m - 1 \in Nat /\ m - 1 + 1 = m /\ ~(m <= m - 1)
  BY <1>1
<1>3. m - 1 \in Good
  BY <1>1, <1>2
<1> QED
  BY <1>1, <1>2, <1>3

LEMMA ModParts ==
    ASSUME NEW M \in Nat \ {0}, NEW a \in Int
    PROVE  /\ (a % M) \in 0 .. M - 1 /\ a \div M \in Int
           /\ a = (M * (a \div M)) + (a % M)
  BY SMTT(30)

-----------------------------------------------------------------------------
(***************************************************************************)
(* The file volume.  The pointers of a volume are a forest: its roots are  *)
(* the inodes, its nodes the blocks in use, and the address of a block is  *)
(* the inode and the indices that lead to it (Forest).  An address says    *)
(* which cells of which file a block holds, so that an operation need only *)
(* be followed on the blocks in use, their addresses and what they hold.   *)
(***************************************************************************)
AnyName == STRING \cup {"", "?"}
Pointer == Blocks \cup {BlockNone}
DirEntry == [inode : Inodes, type : {"file", "dir"}, name : AnyName]
InodeRec == [mode : {"free", "file", "dir"}, size : Nat, ptr : [0 .. Direct + 2 -> Pointer]]
BlockRec == [ptr : [0 .. PtrsPerBlock - 1 -> Pointer], ent : [0 .. EntsPerBlock - 1 -> DirEntry]]
Volume == [used : SUBSET Blocks, inode : [Inodes -> InodeRec], data : [Blocks -> BlockRec],
           free_blocks : Nat, free_inodes : Nat]

\* The counter of free blocks of the mounted handle.
BlocksCounted(v) == v.free_blocks = Cardinality(Blocks \ v.used)

Nodes(v) == Inodes \cup v.used
Width(n) == IF n \in Inodes THEN 0 .. Direct + 2 ELSE 0 .. PtrsPerBlock - 1

\* The inode and the indices that lead to node n, by the addresses of the blocks.
Home(addr, n) == IF n \in Inodes THEN <<n>> ELSE addr[n]

\* The inode, its slot, and an index for each pointer block on the way.
Addresses ==
    {s \in Seq(Nat) : /\ 2 <= Len(s) /\ Len(s) <= Depth(s[2]) + 2
                      /\ s[1] \in Inodes /\ s[2] \in 0 .. Direct + 2
                      /\ \A j \in 3 .. Len(s) : s[j] \in 0 .. PtrsPerBlock - 1}

Forest(v, addr) ==
    /\ \A n \in Nodes(v) : \A k \in Width(n) : PtrOf(v, n, k) # BlockNone =>
           PtrOf(v, n, k) \in v.used /\ addr[PtrOf(v, n, k)] = Append(Home(addr, n), k)
    /\ \A b \in v.used : addr[b] \in Addresses
    /\ \A b \in v.used : \E n \in Nodes(v) : \E k \in Width(n) : PtrOf(v, n, k) = b
    /\ \A b, c \in v.used : addr[b] = addr[c] => b = c
    /\ \A i \in Inodes : v.inode[i].mode = "free" => \A k \in Width(i) : PtrOf(v, i, k) = BlockNone

\* w is v with a new block b in slot k of node n.
Linked(v, w, n, k, b) ==
    /\ w.used = v.used \cup {b}
    /\ \A m \in Nodes(v) : \A l \in Width(m) :
           PtrOf(w, m, l) = IF m = n /\ l = k THEN b ELSE PtrOf(v, m, l)
    /\ \A l \in Width(b) : PtrOf(w, b, l) = BlockNone
    /\ \A i \in Inodes : w.inode[i].mode = v.inode[i].mode

LEMMA Geometry ==
    /\ Inodes \subseteq Nat /\ Blocks \subseteq Nat \ {0} /\ Inodes \cap Blocks = {}
    /\ RootInode \in Inodes /\ InodeCount \in Blocks /\ BlockNone \notin Blocks
    /\ EntsPerBlock \in Nat \ {0} /\ Direct \in Nat \ {0} /\ PtrsPerBlock \in Nat \ {0}
    /\ IsFiniteSet(Inodes) /\ IsFiniteSet(Blocks) /\ InodeCount \in Nat \ {0}
    /\ BlockSize \in Nat \ {0} /\ DirentSize \in Nat \ {0} /\ DirentSize <= BlockSize
<1>1. /\ InodeCount \in Nat \ {0} /\ BlockCount \in Nat \ {0} /\ Direct \in Nat \ {0}
      /\ PtrsPerBlock \in Nat \ {0} /\ DirentSize \in Nat \ {0} /\ BlockSize \in Nat /\ DirentSize <= BlockSize
  BY GeometryAssumption
<1>2. BlockSize \div DirentSize \in Nat \ {0}
  <2> DEFINE q == BlockSize \div DirentSize
             r == BlockSize % DirentSize
  <2>1. q \in Int /\ r \in 0 .. DirentSize - 1 /\ BlockSize = DirentSize * q + r
    BY <1>1
  <2> HIDE DEF q, r
  <2>2. q <= 0 => DirentSize * q <= 0
    BY <1>1, <2>1
  <2>3. q > 0
    BY <1>1, <2>1, <2>2
  <2> QED
    BY <2>1, <2>3 DEF q
<1>3. IsFiniteSet(0 .. InodeCount - 1) /\ IsFiniteSet(InodeCount .. InodeCount + BlockCount - 1)
  BY <1>1, FS_Interval
<1> QED
  BY <1>1, <1>2, <1>3 DEF Inodes, Blocks, RootInode, BlockNone, EntsPerBlock

LEMMA LeastMember ==
    ASSUME NEW S \in SUBSET Nat, S # {}
    PROVE  Least(S) \in S
  BY LeastNat DEF Least

\* An empty block, as alloc_block_v leaves it.
LEMMA ZeroBlockFacts ==
    /\ ZeroBlock \in BlockRec /\ NoEntry \in DirEntry /\ NoEntry.inode = 0
    /\ \A k \in 0 .. PtrsPerBlock - 1 : ZeroBlock.ptr[k] = BlockNone
    /\ \A e \in 0 .. EntsPerBlock - 1 : ZeroBlock.ent[e] = NoEntry
    /\ ZeroInode \in InodeRec /\ ZeroInode.mode = "free" /\ ZeroInode.size = 0
    /\ \A k \in 0 .. Direct + 2 : ZeroInode.ptr[k] = BlockNone
<1>1. NoEntry \in DirEntry
  BY Geometry DEF NoEntry, DirEntry, AnyName, RootInode
<1>2. ZeroBlock \in BlockRec
  BY <1>1 DEF ZeroBlock, BlockRec, Pointer
<1>3. ZeroInode \in InodeRec
  BY DEF ZeroInode, InodeRec, Pointer
<1> QED
  BY <1>1, <1>2, <1>3 DEF ZeroBlock, ZeroInode, NoEntry

\* Taking one element out of a finite set, in numbers.
LEMMA OneLess ==
    ASSUME NEW S, IsFiniteSet(S), NEW x \in S
    PROVE  /\ Cardinality(S) \in Nat \ {0}
           /\ Cardinality(S \ {x}) = Cardinality(S) - 1
<1>1. Cardinality(S) \in Nat /\ Cardinality(S \ {x}) = Cardinality(S) - 1
  BY FS_CardinalityType, FS_RemoveElement
<1>2. Cardinality(S \ {x}) \in Nat
  BY FS_RemoveElement, FS_CardinalityType
<1> QED
  BY <1>1, <1>2

\* alloc_block_v fails when the volume is full, and otherwise takes a free block.
AllocVol(v, b) ==
    [used |-> v.used \cup {b}, inode |-> v.inode, data |-> [v.data EXCEPT ![b] = ZeroBlock],
     free_blocks |-> IF v.free_blocks > 0 THEN v.free_blocks - 1 ELSE v.free_blocks,
     free_inodes |-> v.free_inodes]

LEMMA AllocBlock ==
    ASSUME NEW v \in Volume
    PROVE  \/ alloc_block_v(v) = [vol |-> v, blk |-> BlockNone]
           \/ \E b \in Blocks \ v.used : alloc_block_v(v) = [vol |-> AllocVol(v, b), blk |-> b]
<1>1. CASE v.used = Blocks
  BY <1>1 DEF alloc_block_v
<1>2. CASE v.used # Blocks
  <2>1. Blocks \ v.used \in SUBSET Nat /\ Blocks \ v.used # {}
    BY <1>2, Geometry DEF Volume
  <2>2. Least(Blocks \ v.used) \in Blocks \ v.used
    BY <2>1, LeastMember
  <2> DEFINE b == Least(Blocks \ v.used)
  <2>3. alloc_block_v(v) = [vol |-> [v EXCEPT !.used = @ \cup {b}, !.data[b] = ZeroBlock,
                                              !.free_blocks = IF @ > 0 THEN @ - 1 ELSE @],
                            blk |-> b]
    BY <1>2 DEF alloc_block_v
  <2>5. b \in Blocks \ v.used
    BY <2>2
  <2> HIDE DEF b
  <2>4. [v EXCEPT !.used = @ \cup {b}, !.data[b] = ZeroBlock,
                  !.free_blocks = IF @ > 0 THEN @ - 1 ELSE @] = AllocVol(v, b)
    <3> DEFINE x == [v EXCEPT !.used = @ \cup {b}, !.data[b] = ZeroBlock,
                              !.free_blocks = IF @ > 0 THEN @ - 1 ELSE @]
    <3>1. /\ x.used = v.used \cup {b} /\ x.inode = v.inode /\ x.data = [v.data EXCEPT ![b] = ZeroBlock]
          /\ x.free_blocks = IF v.free_blocks > 0 THEN v.free_blocks - 1 ELSE v.free_blocks
          /\ x.free_inodes = v.free_inodes
      BY DEF Volume
    <3>2. x \in Volume
      <4>1. /\ v.used \cup {b} \in SUBSET Blocks /\ [v.data EXCEPT ![b] = ZeroBlock] \in [Blocks -> BlockRec]
            /\ (IF v.free_blocks > 0 THEN v.free_blocks - 1 ELSE v.free_blocks) \in Nat
        BY <2>5, ZeroBlockFacts DEF Volume
      <4>2. \A u \in SUBSET Blocks, d \in [Blocks -> BlockRec], f \in Nat :
                [v EXCEPT !.used = u, !.data = d, !.free_blocks = f] \in Volume
        BY DEF Volume
      <4>3. x = [v EXCEPT !.used = v.used \cup {b}, !.data = [v.data EXCEPT ![b] = ZeroBlock],
                          !.free_blocks = IF v.free_blocks > 0 THEN v.free_blocks - 1 ELSE v.free_blocks]
        BY DEF Volume
      <4> QED
        BY <4>1, <4>2, <4>3
    <3> HIDE DEF x
    <3>3. x = [used |-> x.used, inode |-> x.inode, data |-> x.data, free_blocks |-> x.free_blocks,
               free_inodes |-> x.free_inodes]
      BY <3>2 DEF Volume
    <3>4. x = AllocVol(v, b)
      BY <3>1, <3>3 DEF AllocVol
    <3> QED
      BY <3>4 DEF x
  <2> QED
    BY <2>2, <2>3, <2>4 DEF b
<1> QED
  BY <1>1, <1>2

LEMMA AllocFields ==
    ASSUME NEW v \in Volume, NEW b \in Blocks \ v.used
    PROVE  /\ AllocVol(v, b) \in Volume
           /\ AllocVol(v, b).used = v.used \cup {b}
           /\ AllocVol(v, b).inode = v.inode
           /\ AllocVol(v, b).data = [v.data EXCEPT ![b] = ZeroBlock]
           /\ AllocVol(v, b).free_inodes = v.free_inodes
           /\ BlocksCounted(v) => BlocksCounted(AllocVol(v, b))
<1> DEFINE w == AllocVol(v, b)
<1>1. /\ w.used = v.used \cup {b} /\ w.inode = v.inode /\ w.free_inodes = v.free_inodes
      /\ w.data = [v.data EXCEPT ![b] = ZeroBlock]
      /\ w.free_blocks = IF v.free_blocks > 0 THEN v.free_blocks - 1 ELSE v.free_blocks
      /\ w = [used |-> w.used, inode |-> w.inode, data |-> w.data, free_blocks |-> w.free_blocks,
              free_inodes |-> w.free_inodes]
  BY DEF AllocVol
<1> HIDE DEF w
<1>2. w \in Volume
  <2>1. w.used \in SUBSET Blocks /\ w.data \in [Blocks -> BlockRec] /\ w.free_blocks \in Nat
    BY <1>1, ZeroBlockFacts DEF Volume
  <2> QED
    BY <1>1, <2>1 DEF Volume
<1>3. ASSUME BlocksCounted(v) PROVE BlocksCounted(w)
  <2> DEFINE S == Blocks \ v.used
  <2>1. IsFiniteSet(S) /\ b \in S
    BY Geometry, FS_Subset
  <2>2. Cardinality(S) \in Nat \ {0} /\ Cardinality(S \ {b}) = Cardinality(S) - 1
    <3> HIDE DEF S
    <3> QED
      BY <2>1, OneLess
  <2>3. Blocks \ w.used = S \ {b}
    BY <1>1
  <2>5. v.free_blocks = Cardinality(S)
    BY <1>3 DEF BlocksCounted
  <2>6. w.free_blocks = Cardinality(Blocks \ w.used)
    <3>1. w.free_blocks = IF v.free_blocks > 0 THEN v.free_blocks - 1 ELSE v.free_blocks
      BY <1>1
    <3> HIDE DEF S
    <3>2. v.free_blocks > 0
      BY <2>2, <2>5
    <3>3. w.free_blocks = Cardinality(S) - 1
      BY <3>1, <3>2, <2>5
    <3> QED
      BY <3>3, <2>2, <2>3
  <2> QED
    BY <2>6 DEF BlocksCounted
<1> QED
  BY <1>1, <1>2, <1>3 DEF w

-----------------------------------------------------------------------------
LEMMA NodeFacts ==
    ASSUME NEW v \in Volume, NEW n \in Nodes(v), NEW k \in Width(n)
    PROVE  k \in Nat /\ PtrOf(v, n, k) \in Pointer
<1>1. CASE n \in Inodes
  <2>1. k \in 0 .. Direct + 2 /\ v.inode[n] \in InodeRec /\ PtrOf(v, n, k) = v.inode[n].ptr[k]
    BY <1>1 DEF Volume, Width, PtrOf
  <2> QED
    BY <2>1, Geometry DEF InodeRec
<1>2. CASE n \notin Inodes
  <2>1. k \in 0 .. PtrsPerBlock - 1 /\ v.data[n] \in BlockRec /\ PtrOf(v, n, k) = v.data[n].ptr[k]
    BY <1>2 DEF Volume, Width, PtrOf, Nodes
  <2> QED
    BY <2>1, Geometry DEF BlockRec
<1> QED
  BY <1>1, <1>2

\* Inodes have an address of one step, blocks have longer ones, and no two nodes share one.
LEMMA HomeFacts ==
    ASSUME NEW v \in Volume, NEW addr, Forest(v, addr)
    PROVE  /\ \A n \in Nodes(v) : Home(addr, n) \in Seq(Nat)
           /\ \A n \in Inodes : n \in Nodes(v) /\ n \in Nat /\ Home(addr, n) = <<n>>
           /\ \A b \in v.used : b \in Nodes(v) /\ b \notin Inodes /\ Home(addr, b) = addr[b] /\ Len(addr[b]) >= 2
           /\ \A n, m \in Nodes(v) : Home(addr, n) = Home(addr, m) => n = m
<1>1. \A b \in v.used : b \in Nodes(v) /\ b \notin Inodes /\ Home(addr, b) = addr[b]
  BY Geometry DEF Nodes, Home, Volume
<1>2. \A n \in Inodes : n \in Nodes(v) /\ n \in Nat /\ Home(addr, n) = <<n>>
  BY Geometry DEF Nodes, Home
<1>3. \A b \in v.used : addr[b] \in Seq(Nat) /\ Len(addr[b]) >= 2
  BY DEF Forest, Addresses
<1>4. \A n \in Nodes(v) : n \in Inodes \/ n \in v.used
  BY DEF Nodes
<1>5. \A n \in Inodes : <<n>> \in Seq(Nat) /\ Len(<<n>>) = 1 /\ <<n>>[1] = n
  BY Geometry
<1>6. ASSUME NEW n \in Nodes(v), NEW m \in Nodes(v), Home(addr, n) = Home(addr, m)
      PROVE  n = m
  <2>1. CASE n \in Inodes /\ m \in Inodes
    BY <1>2, <1>5, <1>6, <2>1
  <2>2. CASE n \in Inodes /\ m \in v.used
    <3>1. addr[m] = <<n>> /\ Len(addr[m]) = 1
      BY <1>1, <1>2, <1>5, <1>6, <2>2
    <3>2. Len(addr[m]) >= 2
      BY <1>3, <2>2
    <3> QED
      BY <3>1, <3>2
  <2>3. CASE n \in v.used /\ m \in Inodes
    <3>1. addr[n] = <<m>> /\ Len(addr[n]) = 1
      BY <1>1, <1>2, <1>5, <1>6, <2>3
    <3>2. Len(addr[n]) >= 2
      BY <1>3, <2>3
    <3> QED
      BY <3>1, <3>2
  <2>4. CASE n \in v.used /\ m \in v.used
    BY <1>1, <1>6, <2>4 DEF Forest
  <2> QED
    BY <1>4, <2>1, <2>2, <2>3, <2>4
<1>7. \A n \in Nodes(v) : Home(addr, n) \in Seq(Nat)
  BY <1>1, <1>2, <1>3, <1>4, <1>5
<1> QED
  BY <1>1, <1>2, <1>3, <1>6, <1>7

\* The block of an address hangs on the node of the address without its last step.
LEMMA ParentAt ==
    ASSUME NEW v \in Volume, NEW addr, Forest(v, addr), NEW b \in v.used,
           NEW s \in Seq(Nat), NEW k \in Nat, addr[b] = Append(s, k)
    PROVE  \E n \in Nodes(v) : Home(addr, n) = s /\ k \in Width(n) /\ PtrOf(v, n, k) = b
<1>1. PICK n \in Nodes(v) : \E l \in Width(n) : PtrOf(v, n, l) = b
  BY DEF Forest
<1> PICK l \in Width(n) : PtrOf(v, n, l) = b
  BY <1>1
<1>2. b # BlockNone
  BY Geometry DEF Volume
<1>3. addr[b] = Append(Home(addr, n), l)
  BY <1>1, <1>2 DEF Forest
<1>4. Home(addr, n) \in Seq(Nat) /\ l \in Nat
  BY HomeFacts, NodeFacts
<1>5. Append(Home(addr, n), l) = Append(s, k)
  BY <1>3
<1> HIDE DEF Home
<1>6. \A t, u \in Seq(Nat), i, j \in Nat : Append(t, i) = Append(u, j) => t = u /\ i = j
  BY AppendInjective
<1>7. Home(addr, n) = s /\ l = k
  BY <1>4, <1>5, <1>6
<1> QED
  BY <1>7

\* ... and so the slot of that node, when it is known, holds the block.
LEMMA ChildAt ==
    ASSUME NEW v \in Volume, NEW addr, Forest(v, addr), NEW b \in v.used,
           NEW n \in Nodes(v), NEW k \in Nat, addr[b] = Append(Home(addr, n), k)
    PROVE  k \in Width(n) /\ PtrOf(v, n, k) = b
<1>1. Home(addr, n) \in Seq(Nat)
  BY HomeFacts
<1>2. PICK m \in Nodes(v) : Home(addr, m) = Home(addr, n) /\ k \in Width(m) /\ PtrOf(v, m, k) = b
  BY <1>1, ParentAt
<1>3. m = n
  BY <1>2, HomeFacts
<1> QED
  BY <1>2, <1>3

\* A new block in an empty slot is a new leaf.
LEMMA LinkedForest ==
    ASSUME NEW v \in Volume, NEW addr \in [Blocks -> Seq(Nat)], Forest(v, addr),
           NEW n \in Nodes(v), NEW k \in Width(n), PtrOf(v, n, k) = BlockNone,
           Append(Home(addr, n), k) \in Addresses, n \in Inodes => v.inode[n].mode # "free",
           NEW b \in Blocks \ v.used, NEW w \in Volume, Linked(v, w, n, k, b)
    PROVE  \E at \in [Blocks -> Seq(Nat)] :
               Forest(w, at) /\ at[b] = Append(Home(addr, n), k) /\ \A x \in v.used : at[x] = addr[x]
<1> DEFINE s == Append(Home(addr, n), k)
           at == [addr EXCEPT ![b] = s]
<1>1. s \in Addresses /\ s \in Seq(Nat)
  BY DEF Addresses
<1>2. at \in [Blocks -> Seq(Nat)] /\ at[b] = s /\ \A x \in v.used : at[x] = addr[x]
  BY <1>1 DEF Volume
<1>3. w.used = v.used \cup {b} /\ Nodes(w) = Nodes(v) \cup {b} /\ b \notin Nodes(v) /\ b # BlockNone
  BY Geometry DEF Linked, Nodes
<1>4. \A m \in Nodes(v) : Home(at, m) = Home(addr, m)
  BY <1>2 DEF Home, Nodes
<1> HIDE DEF s, at
<1>5. ASSUME NEW m \in Nodes(w), NEW l \in Width(m), PtrOf(w, m, l) # BlockNone
      PROVE  PtrOf(w, m, l) \in w.used /\ at[PtrOf(w, m, l)] = Append(Home(at, m), l)
  <2>1. m \in Nodes(v)
    BY <1>3, <1>5 DEF Linked
  <2>2. CASE m = n /\ l = k
    <3>1. PtrOf(w, m, l) = b
      BY <2>1, <2>2 DEF Linked
    <3> QED
      BY <1>2, <1>3, <1>4, <2>1, <2>2, <3>1 DEF s
  <2>3. CASE ~(m = n /\ l = k)
    <3>1. PtrOf(w, m, l) = PtrOf(v, m, l)
      BY <2>1, <2>3 DEF Linked
    <3>2. PtrOf(v, m, l) \in v.used /\ addr[PtrOf(v, m, l)] = Append(Home(addr, m), l)
      BY <1>5, <2>1, <3>1 DEF Forest
    <3> QED
      BY <1>2, <1>3, <1>4, <2>1, <3>1, <3>2
  <2> QED
    BY <2>2, <2>3
<1>6. \A x \in w.used : at[x] \in Addresses
  BY <1>1, <1>2, <1>3 DEF Forest
<1>7. ASSUME NEW x \in w.used
      PROVE  \E m \in Nodes(w) : \E l \in Width(m) : PtrOf(w, m, l) = x
  <2>1. CASE x = b
    <3>1. n \in Nodes(w) /\ PtrOf(w, n, k) = b
      BY <1>3 DEF Linked
    <3> QED
      BY <2>1, <3>1
  <2>2. CASE x \in v.used
    <3>1. PICK m \in Nodes(v) : \E l \in Width(m) : PtrOf(v, m, l) = x
      BY <2>2 DEF Forest
    <3> PICK l \in Width(m) : PtrOf(v, m, l) = x
      BY <3>1
    <3>2. x # BlockNone
      BY <2>2, Geometry DEF Volume
    <3>3. ~(m = n /\ l = k)
      BY <3>1, <3>2
    <3>4. PtrOf(w, m, l) = x
      BY <3>1, <3>3 DEF Linked
    <3> QED
      BY <1>3, <3>4
  <2> QED
    BY <1>3, <2>1, <2>2
<1>8. ASSUME NEW x \in v.used
      PROVE  addr[x] # s
  <2>1. SUFFICES ASSUME addr[x] = s PROVE FALSE
    OBVIOUS
  <2>2. k \in Nat
    BY NodeFacts
  <2>3. PtrOf(v, n, k) = x
    BY <2>1, <2>2, ChildAt DEF s
  <2> QED
    BY <2>3, Geometry DEF Volume
<1>9. \A x, y \in w.used : at[x] = at[y] => x = y
  BY <1>2, <1>3, <1>8 DEF Forest
<1>10. ASSUME NEW i \in Inodes, w.inode[i].mode = "free", NEW l \in Width(i)
       PROVE  PtrOf(w, i, l) = BlockNone
  <2>1. i \in Nodes(v) /\ v.inode[i].mode = "free" /\ i # n
    BY <1>10 DEF Linked, Nodes
  <2>2. PtrOf(w, i, l) = PtrOf(v, i, l)
    BY <2>1 DEF Linked
  <2> QED
    BY <2>1, <2>2 DEF Forest
<1>11. Forest(w, at)
  BY <1>5, <1>6, <1>7, <1>9, <1>10 DEF Forest
<1> QED
  BY <1>2, <1>11 DEF s

-----------------------------------------------------------------------------
\* Division, in the three facts that the proofs need.
LEMMA Divided ==
    ASSUME NEW a \in Nat, NEW p \in Nat \ {0}
    PROVE  /\ a \div p \in Nat /\ a % p \in 0 .. p - 1 /\ a = (p * (a \div p)) + (a % p)
<1>1. a \div p \in Int /\ a % p \in 0 .. p - 1 /\ a = (p * (a \div p)) + (a % p)
  BY ModParts
<1> DEFINE q == a \div p
           r == a % p
<1> HIDE DEF q, r
<1>5. q \in Int /\ r \in 0 .. p - 1 /\ a = p * q + r
  BY <1>1 DEF q, r
<1>6. q < 0 => p * q <= -p
  BY <1>5
<1>7. q \in Nat
  BY <1>5, <1>6
<1> QED
  BY <1>1, <1>7 DEF q

LEMMA Quotient ==
    ASSUME NEW a \in Nat, NEW p \in Nat \ {0}, NEW q \in Nat, NEW r \in 0 .. p - 1, a = p * q + r
    PROVE  a \div p = q /\ a % p = r
<1> DEFINE x == a \div p
           y == a % p
<1>1. x \in Nat /\ y \in 0 .. p - 1 /\ a = p * x + y
  BY Divided
<1> HIDE DEF x, y
<1>2. x < q => p * x + p <= p * q
  <2>1. ASSUME x < q PROVE p * (x + 1) <= p * q
    BY <1>1, <2>1
  <2> QED
    BY <1>1, <2>1
<1>3. q < x => p * q + p <= p * x
  <2>1. ASSUME q < x PROVE p * (q + 1) <= p * x
    BY <1>1, <2>1
  <2> QED
    BY <1>1, <2>1
<1>4. x = q
  <2>1. p * x \in Int /\ p * q \in Int
    BY <1>1
  <2> QED
    BY <1>1, <1>2, <1>3, <2>1
<1>5. y = r
  BY <1>1, <1>4
<1> QED
  BY <1>4, <1>5 DEF x, y

LEMMA QuotientBound ==
    ASSUME NEW a \in Nat, NEW p \in Nat \ {0}, NEW q \in Nat, a < p * q
    PROVE  a \div p \in 0 .. q - 1
<1> DEFINE x == a \div p
           y == a % p
<1>1. x \in Nat /\ y \in 0 .. p - 1 /\ a = p * x + y
  BY Divided
<1> HIDE DEF x, y
<1>2. q <= x => p * q <= p * x
  BY <1>1
<1>3. x < q
  <2>1. p * x \in Int /\ p * q \in Int
    BY <1>1
  <2> QED
    BY <1>1, <1>2, <2>1
<1> QED
  BY <1>1, <1>3 DEF x

\* Dividing twice by p is dividing by its square.
LEMMA DividedTwice ==
    ASSUME NEW a \in Nat, NEW p \in Nat \ {0}
    PROVE  p * p \in Nat \ {0} /\ (a \div p) \div p = a \div (p * p)
<1> DEFINE u == a \div p
           r == a % p
           x == u \div p
           s == u % p
<1>1. u \in Nat /\ r \in 0 .. p - 1 /\ a = p * u + r
  BY Divided
<1> HIDE DEF u, r
<1>2. x \in Nat /\ s \in 0 .. p - 1 /\ u = p * x + s
  BY <1>1, Divided
<1> HIDE DEF x, s
<1>3. p * p \in Nat \ {0}
  OBVIOUS
<1>4. p * s \in Nat /\ p * s <= p * (p - 1)
  BY <1>2
<1>5. p * s + r \in 0 .. p * p - 1
  BY <1>1, <1>3, <1>4
<1>6. a = (p * p) * x + (p * s + r)
  <2>1. p * u = p * (p * x + s)
    BY <1>2
  <2>2. p * (p * x + s) = (p * p) * x + p * s
    BY <1>2
  <2> QED
    BY <1>1, <1>2, <1>4, <2>1, <2>2
<1>7. a \div (p * p) = x
  <2> DEFINE P == p * p
             R == p * s + r
  <2>1. P \in Nat \ {0} /\ R \in 0 .. P - 1 /\ a = P * x + R
    BY <1>3, <1>5, <1>6
  <2> HIDE DEF P, R
  <2>2. a \div P = x
    BY <1>2, <2>1, Quotient
  <2> QED
    BY <2>2 DEF P
<1> QED
  BY <1>3, <1>7 DEF x, u

-----------------------------------------------------------------------------
\* The paths that LbnPath builds: an inode slot, and as many indices as its depth asks for.
PathTo(s) ==
    /\ s \in Seq(Nat) /\ Len(s) \in 1 .. 4 /\ s[1] \in 0 .. Direct + 2 /\ Len(s) = Depth(s[1]) + 1
    /\ \A j \in 2 .. Len(s) : s[j] \in 0 .. PtrsPerBlock - 1

\* The logical block that a path leads to.
LbnOf(s) ==
    LET P == PtrsPerBlock
    IN  IF Len(s) = 1 THEN s[1]
        ELSE IF Len(s) = 2 THEN Direct + s[2]
        ELSE IF Len(s) = 3 THEN Direct + P + (P * s[2] + s[3])
        ELSE Direct + P + P * P + (P * (P * s[2] + s[3]) + s[4])

LEMMA PathFacts ==
    ASSUME NEW lbn \in Nat, NEW s, s = LbnPath(lbn), s # <<>>
    PROVE  PathTo(s) /\ LbnOf(s) = lbn
<1> DEFINE P == PtrsPerBlock
           D == Direct
           x == lbn - D
           d == x - P
           t == d - P * P
<1>1. P \in Nat \ {0} /\ D \in Nat \ {0} /\ P * P \in Nat \ {0} /\ P * P * P \in Nat
  <2>1. P \in Nat \ {0} /\ D \in Nat \ {0}
    BY Geometry
  <2> HIDE DEF P
  <2> QED
    BY <2>1
<1>2. x \in Int /\ d \in Int /\ t \in Int
  BY <1>1
<1>3. CASE x < 0
  <2>1. s = <<lbn>>
    BY <1>3 DEF LbnPath
  <2> HIDE DEF x
  <2>2. s \in Seq(Nat) /\ Len(s) = 1 /\ s[1] = lbn
    BY <2>1
  <2>3. lbn < Direct
    BY <1>1, <1>3 DEF x
  <2> QED
    BY <1>1, <2>2, <2>3 DEF PathTo, LbnOf, Depth
<1>4. CASE x >= 0 /\ d < 0
  <2>1. s = <<D, x>>
    BY <1>2, <1>4 DEF LbnPath
  <2>2. x \in 0 .. P - 1 /\ x \in Nat /\ D + x = lbn
    BY <1>1, <1>4
  <2> HIDE DEF x, P
  <2>3. s \in Seq(Nat) /\ Len(s) = 2 /\ s[1] = D /\ s[2] = x
    BY <1>1, <2>1, <2>2
  <2>4. Depth(D) = 1
    BY <1>1 DEF Depth
  <2>5. PathTo(s)
    <3>1. \A j \in 2 .. Len(s) : j = 2
      BY <2>3
    <3> QED
      BY <1>1, <2>2, <2>3, <2>4, <3>1 DEF PathTo, P
  <2> QED
    BY <2>2, <2>3, <2>5 DEF LbnOf
<1>5. CASE d >= 0 /\ t < 0
  <2>1. x >= 0
    BY <1>1, <1>2, <1>5
  <2>2. s = <<D + 1, d \div P, d % P>>
    BY <1>2, <1>5, <2>1 DEF LbnPath
  <2>3. d \in Nat /\ d < P * P /\ lbn = D + P + d
    BY <1>1, <1>2, <1>5
  <2> HIDE DEF d, P
  <2>4. d \div P \in 0 .. P - 1 /\ d % P \in 0 .. P - 1 /\ d = (P * (d \div P)) + (d % P)
    BY <1>1, <2>3, QuotientBound, Divided
  <2> DEFINE a == d \div P
             b == d % P
  <2>5. a \in Nat /\ b \in Nat /\ D + 1 \in Nat
    BY <1>1, <2>4
  <2>6. s = <<D + 1, a, b>> /\ a \in 0 .. P - 1 /\ b \in 0 .. P - 1 /\ d = (P * a) + b
    BY <2>2, <2>4
  <2> HIDE DEF a, b
  <2>7. s \in Seq(Nat) /\ Len(s) = 3 /\ s[1] = D + 1 /\ s[2] = a /\ s[3] = b
    BY <2>5, <2>6
  <2>8. Depth(D + 1) = 2
    BY <1>1 DEF Depth
  <2>9. PathTo(s)
    <3>1. \A j \in 2 .. Len(s) : j = 2 \/ j = 3
      BY <2>7
    <3> QED
      BY <1>1, <2>6, <2>7, <2>8, <3>1 DEF PathTo, P
  <2>10. LbnOf(s) = D + P + (P * a + b)
    BY <2>7 DEF LbnOf, P
  <2> QED
    BY <2>3, <2>6, <2>9, <2>10
<1>6. CASE t >= 0
  <2>1. d >= 0 /\ x >= 0
    BY <1>1, <1>2, <1>6
  <2>2. t < P * P * P /\ s = <<D + 2, t \div (P * P), (t \div P) % P, t % P>>
    <3>1. ~(x < 0) /\ ~(d < 0) /\ ~(t < 0)
      BY <1>2, <1>6, <2>1
    <3>2. s = IF t < P * P * P THEN <<D + 2, t \div (P * P), (t \div P) % P, t % P>> ELSE <<>>
      BY <3>1 DEF LbnPath
    <3> HIDE DEF t, P
    <3> QED
      BY <3>2
  <2>3. t \in Nat /\ lbn = D + P + P * P + t
    BY <1>1, <1>2, <1>6
  <2> HIDE DEF t, P
  <2> DEFINE u == t \div P
             c == t % P
             a == u \div P
             b == u % P
  <2>4. u \in Nat /\ c \in 0 .. P - 1 /\ t = (P * u) + c
    BY <1>1, <2>3, Divided
  <2>5. a \in Nat /\ b \in 0 .. P - 1 /\ u = (P * a) + b /\ a = t \div (P * P)
    <3>1. a = t \div (P * P)
      BY <1>1, <2>3, DividedTwice
    <3> HIDE DEF u
    <3> QED
      BY <1>1, <2>4, <3>1, Divided
  <2>6. t \div (P * P) \in 0 .. P - 1
    <3> DEFINE Q == P * P
    <3>1. Q \in Nat \ {0} /\ t < Q * P
      BY <1>1, <2>2
    <3> HIDE DEF Q
    <3>2. t \div Q \in 0 .. P - 1
      BY <1>1, <2>3, <3>1, QuotientBound
    <3> QED
      BY <3>2 DEF Q
  <2>7. s = <<D + 2, a, b, c>> /\ a \in 0 .. P - 1 /\ D + 2 \in Nat
    BY <1>1, <2>2, <2>5, <2>6
  <2> HIDE DEF u, a, b, c
  <2>8. /\ s \in Seq(Nat) /\ Len(s) = 4 /\ s[1] = D + 2 /\ s[2] = a /\ s[3] = b /\ s[4] = c
    BY <1>1, <2>4, <2>5, <2>7
  <2>9. Depth(D + 2) = 3
    BY <1>1 DEF Depth
  <2>10. PathTo(s)
    <3>1. \A j \in 2 .. Len(s) : j = 2 \/ j = 3 \/ j = 4
      BY <2>8
    <3> QED
      BY <1>1, <2>4, <2>5, <2>7, <2>8, <2>9, <3>1 DEF PathTo, P
  <2>11. LbnOf(s) = D + P + P * P + (P * (P * a + b) + c)
    BY <2>8 DEF LbnOf, P
  <2> QED
    BY <2>3, <2>4, <2>5, <2>10, <2>11
<1> QED
  BY <1>2, <1>3, <1>4, <1>5, <1>6

-----------------------------------------------------------------------------
\* The address after n steps of a path from inode i.
Address(i, s, n) == [j \in 1 .. n + 1 |-> IF j = 1 THEN i ELSE s[j - 1]]
AddressOf(i, lbn) == Address(i, LbnPath(lbn), Len(LbnPath(lbn)))
UpTo(n, path) == IF n < Len(path) THEN n ELSE Len(path)

LEMMA AddressFacts ==
    ASSUME NEW i \in Inodes, NEW s, PathTo(s)
    PROVE  /\ Address(i, s, 0) = <<i>>
           /\ \A n \in 0 .. Len(s) : Address(i, s, n) \in Seq(Nat) /\ Len(Address(i, s, n)) = n + 1
           /\ \A n \in 0 .. Len(s) - 1 : Address(i, s, n + 1) = Append(Address(i, s, n), s[n + 1])
           /\ \A n \in 1 .. Len(s) : Address(i, s, n) \in Addresses
<1>1. i \in Nat /\ s \in Seq(Nat) /\ Len(s) \in 1 .. 4 /\ \A j \in 1 .. Len(s) : s[j] \in Nat
  BY Geometry DEF PathTo
<1>2. ASSUME NEW n \in 0 .. Len(s)
      PROVE  /\ Address(i, s, n) \in Seq(Nat) /\ Len(Address(i, s, n)) = n + 1
             /\ Address(i, s, n)[1] = i /\ \A j \in 2 .. n + 1 : Address(i, s, n)[j] = s[j - 1]
  <2>1. n \in Nat
    BY <1>1
  <2>2. Address(i, s, n) \in [1 .. n + 1 -> Nat]
    <3>1. ASSUME NEW j \in 1 .. n + 1 PROVE (IF j = 1 THEN i ELSE s[j - 1]) \in Nat
      BY <1>1, <2>1
    <3> QED
      BY <3>1 DEF Address
  <2>3. Address(i, s, n) \in Seq(Nat) /\ Len(Address(i, s, n)) = n + 1
    BY <2>1, <2>2
  <2>4. Address(i, s, n)[1] = i /\ \A j \in 2 .. n + 1 : Address(i, s, n)[j] = s[j - 1]
    BY <2>1 DEF Address
  <2> QED
    BY <2>3, <2>4
<1>3. Address(i, s, 0) = <<i>>
  <2>1. Address(i, s, 0) \in Seq(Nat) /\ Len(Address(i, s, 0)) = 1 /\ Address(i, s, 0)[1] = i
    <3>1. 0 \in 0 .. Len(s) /\ 0 + 1 = 1
      BY <1>1
    <3> QED
      BY <1>2, <3>1
  <2>2. <<i>> \in Seq(Nat) /\ Len(<<i>>) = 1 /\ <<i>>[1] = i
    BY <1>1
  <2> HIDE DEF Address
  <2>3. \A j \in 1 .. 1 : Address(i, s, 0)[j] = <<i>>[j]
    BY <2>1, <2>2
  <2> QED
    BY <2>1, <2>2, <2>3, SeqEqual
<1>4. ASSUME NEW n \in 0 .. Len(s) - 1
      PROVE  Address(i, s, n + 1) = Append(Address(i, s, n), s[n + 1])
  <2> DEFINE a == Address(i, s, n + 1)
             b == Address(i, s, n)
             c == Append(b, s[n + 1])
  <2>1. n \in Nat /\ n \in 0 .. Len(s) /\ n + 1 \in 0 .. Len(s) /\ n + 1 \in 1 .. Len(s)
    BY <1>1
  <2>2. a \in Seq(Nat) /\ Len(a) = n + 2 /\ a[1] = i /\ \A j \in 2 .. n + 2 : a[j] = s[j - 1]
    BY <1>2, <2>1
  <2>3. b \in Seq(Nat) /\ Len(b) = n + 1 /\ b[1] = i /\ \A j \in 2 .. n + 1 : b[j] = s[j - 1]
    BY <1>2, <2>1
  <2>4. s[n + 1] \in Nat
    BY <1>1, <2>1
  <2> HIDE DEF a, b
  <2>5. /\ c \in Seq(Nat) /\ Len(c) = n + 2 /\ c[n + 2] = s[n + 1]
        /\ \A j \in 1 .. n + 1 : c[j] = b[j]
    BY <2>1, <2>3, <2>4, AppendProperties
  <2> HIDE DEF c
  <2>6. ASSUME NEW j \in 1 .. n + 2 PROVE a[j] = c[j]
    <3>1. CASE j = 1
      BY <2>1, <2>2, <2>3, <2>5, <3>1
    <3>2. CASE j \in 2 .. n + 1
      BY <2>1, <2>2, <2>3, <2>5, <3>2
    <3>3. CASE j = n + 2
      BY <2>1, <2>2, <2>5, <3>3
    <3> QED
      BY <2>1, <3>1, <3>2, <3>3
  <2>7. a = c
    BY <2>2, <2>5, <2>6, SeqEqual
  <2> QED
    BY <2>7 DEF a, b, c
<1>5. ASSUME NEW n \in 1 .. Len(s)
      PROVE  Address(i, s, n) \in Addresses
  <2> DEFINE a == Address(i, s, n)
  <2>1. /\ a \in Seq(Nat) /\ Len(a) = n + 1 /\ a[1] = i /\ \A j \in 2 .. n + 1 : a[j] = s[j - 1]
        /\ n \in Nat /\ n >= 1 /\ n <= Len(s)
    BY <1>1, <1>2
  <2> HIDE DEF a
  <2>2. a[2] = s[1] /\ s[1] \in 0 .. Direct + 2 /\ Len(s) = Depth(s[1]) + 1
    BY <2>1 DEF PathTo
  <2>3. ASSUME NEW j \in 3 .. Len(a) PROVE a[j] \in 0 .. PtrsPerBlock - 1
    <3>1. j \in 2 .. n + 1 /\ j - 1 \in 2 .. Len(s)
      BY <1>1, <2>1
    <3> QED
      BY <2>1, <3>1 DEF PathTo
  <2>4. Len(a) <= Depth(a[2]) + 2
    <3>1. Depth(s[1]) \in Nat
      BY <2>2, Geometry DEF Depth
    <3> QED
      BY <1>1, <2>1, <2>2, <3>1
  <2>5. a \in Addresses
    BY <2>1, <2>2, <2>3, <2>4 DEF Addresses
  <2> QED
    BY <2>5 DEF a
<1> QED
  BY <1>2, <1>3, <1>4, <1>5

\* A file's block numbers have addresses of their own.
LEMMA AddressesDiffer ==
    ASSUME NEW i \in Inodes, NEW j \in Inodes, NEW l \in Nat, NEW m \in Nat,
           LbnPath(l) # <<>>, LbnPath(m) # <<>>, AddressOf(i, l) = AddressOf(j, m)
    PROVE  i = j /\ l = m
<1> DEFINE s == LbnPath(l)
           t == LbnPath(m)
           a == Address(i, s, Len(s))
           b == Address(j, t, Len(t))
<1>1. PathTo(s) /\ LbnOf(s) = l /\ PathTo(t) /\ LbnOf(t) = m
  BY PathFacts
<1>2. a = b
  BY DEF AddressOf
<1> HIDE DEF s, t
<1>3. Len(s) \in Nat /\ Len(t) \in Nat /\ s \in Seq(Nat) /\ t \in Seq(Nat)
  BY <1>1 DEF PathTo
<1>4. Len(a) = Len(s) + 1 /\ Len(b) = Len(t) + 1
  BY <1>1, <1>3, AddressFacts
<1>5. Len(s) = Len(t)
  BY <1>2, <1>3, <1>4
<1>6. a[1] = i /\ b[1] = j
  BY <1>3 DEF Address
<1>7. \A k \in 1 .. Len(s) : a[k + 1] = s[k] /\ b[k + 1] = t[k]
  BY <1>3, <1>5 DEF Address
<1> HIDE DEF a, b
<1>8. s = t
  BY <1>2, <1>3, <1>5, <1>7, SeqEqual
<1> QED
  BY <1>1, <1>2, <1>6, <1>8

-----------------------------------------------------------------------------
\* b is the block of an address, or there is none.
SlotHolds(v, addr, a, b) ==
    IF b = BlockNone THEN \A c \in v.used : addr[c] # a ELSE b \in v.used /\ addr[b] = a

LEMMA HeldOnce ==
    ASSUME NEW v \in Volume, NEW addr, Forest(v, addr), NEW a, NEW b, NEW c,
           SlotHolds(v, addr, a, b), SlotHolds(v, addr, a, c)
    PROVE  b = c
  BY DEF SlotHolds, Forest

LEMMA StepDown ==
    ASSUME NEW v \in Volume, NEW addr, Forest(v, addr), NEW n \in Nodes(v), NEW k \in Width(n)
    PROVE  SlotHolds(v, addr, Append(Home(addr, n), k), PtrOf(v, n, k))
<1>1. CASE PtrOf(v, n, k) # BlockNone
  BY <1>1 DEF SlotHolds, Forest
<1>2. CASE PtrOf(v, n, k) = BlockNone
  <2>1. ASSUME NEW c \in v.used, addr[c] = Append(Home(addr, n), k)
        PROVE  FALSE
    <3>1. k \in Nat
      BY NodeFacts
    <3>2. PtrOf(v, n, k) = c
      BY <2>1, <3>1, ChildAt
    <3> QED
      BY <1>2, <3>2, Geometry DEF Volume
  <2> QED
    BY <1>2, <2>1 DEF SlotHolds
<1> QED
  BY <1>1, <1>2

LEMMA LookDown ==
    ASSUME NEW v \in Volume, NEW addr, Forest(v, addr), NEW i \in Inodes, NEW s, PathTo(s),
           NEW n \in 2 .. 4, NEW b, SlotHolds(v, addr, Address(i, s, UpTo(n - 1, s)), b)
    PROVE  SlotHolds(v, addr, Address(i, s, UpTo(n, s)), Look(v, b, s, n))
<1>1. Len(s) \in 1 .. 4 /\ s \in Seq(Nat)
  BY DEF PathTo
<1>2. CASE n > Len(s)
  <2>1. UpTo(n, s) = Len(s) /\ UpTo(n - 1, s) = Len(s)
    BY <1>1, <1>2 DEF UpTo
  <2>2. Look(v, b, s, n) = b
    BY <1>1, <1>2 DEF Look
  <2> QED
    BY <2>1, <2>2
<1>3. CASE n <= Len(s)
  <2>1. UpTo(n, s) = n /\ UpTo(n - 1, s) = n - 1
    BY <1>1, <1>3 DEF UpTo
  <2>2. /\ Address(i, s, n) = Append(Address(i, s, n - 1), s[n]) /\ Address(i, s, n - 1) \in Seq(Nat)
        /\ s[n] \in Nat /\ s[n] \in 0 .. PtrsPerBlock - 1 /\ Len(Address(i, s, n - 1)) = n
    <3>1. n - 1 \in 0 .. Len(s) - 1 /\ n - 1 + 1 = n /\ n - 1 \in 0 .. Len(s) /\ n \in 2 .. Len(s)
      BY <1>1, <1>3
    <3>2. s[n] \in 0 .. PtrsPerBlock - 1 /\ s[n] \in Nat
      BY <3>1 DEF PathTo
    <3> QED
      BY <3>1, <3>2, AddressFacts
  <2>3. CASE b = BlockNone
    <3>1. Look(v, b, s, n) = BlockNone
      BY <2>3 DEF Look
    <3>2. ASSUME NEW c \in v.used, addr[c] = Address(i, s, n)
          PROVE  FALSE
      <4>1. PICK m \in Nodes(v) : Home(addr, m) = Address(i, s, n - 1)
        BY <2>2, <3>2, ParentAt
      <4>2. m \notin Inodes
        <5>1. SUFFICES ASSUME m \in Inodes PROVE FALSE
          OBVIOUS
        <5>2. Address(i, s, n - 1) = <<m>> /\ Len(<<m>>) = 1
          BY <4>1, <5>1 DEF Home
        <5> QED
          BY <2>2, <5>2
      <4>3. m \in v.used /\ addr[m] = Address(i, s, n - 1)
        BY <4>1, <4>2 DEF Home, Nodes
      <4> QED
        BY <2>1, <2>3, <4>3 DEF SlotHolds
    <3> QED
      BY <2>1, <3>1, <3>2 DEF SlotHolds
  <2>4. CASE b # BlockNone
    <3>1. b \in v.used /\ addr[b] = Address(i, s, n - 1)
      BY <2>1, <2>4 DEF SlotHolds
    <3>2. b \in Nodes(v) /\ Home(addr, b) = Address(i, s, n - 1) /\ b \notin Inodes
      BY <3>1, HomeFacts
    <3>3. s[n] \in Width(b)
      BY <2>2, <3>2 DEF Width
    <3>4. Look(v, b, s, n) = PtrOf(v, b, s[n])
      BY <1>1, <1>3, <2>4 DEF Look
    <3>5. SlotHolds(v, addr, Append(Home(addr, b), s[n]), PtrOf(v, b, s[n]))
      BY <3>2, <3>3, StepDown
    <3> QED
      BY <2>1, <2>2, <3>2, <3>4, <3>5
  <2> QED
    BY <2>3, <2>4
<1> QED
  BY <1>1, <1>2, <1>3

\* map_lbn finds the block whose address it is asked for, if there is one.
LEMMA MapIs ==
    ASSUME NEW v \in Volume, NEW addr, Forest(v, addr), NEW i \in Inodes, NEW lbn \in Nat
    PROVE  IF LbnPath(lbn) = <<>> THEN map_lbn(v, i, lbn) = BlockNone
           ELSE SlotHolds(v, addr, AddressOf(i, lbn), map_lbn(v, i, lbn))
<1> DEFINE s == LbnPath(lbn)
<1>1. CASE s = <<>>
  BY <1>1 DEF map_lbn
<1>2. CASE s # <<>>
  <2>1. PathTo(s)
    BY <1>2, PathFacts
  <2>2. map_lbn(v, i, lbn) = Look(v, Look(v, Look(v, PtrOf(v, i, s[1]), s, 2), s, 3), s, 4)
    BY <1>2 DEF map_lbn
  <2> HIDE DEF s
  <2>3. Len(s) \in 1 .. 4 /\ s[1] \in 0 .. Direct + 2
    BY <2>1 DEF PathTo
  <2>4. i \in Nodes(v) /\ s[1] \in Width(i) /\ Home(addr, i) = <<i>>
    BY <2>3 DEF Nodes, Width, Home
  <2>5. SlotHolds(v, addr, Append(<<i>>, s[1]), PtrOf(v, i, s[1]))
    BY <2>4, StepDown
  <2>6. Address(i, s, 1) = Append(<<i>>, s[1])
    <3>1. 0 \in 0 .. Len(s) - 1 /\ 0 + 1 = 1
      BY <2>3
    <3> QED
      BY <2>1, <3>1, AddressFacts
  <2>7. UpTo(1, s) = 1 /\ UpTo(4, s) = Len(s)
    <3>1. ASSUME NEW n, n \in 1 .. 4
          PROVE  (IF 1 < n THEN 1 ELSE n) = 1 /\ (IF 4 < n THEN 4 ELSE n) = n
      BY <3>1
    <3> QED
      BY <2>3, <3>1 DEF UpTo
  <2> DEFINE p1 == PtrOf(v, i, s[1])
             p2 == Look(v, p1, s, 2)
             p3 == Look(v, p2, s, 3)
             p4 == Look(v, p3, s, 4)
  <2> HIDE DEF p1
  <2>8. SlotHolds(v, addr, Address(i, s, UpTo(1, s)), p1)
    BY <2>5, <2>6, <2>7 DEF p1
  <2> HIDE DEF p2
  <2>9. SlotHolds(v, addr, Address(i, s, UpTo(2, s)), p2)
    BY <2>1, <2>8, LookDown, 2 \in 2 .. 4, 2 - 1 = 1 DEF p2
  <2> HIDE DEF p3
  <2>10. SlotHolds(v, addr, Address(i, s, UpTo(3, s)), p3)
    BY <2>1, <2>9, LookDown, 3 \in 2 .. 4, 3 - 1 = 2 DEF p3
  <2> HIDE DEF p4
  <2>11. SlotHolds(v, addr, Address(i, s, UpTo(4, s)), p4)
    BY <2>1, <2>10, LookDown, 4 \in 2 .. 4, 4 - 1 = 3 DEF p4
  <2>12. map_lbn(v, i, lbn) = p4
    BY <2>2 DEF p1, p2, p3, p4
  <2> QED
    BY <1>2, <2>7, <2>11, <2>12 DEF AddressOf, s
<1> QED
  BY <1>1, <1>2

-----------------------------------------------------------------------------
\* Writing one pointer.
LEMMA SetPtrFacts ==
    ASSUME NEW u \in Volume, NEW n \in Inodes \cup Blocks, NEW k \in Width(n), NEW b \in Pointer,
           NEW w, w = SetPtr(u, n, k, b)
    PROVE  /\ w \in Volume
           /\ w.used = u.used /\ w.free_blocks = u.free_blocks /\ w.free_inodes = u.free_inodes
           /\ \A m \in Inodes \cup Blocks : \A l \in Width(m) :
                  PtrOf(w, m, l) = IF m = n /\ l = k THEN b ELSE PtrOf(u, m, l)
           /\ \A i \in Inodes : w.inode[i].mode = u.inode[i].mode /\ w.inode[i].size = u.inode[i].size
           /\ \A x \in Blocks : w.data[x].ent = u.data[x].ent
<1>1. CASE n \in Inodes
  <2> DEFINE r == [u.inode[n] EXCEPT !.ptr[k] = b]
             f == [u.inode EXCEPT ![n] = r]
  <2>1. u.inode \in [Inodes -> InodeRec] /\ u.inode[n] \in InodeRec /\ k \in 0 .. Direct + 2
    BY <1>1 DEF Volume, Width
  <2>2. /\ r \in InodeRec /\ r.mode = u.inode[n].mode /\ r.size = u.inode[n].size
        /\ r.ptr = [u.inode[n].ptr EXCEPT ![k] = b] /\ u.inode[n].ptr \in [0 .. Direct + 2 -> Pointer]
    BY <2>1 DEF InodeRec
  <2>3. w = [u EXCEPT !.inode[n] = r]
    BY <1>1, <2>1 DEF SetPtr, Volume, InodeRec
  <2> HIDE DEF r
  <2>4. /\ f \in [Inodes -> InodeRec] /\ f[n] = r /\ \A i \in Inodes : i # n => f[i] = u.inode[i]
    BY <1>1, <2>1, <2>2
  <2> HIDE DEF f
  <2>5. /\ w \in Volume /\ w.used = u.used /\ w.free_blocks = u.free_blocks /\ w.free_inodes = u.free_inodes
        /\ w.inode = f /\ w.data = u.data
    <3>1. w = [u EXCEPT !.inode = f]
      BY <2>3 DEF f, Volume
    <3> QED
      BY <2>4, <3>1 DEF Volume
  <2>6. ASSUME NEW m \in Inodes \cup Blocks, NEW l \in Width(m)
        PROVE  PtrOf(w, m, l) = IF m = n /\ l = k THEN b ELSE PtrOf(u, m, l)
    <3>1. CASE m = n
      <4>1. l \in 0 .. Direct + 2 /\ PtrOf(w, m, l) = r.ptr[l] /\ PtrOf(u, m, l) = u.inode[n].ptr[l]
        BY <1>1, <2>4, <2>5, <3>1 DEF Width, PtrOf
      <4> QED
        BY <2>2, <3>1, <4>1
    <3>2. CASE m # n
      BY <2>4, <2>5, <3>2 DEF PtrOf
    <3> QED
      BY <3>1, <3>2
  <2> QED
    BY <2>2, <2>4, <2>5, <2>6
<1>2. CASE n \notin Inodes
  <2> DEFINE r == [u.data[n] EXCEPT !.ptr[k] = b]
             f == [u.data EXCEPT ![n] = r]
  <2>1. u.data \in [Blocks -> BlockRec] /\ u.data[n] \in BlockRec /\ k \in 0 .. PtrsPerBlock - 1 /\ n \in Blocks
    BY <1>2 DEF Volume, Width
  <2>2. /\ r \in BlockRec /\ r.ent = u.data[n].ent
        /\ r.ptr = [u.data[n].ptr EXCEPT ![k] = b] /\ u.data[n].ptr \in [0 .. PtrsPerBlock - 1 -> Pointer]
    BY <2>1 DEF BlockRec
  <2>3. w = [u EXCEPT !.data[n] = r]
    BY <1>2, <2>1 DEF SetPtr, Volume, BlockRec
  <2> HIDE DEF r
  <2>4. /\ f \in [Blocks -> BlockRec] /\ f[n] = r /\ \A i \in Blocks : i # n => f[i] = u.data[i]
    BY <2>1, <2>2
  <2> HIDE DEF f
  <2>5. /\ w \in Volume /\ w.used = u.used /\ w.free_blocks = u.free_blocks /\ w.free_inodes = u.free_inodes
        /\ w.data = f /\ w.inode = u.inode
    <3>1. w = [u EXCEPT !.data = f]
      BY <2>3 DEF f, Volume
    <3> QED
      BY <2>4, <3>1 DEF Volume
  <2>6. ASSUME NEW m \in Inodes \cup Blocks, NEW l \in Width(m)
        PROVE  PtrOf(w, m, l) = IF m = n /\ l = k THEN b ELSE PtrOf(u, m, l)
    <3>1. CASE m = n
      <4>1. l \in 0 .. PtrsPerBlock - 1 /\ PtrOf(w, m, l) = r.ptr[l] /\ PtrOf(u, m, l) = u.data[n].ptr[l]
        BY <1>2, <2>4, <2>5, <3>1 DEF Width, PtrOf
      <4> QED
        BY <2>2, <3>1, <4>1
    <3>2. CASE m # n
      BY <2>4, <2>5, <3>2 DEF PtrOf
    <3> QED
      BY <3>1, <3>2
  <2> QED
    BY <2>2, <2>4, <2>5, <2>6
<1> QED
  BY <1>1, <1>2

-----------------------------------------------------------------------------
\* w is v with some new leaves: what was there keeps its place and its entries, and the new
\* blocks are empty.
Grows(v, at, w, to) ==
    /\ w \in Volume /\ to \in [Blocks -> Seq(Nat)] /\ Forest(w, to) /\ BlocksCounted(w)
    /\ v.used \subseteq w.used /\ w.free_inodes = v.free_inodes
    /\ \A x \in v.used : to[x] = at[x] /\ w.data[x].ent = v.data[x].ent
    /\ \A x \in w.used \ v.used : \A e \in 0 .. EntsPerBlock - 1 : w.data[x].ent[e] = NoEntry
    /\ \A i \in Inodes : w.inode[i].mode = v.inode[i].mode /\ w.inode[i].size = v.inode[i].size

LEMMA GrowsOn ==
    ASSUME NEW u, NEW v, NEW w, NEW a, NEW b, NEW c, Grows(u, a, v, b), Grows(v, b, w, c)
    PROVE  Grows(u, a, w, c)
<1>1. u.used \subseteq w.used /\ w.free_inodes = u.free_inodes
  BY DEF Grows
<1>2. \A x \in u.used : c[x] = a[x] /\ w.data[x].ent = u.data[x].ent
  BY DEF Grows
<1>3. \A x \in w.used \ u.used : \A e \in 0 .. EntsPerBlock - 1 : w.data[x].ent[e] = NoEntry
  <2>1. ASSUME NEW x \in w.used \ u.used, NEW e \in 0 .. EntsPerBlock - 1
        PROVE  w.data[x].ent[e] = NoEntry
    <3>1. CASE x \in v.used
      <4>1. x \in v.used \ u.used /\ w.data[x].ent = v.data[x].ent
        BY <3>1 DEF Grows
      <4>2. v.data[x].ent[e] = NoEntry
        BY <4>1 DEF Grows
      <4> QED
        BY <4>1, <4>2
    <3>2. CASE x \notin v.used
      BY <3>2 DEF Grows
    <3> QED
      BY <3>1, <3>2
  <2> QED
    BY <2>1
<1>4. \A i \in Inodes : w.inode[i].mode = u.inode[i].mode /\ w.inode[i].size = u.inode[i].size
  BY DEF Grows
<1> QED
  BY <1>1, <1>2, <1>3, <1>4 DEF Grows

\* A block in an empty slot.
LEMMA LinkOne ==
    ASSUME NEW v \in Volume, NEW at \in [Blocks -> Seq(Nat)], Forest(v, at), BlocksCounted(v),
           NEW n \in Nodes(v), NEW k \in Width(n), PtrOf(v, n, k) = BlockNone,
           Append(Home(at, n), k) \in Addresses, n \in Inodes => v.inode[n].mode # "free",
           NEW b \in Blocks \ v.used, NEW w, w = SetPtr(AllocVol(v, b), n, k, b)
    PROVE  \E to : Grows(v, at, w, to) /\ b \in w.used /\ to[b] = Append(Home(at, n), k)
<1> DEFINE u == AllocVol(v, b)
<1>1. /\ u \in Volume /\ u.used = v.used \cup {b} /\ u.inode = v.inode /\ u.free_inodes = v.free_inodes
      /\ u.data = [v.data EXCEPT ![b] = ZeroBlock] /\ BlocksCounted(u)
  BY AllocFields
<1>2. w = SetPtr(u, n, k, b) /\ b \in Pointer /\ n \in Inodes \cup Blocks /\ b \in Blocks
  BY DEF Pointer, Nodes, Volume
<1> HIDE DEF u
<1>3. /\ w \in Volume
      /\ w.used = u.used /\ w.free_blocks = u.free_blocks /\ w.free_inodes = u.free_inodes
      /\ \A m \in Inodes \cup Blocks : \A l \in Width(m) :
             PtrOf(w, m, l) = IF m = n /\ l = k THEN b ELSE PtrOf(u, m, l)
      /\ \A i \in Inodes : w.inode[i].mode = u.inode[i].mode /\ w.inode[i].size = u.inode[i].size
      /\ \A x \in Blocks : w.data[x].ent = u.data[x].ent
  <2>1. u \in Volume
    BY <1>1
  <2> QED
    BY <1>2, <2>1, SetPtrFacts
<1>4. b \notin Nodes(v) /\ Nodes(v) \subseteq Inodes \cup Blocks /\ b \notin Inodes
  BY Geometry DEF Nodes, Volume
<1>5. u.data[b] = ZeroBlock /\ \A x \in Blocks : x # b => u.data[x] = v.data[x]
  BY <1>1, <1>2 DEF Volume
<1>6. \A m \in Nodes(v) : \A l \in Width(m) : PtrOf(u, m, l) = PtrOf(v, m, l)
  <2>1. ASSUME NEW m \in Nodes(v), NEW l \in Width(m) PROVE PtrOf(u, m, l) = PtrOf(v, m, l)
    <3>1. CASE m \in Inodes
      BY <1>1, <3>1 DEF PtrOf
    <3>2. CASE m \notin Inodes
      <4>1. m \in Blocks /\ m # b
        BY <1>4, <3>2
      <4> QED
        BY <1>5, <3>2, <4>1 DEF PtrOf
    <3> QED
      BY <3>1, <3>2
  <2> QED
    BY <2>1
<1>7. \A l \in Width(b) : PtrOf(w, b, l) = BlockNone
  <2>1. ASSUME NEW l \in Width(b) PROVE PtrOf(w, b, l) = BlockNone
    <3>1. l \in 0 .. PtrsPerBlock - 1 /\ b # n
      BY <1>4 DEF Width
    <3>2. PtrOf(w, b, l) = PtrOf(u, b, l)
      BY <1>2, <1>3, <3>1
    <3>3. PtrOf(u, b, l) = ZeroBlock.ptr[l]
      BY <1>4, <1>5 DEF PtrOf
    <3> QED
      BY <3>1, <3>2, <3>3, ZeroBlockFacts
  <2> QED
    BY <2>1
<1>8. Linked(v, w, n, k, b)
  <2>1. w.used = v.used \cup {b}
    BY <1>1, <1>3
  <2>2. \A m \in Nodes(v) : \A l \in Width(m) : PtrOf(w, m, l) = IF m = n /\ l = k THEN b ELSE PtrOf(v, m, l)
    BY <1>3, <1>4, <1>6
  <2>3. \A i \in Inodes : w.inode[i].mode = v.inode[i].mode
    BY <1>1, <1>3
  <2> QED
    BY <1>7, <2>1, <2>2, <2>3 DEF Linked
<1>9. PICK to \in [Blocks -> Seq(Nat)] :
          Forest(w, to) /\ to[b] = Append(Home(at, n), k) /\ \A x \in v.used : to[x] = at[x]
  BY <1>3, <1>8, LinkedForest
<1>10. \A x \in v.used : w.data[x].ent = v.data[x].ent
  BY <1>3, <1>5 DEF Volume
<1>11. \A x \in w.used \ v.used : \A e \in 0 .. EntsPerBlock - 1 : w.data[x].ent[e] = NoEntry
  BY <1>1, <1>2, <1>3, <1>5, ZeroBlockFacts
<1>12. BlocksCounted(w) /\ v.used \subseteq w.used /\ b \in w.used
  BY <1>1, <1>3 DEF BlocksCounted
<1>13. \A i \in Inodes : w.inode[i].mode = v.inode[i].mode /\ w.inode[i].size = v.inode[i].size
  BY <1>1, <1>3
<1>14. Grows(v, at, w, to)
  BY <1>1, <1>3, <1>9, <1>10, <1>11, <1>12, <1>13 DEF Grows
<1> QED
  BY <1>9, <1>12, <1>14

-----------------------------------------------------------------------------
LEMMA GrowsSelf ==
    ASSUME NEW v \in Volume, NEW at \in [Blocks -> Seq(Nat)], Forest(v, at), BlocksCounted(v)
    PROVE  Grows(v, at, v, at)
  BY DEF Grows

\* A walk down the path, n steps of it done.
Stands(v, at, i, s, n, a) ==
    \E w, to, m : \E q \in BOOLEAN :
        /\ a = [vol |-> w, node |-> m, ok |-> q] /\ Grows(v, at, w, to)
        /\ q => m \in Nodes(w) /\ Home(to, m) = Address(i, s, UpTo(n, s))

\* One step of bmap_alloc: a new leaf at most, and it stands where the path says.
LEMMA ReachGrows ==
    ASSUME NEW v \in Volume, NEW at \in [Blocks -> Seq(Nat)], Forest(v, at), BlocksCounted(v),
           NEW i \in Inodes, v.inode[i].mode # "free", NEW s, PathTo(s), NEW n \in 1 .. 4,
           NEW before, before = n - 1, NEW node, NEW ok \in BOOLEAN,
           NEW a, a = [vol |-> v, node |-> node, ok |-> ok], NEW r, r = Reach(a, s, n),
           ok => node \in Nodes(v) /\ Home(at, node) = Address(i, s, UpTo(before, s))
    PROVE  Stands(v, at, i, s, n, r)
<1> SUFFICES \E w, to, m : \E q \in BOOLEAN :
               /\ r = [vol |-> w, node |-> m, ok |-> q] /\ Grows(v, at, w, to)
               /\ q => m \in Nodes(w) /\ Home(to, m) = Address(i, s, UpTo(n, s))
  BY DEF Stands
<1>1. a.vol = v /\ a.node = node /\ a.ok = ok /\ Grows(v, at, v, at)
  BY GrowsSelf
<1>2. Len(s) \in 1 .. 4 /\ s \in Seq(Nat)
  BY DEF PathTo
<1>3. CASE ~ok \/ n > Len(s)
  <2>1. r = a
    BY <1>1, <1>2, <1>3 DEF Reach
  <2>2. n > Len(s) => UpTo(n - 1, s) = Len(s) /\ UpTo(n, s) = Len(s)
    BY <1>2 DEF UpTo
  <2>3. ok => node \in Nodes(v) /\ Home(at, node) = Address(i, s, UpTo(n, s))
    BY <1>3, <2>2
  <2> QED
    BY <1>1, <2>1, <2>3
<1>4. CASE ok /\ n <= Len(s)
  <2> DEFINE k == s[n]
             p == PtrOf(v, node, k)
  <2>1. UpTo(n, s) = n /\ UpTo(n - 1, s) = n - 1
    BY <1>2, <1>4 DEF UpTo
  <2>2. /\ Address(i, s, n) = Append(Address(i, s, n - 1), k) /\ Len(Address(i, s, n - 1)) = n
        /\ Address(i, s, n) \in Addresses /\ Address(i, s, 0) = <<i>>
    <3>1. n - 1 \in 0 .. Len(s) - 1 /\ n - 1 + 1 = n /\ n - 1 \in 0 .. Len(s) /\ n \in 1 .. Len(s)
      <4>1. n <= Len(s) /\ n \in 1 .. 4
        BY <1>4
      <4> QED
        BY <1>2, <4>1
    <3> HIDE DEF k
    <3> QED
      BY <3>1, AddressFacts DEF k
  <2>3. node \in Nodes(v) /\ Home(at, node) = Address(i, s, n - 1)
    BY <1>4, <2>1
  <2>5. k \in Width(node) /\ (node \in Inodes => v.inode[node].mode # "free")
    <3>1. CASE n = 1
      <4>1. Home(at, node) = Home(at, i) /\ i \in Nodes(v)
        BY <2>2, <2>3, <3>1, HomeFacts
      <4>2. node = i
        BY <2>3, <4>1, HomeFacts
      <4> QED
        BY <3>1, <4>2 DEF PathTo, Width
    <3>2. CASE n # 1
      <4>1. n \in 2 .. Len(s)
        BY <1>2, <1>4, <3>2
      <4>2. node \notin Inodes
        <5>1. SUFFICES ASSUME node \in Inodes PROVE FALSE
          OBVIOUS
        <5>2. Address(i, s, n - 1) = <<node>> /\ Len(<<node>>) = 1
          BY <2>3, <5>1 DEF Home
        <5> QED
          BY <2>2, <3>2, <5>2
      <4>3. k \in 0 .. PtrsPerBlock - 1
        BY <4>1 DEF PathTo
      <4> QED
        BY <4>2, <4>3 DEF Width
    <3> QED
      BY <3>1, <3>2
  <2>6. r = Follow(a, k, p)
    BY <1>1, <1>2, <1>4 DEF Reach
  <2>7. CASE p # BlockNone
    <3>1. r = [vol |-> v, node |-> p, ok |-> ok]
      BY <2>6, <2>7 DEF Follow
    <3>2. p \in v.used /\ at[p] = Address(i, s, n)
      BY <2>2, <2>3, <2>5, <2>7 DEF Forest
    <3>3. p \in Nodes(v) /\ Home(at, p) = Address(i, s, n)
      BY <3>2, HomeFacts
    <3> QED
      BY <1>1, <2>1, <3>1, <3>3
  <2>8. CASE p = BlockNone
    <3>1. r = Extend(a, k, alloc_block_v(v))
      BY <1>1, <2>6, <2>8 DEF Follow
    <3>2. CASE alloc_block_v(v) = [vol |-> v, blk |-> BlockNone]
      <4>1. r = [vol |-> v, node |-> node, ok |-> FALSE]
        <5>1. r = Extend(a, k, [vol |-> v, blk |-> BlockNone])
          BY <3>1, <3>2
        <5> QED
          BY <1>1, <5>1 DEF Extend
      <4> QED
        BY <1>1, <4>1
    <3>3. ASSUME NEW b \in Blocks \ v.used, alloc_block_v(v) = [vol |-> AllocVol(v, b), blk |-> b]
          PROVE  \E w, to, m : \E q \in BOOLEAN :
                     /\ r = [vol |-> w, node |-> m, ok |-> q] /\ Grows(v, at, w, to)
                     /\ q => m \in Nodes(w) /\ Home(to, m) = Address(i, s, UpTo(n, s))
      <4> DEFINE w == SetPtr(AllocVol(v, b), node, k, b)
      <4>1. b # BlockNone
        BY Geometry
      <4> HIDE DEF k, p
      <4>2. r = [vol |-> w, node |-> b, ok |-> TRUE]
        <5> DEFINE u == AllocVol(v, b)
        <5> HIDE DEF u
        <5>1. r = Extend(a, k, [vol |-> u, blk |-> b])
          BY <3>1, <3>3 DEF u
        <5>2. r = [vol |-> SetPtr(u, node, k, b), node |-> b, ok |-> TRUE]
          BY <4>1, <5>1 DEF Extend
        <5> QED
          BY <5>2 DEF u
      <4> HIDE DEF w
      <4>3. Append(Home(at, node), k) = Address(i, s, n) /\ Append(Home(at, node), k) \in Addresses
        BY <2>2, <2>3
      <4>4. PICK to : Grows(v, at, w, to) /\ b \in w.used /\ to[b] = Append(Home(at, node), k)
        <5>1. PtrOf(v, node, k) = BlockNone
          BY <2>8 DEF p
        <5>2. w = SetPtr(AllocVol(v, b), node, k, b)
          BY DEF w
        <5>3. node \in Nodes(v) /\ k \in Width(node) /\ (node \in Inodes => v.inode[node].mode # "free")
          BY <2>3, <2>5
        <5>4. b \in Blocks \ v.used /\ Append(Home(at, node), k) \in Addresses
          BY <3>3, <4>3
        <5> QED
          BY <5>1, <5>2, <5>3, <5>4, LinkOne
      <4>5. b \in Nodes(w) /\ Home(to, b) = Address(i, s, n)
        BY <4>3, <4>4, Geometry DEF Nodes, Home
      <4> QED
        BY <2>1, <4>2, <4>4, <4>5
    <3> QED
      BY <3>2, <3>3, AllocBlock
  <2> QED
    BY <2>7, <2>8
<1>5. n > Len(s) \/ n <= Len(s)
  BY <1>2
<1> QED
  BY <1>3, <1>4, <1>5

LEMMA ReachStands ==
    ASSUME NEW v, NEW at, NEW i \in Inodes, v.inode[i].mode # "free", NEW s, PathTo(s),
           NEW n \in 1 .. 4, NEW before, before = n - 1, NEW a, Stands(v, at, i, s, before, a),
           NEW r, r = Reach(a, s, n)
    PROVE  Stands(v, at, i, s, n, r)
<1>1. PICK w, to, m : \E q \in BOOLEAN :
        /\ a = [vol |-> w, node |-> m, ok |-> q] /\ Grows(v, at, w, to)
        /\ q => m \in Nodes(w) /\ Home(to, m) = Address(i, s, UpTo(before, s))
  BY DEF Stands
<1>2. PICK q \in BOOLEAN :
        /\ a = [vol |-> w, node |-> m, ok |-> q] /\ Grows(v, at, w, to)
        /\ q => m \in Nodes(w) /\ Home(to, m) = Address(i, s, UpTo(before, s))
  BY <1>1
<1>3. /\ w \in Volume /\ to \in [Blocks -> Seq(Nat)] /\ Forest(w, to) /\ BlocksCounted(w)
      /\ w.inode[i].mode # "free"
  BY <1>2 DEF Grows
<1>4. Stands(w, to, i, s, n, r)
  <2>1. q => m \in Nodes(w) /\ Home(to, m) = Address(i, s, UpTo(before, s))
    BY <1>2
  <2>2. a = [vol |-> w, node |-> m, ok |-> q]
    BY <1>2
  <2> QED
    BY <1>3, <2>1, <2>2, ReachGrows
<1>5. PICK x, t, p : \E o \in BOOLEAN :
        /\ r = [vol |-> x, node |-> p, ok |-> o] /\ Grows(w, to, x, t)
        /\ o => p \in Nodes(x) /\ Home(t, p) = Address(i, s, UpTo(n, s))
  BY <1>4 DEF Stands
<1>6. Grows(v, at, x, t)
  BY <1>2, <1>5, GrowsOn
<1> QED
  BY <1>5, <1>6 DEF Stands

LEMMA CutEnds ==
    ASSUME NEW s, PathTo(s)
    PROVE  UpTo(0, s) = 0 /\ UpTo(4, s) = Len(s) /\ Len(s) \in 0 .. Len(s) /\ 0 \in 0 .. Len(s) /\ Len(s) + 1 # 1
<1>1. Len(s) \in 1 .. 4
  BY DEF PathTo
<1>2. ASSUME NEW n \in 1 .. 4
      PROVE  /\ (IF 0 < n THEN 0 ELSE n) = 0 /\ (IF 4 < n THEN 4 ELSE n) = n
             /\ n \in 0 .. n /\ 0 \in 0 .. n /\ n + 1 # 1
  OBVIOUS
<1> QED
  BY <1>1, <1>2 DEF UpTo

\* bmap_alloc: the block of the cell, and whatever pointer blocks lead to it.
LEMMA BmapAlloc ==
    ASSUME NEW v \in Volume, NEW at \in [Blocks -> Seq(Nat)], Forest(v, at), BlocksCounted(v),
           NEW i \in Inodes, v.inode[i].mode # "free", NEW lbn \in Nat,
           NEW r, r = bmap_alloc(v, i, lbn)
    PROVE  \E to : /\ Grows(v, at, r.vol, to)
                   /\ r.blk # BlockNone => r.blk \in r.vol.used /\ r.blk = map_lbn(r.vol, i, lbn)
<1>1. PICK s : s = LbnPath(lbn)
  OBVIOUS
<1>2. PICK a0 : a0 = [vol |-> v, node |-> i, ok |-> s # <<>>]
  OBVIOUS
<1>3. PICK a1 : a1 = Reach(a0, s, 1)
  OBVIOUS
<1>4. PICK a2 : a2 = Reach(a1, s, 2)
  OBVIOUS
<1>5. PICK a3 : a3 = Reach(a2, s, 3)
  OBVIOUS
<1>6. PICK a4 : a4 = Reach(a3, s, 4)
  OBVIOUS
<1>7. r = [vol |-> a4.vol, blk |-> IF a4.ok THEN a4.node ELSE BlockNone]
  BY <1>1, <1>2, <1>3, <1>4, <1>5, <1>6 DEF bmap_alloc
<1>8. CASE s = <<>>
  <2>1. ~a0.ok /\ a0.vol = v
    BY <1>2, <1>8
  <2>2. a1 = a0 /\ a2 = a0 /\ a3 = a0 /\ a4 = a0
    BY <1>3, <1>4, <1>5, <1>6, <2>1 DEF Reach
  <2>3. r.vol = v /\ r.blk = BlockNone
    BY <1>7, <2>1, <2>2
  <2> QED
    BY <2>3, GrowsSelf
<1>9. CASE s # <<>>
  <2>1. PathTo(s)
    BY <1>1, <1>9, PathFacts
  <2>2. Stands(v, at, i, s, 0, a0)
    <3>1. i \in Nodes(v) /\ Home(at, i) = Address(i, s, UpTo(0, s))
      BY <2>1, CutEnds, HomeFacts, AddressFacts
    <3> QED
      BY <1>2, <3>1, GrowsSelf DEF Stands
  <2>3. Stands(v, at, i, s, 1, a1)
    BY <1>3, <2>1, <2>2, ReachStands, 1 \in 1 .. 4, 0 = 1 - 1
  <2>4. Stands(v, at, i, s, 2, a2)
    BY <1>4, <2>1, <2>3, ReachStands, 2 \in 1 .. 4, 1 = 2 - 1
  <2>5. Stands(v, at, i, s, 3, a3)
    BY <1>5, <2>1, <2>4, ReachStands, 3 \in 1 .. 4, 2 = 3 - 1
  <2>6. Stands(v, at, i, s, 4, a4)
    BY <1>6, <2>1, <2>5, ReachStands, 4 \in 1 .. 4, 3 = 4 - 1
  <2>7. PICK w, to, m : \E q \in BOOLEAN :
          /\ a4 = [vol |-> w, node |-> m, ok |-> q] /\ Grows(v, at, w, to)
          /\ q => m \in Nodes(w) /\ Home(to, m) = Address(i, s, UpTo(4, s))
    BY <2>6 DEF Stands
  <2>8. /\ Grows(v, at, w, to) /\ a4.vol = w /\ a4.node = m
        /\ a4.ok => m \in Nodes(w) /\ Home(to, m) = Address(i, s, Len(s))
    BY <2>1, <2>7, CutEnds
  <2>9. ASSUME r.blk # BlockNone
        PROVE  r.blk \in w.used /\ r.blk = map_lbn(w, i, lbn)
    <3>1. a4.ok /\ r.blk = m
      BY <1>7, <2>8, <2>9
    <3>2. m \in Nodes(w) /\ Home(to, m) = Address(i, s, Len(s))
      BY <2>8, <3>1
    <3>3. w \in Volume /\ Forest(w, to)
      BY <2>8 DEF Grows
    <3>4. m \notin Inodes
      <4>1. SUFFICES ASSUME m \in Inodes PROVE FALSE
        OBVIOUS
      <4>2. Address(i, s, Len(s)) = <<m>> /\ Len(<<m>>) = 1
        BY <3>2, <4>1 DEF Home
      <4>3. Len(Address(i, s, Len(s))) = Len(s) + 1
        BY <2>1, CutEnds, AddressFacts
      <4> QED
        BY <2>1, <4>2, <4>3, CutEnds
    <3>5. m \in w.used /\ to[m] = Address(i, s, Len(s))
      BY <3>2, <3>4 DEF Nodes, Home
    <3>6. SlotHolds(w, to, AddressOf(i, lbn), m)
      BY <1>1, <2>9, <3>1, <3>5 DEF SlotHolds, AddressOf
    <3>7. SlotHolds(w, to, AddressOf(i, lbn), map_lbn(w, i, lbn))
      BY <1>1, <1>9, <3>3, MapIs
    <3>8. m = map_lbn(w, i, lbn)
      BY <3>3, <3>6, <3>7, HeldOnce
    <3> QED
      BY <3>1, <3>5, <3>8
  <2> QED
    BY <1>7, <2>8, <2>9
<1> QED
  BY <1>8, <1>9

-----------------------------------------------------------------------------
(* Directory entries *)

\* Where an entry may stand.
Places == {off \in Nat : dirent_align(off) = off /\ (off % BlockSize) % DirentSize = 0}
Index(off) == (off % BlockSize) \div DirentSize

LEMMA PlaceFacts ==
    ASSUME NEW off \in Nat
    PROVE  /\ off \div BlockSize \in Nat
           /\ off \in Places <=> (off % BlockSize) % DirentSize = 0 /\ (off % BlockSize) + DirentSize <= BlockSize
           /\ off \in Places => /\ Index(off) \in 0 .. EntsPerBlock - 1
                                /\ off = (BlockSize * (off \div BlockSize)) + DirentSize * Index(off)
<1> DEFINE pos == off % BlockSize
           q == off \div BlockSize
<1>1. BlockSize \in Nat \ {0} /\ DirentSize \in Nat \ {0}
  BY Geometry
<1>2. q \in Nat /\ pos \in 0 .. BlockSize - 1 /\ off = (BlockSize * q) + pos
  BY <1>1, Divided
<1>3. off \in Places <=> pos % DirentSize = 0 /\ pos + DirentSize <= BlockSize
  <2>1. off \in Places <=> dirent_align(off) = off /\ pos % DirentSize = 0
    BY DEF Places
  <2>2. dirent_align(off) = IF pos + DirentSize > BlockSize THEN off + BlockSize - pos ELSE off
    BY DEF dirent_align
  <2> HIDE DEF pos
  <2> QED
    BY <1>1, <1>2, <2>1, <2>2
<1>4. ASSUME off \in Places
      PROVE  /\ Index(off) \in 0 .. EntsPerBlock - 1
             /\ off = (BlockSize * q) + DirentSize * Index(off)
  <2>1. pos \in Nat
    BY <1>1, <1>2
  <2>2. /\ pos \div DirentSize \in Nat /\ pos % DirentSize = 0
        /\ pos = (DirentSize * (pos \div DirentSize)) + (pos % DirentSize)
    <3> HIDE DEF pos
    <3> QED
      BY <1>1, <1>3, <1>4, <2>1, Divided
  <2>3. PICK e \in Nat : e = pos \div DirentSize
    BY <2>2
  <2>4. pos = DirentSize * e
    BY <1>1, <2>1, <2>2, <2>3
  <2> HIDE DEF pos, q
  <2>5. DirentSize * e + DirentSize <= BlockSize
    BY <1>3, <1>4, <2>4
  <2>6. e < EntsPerBlock
    <3>1. PICK n \in Nat : n = BlockSize \div DirentSize
      BY <1>1, Divided
    <3>2. BlockSize % DirentSize \in 0 .. DirentSize - 1 /\ BlockSize = (DirentSize * n) + (BlockSize % DirentSize)
      BY <1>1, <3>1, Divided
    <3>3. n <= e => DirentSize * n <= DirentSize * e
      BY <1>1, <2>3
    <3>4. DirentSize * n \in Nat /\ DirentSize * e \in Nat
      BY <1>1
    <3>5. n > e
      BY <1>1, <2>5, <3>2, <3>3, <3>4
    <3> QED
      BY <3>1, <3>5 DEF EntsPerBlock
  <2>7. Index(off) = e
    BY <2>3 DEF Index, pos
  <2> QED
    BY <1>1, <1>2, <2>4, <2>6, <2>7, Geometry
<1> QED
  BY <1>2, <1>3, <1>4

\* Two places share neither block nor entry.
LEMMA PlacesDiffer ==
    ASSUME NEW o \in Places, NEW p \in Places, o \div BlockSize = p \div BlockSize, Index(o) = Index(p)
    PROVE  o = p
<1>1. o \in Nat /\ p \in Nat
  BY DEF Places
<1> QED
  BY <1>1, PlaceFacts

LEMMA DirOffsetsAre ==
    ASSUME NEW size \in Nat
    PROVE  DirOffsets(size) = {o \in Places : o + DirentSize <= size}
<1>1. \A o : o \in 0 .. size - DirentSize <=> o \in Nat /\ o + DirentSize <= size
  BY Geometry
<1> QED
  BY <1>1 DEF DirOffsets, Places

\* The block of an entry's cell: the one of its address, or none.
LEMMA EntryFacts ==
    ASSUME NEW v \in Volume, NEW at, Forest(v, at), NEW i \in Inodes, NEW o \in Places
    PROVE  /\ EntryAt(v, i, o) \in DirEntry
           /\ LET b == map_lbn(v, i, o \div BlockSize)
              IN  /\ b # BlockNone => b \in v.used /\ LbnPath(o \div BlockSize) # <<>>
                                      /\ at[b] = AddressOf(i, o \div BlockSize)
                                      /\ EntryAt(v, i, o) = v.data[b].ent[Index(o)]
                  /\ b = BlockNone => EntryAt(v, i, o) = NoEntry
<1> DEFINE l == o \div BlockSize
           b == map_lbn(v, i, l)
<1>1. o \in Nat /\ l \in Nat /\ Index(o) \in 0 .. EntsPerBlock - 1
  BY PlaceFacts DEF Places
<1>2. EntryAt(v, i, o) = IF b = BlockNone THEN NoEntry ELSE v.data[b].ent[Index(o)]
  BY DEF EntryAt, EntryIn, Index
<1> HIDE DEF l
<1>3. b # BlockNone => b \in v.used /\ LbnPath(l) # <<>> /\ at[b] = AddressOf(i, l)
  BY <1>1, MapIs DEF SlotHolds
<1> HIDE DEF b
<1>4. EntryAt(v, i, o) \in DirEntry
  <2>1. CASE b = BlockNone
    BY <1>2, <2>1, ZeroBlockFacts
  <2>2. CASE b # BlockNone
    <3>1. v.data[b] \in BlockRec
      BY <1>3, <2>2 DEF Volume
    <3> QED
      BY <1>1, <1>2, <2>2, <3>1 DEF BlockRec
  <2> QED
    BY <2>1, <2>2
<1> QED
  BY <1>2, <1>3, <1>4 DEF b, l

LEMMA GrowsEntries ==
    ASSUME NEW v \in Volume, NEW at, Forest(v, at), NEW w, NEW to, Grows(v, at, w, to),
           NEW i \in Inodes, NEW o \in Places
    PROVE  EntryAt(w, i, o) = EntryAt(v, i, o)
<1>1. PICK l : l = o \div BlockSize
  OBVIOUS
<1>2. PICK b : b = map_lbn(v, i, l)
  OBVIOUS
<1>3. PICK c : c = map_lbn(w, i, l)
  OBVIOUS
<1>4. PICK a : a = AddressOf(i, l)
  OBVIOUS
<1>5. o \in Nat /\ l \in Nat /\ Index(o) \in 0 .. EntsPerBlock - 1
  BY <1>1, PlaceFacts DEF Places
<1>6. /\ b # BlockNone => b \in v.used /\ EntryAt(v, i, o) = v.data[b].ent[Index(o)]
      /\ b = BlockNone => EntryAt(v, i, o) = NoEntry
  BY <1>1, <1>2, EntryFacts
<1>7. w \in Volume /\ Forest(w, to)
  BY DEF Grows
<1>8. /\ c # BlockNone => c \in w.used /\ EntryAt(w, i, o) = w.data[c].ent[Index(o)]
      /\ c = BlockNone => EntryAt(w, i, o) = NoEntry
  BY <1>1, <1>3, <1>7, EntryFacts
<1>9. CASE LbnPath(l) = <<>>
  <2>1. b = BlockNone /\ c = BlockNone
    BY <1>2, <1>3, <1>5, <1>7, <1>9, MapIs
  <2> QED
    BY <1>6, <1>8, <2>1
<1>10. CASE LbnPath(l) # <<>>
  <2>1. SlotHolds(v, at, a, b) /\ SlotHolds(w, to, a, c)
    BY <1>2, <1>3, <1>4, <1>5, <1>7, <1>10, MapIs
  <2>2. CASE b # BlockNone
    <3>1. b \in v.used /\ at[b] = a
      BY <2>1, <2>2 DEF SlotHolds
    <3>2. b \in w.used /\ to[b] = a /\ w.data[b].ent = v.data[b].ent
      BY <3>1 DEF Grows
    <3>3. SlotHolds(w, to, a, b)
      BY <2>2, <3>2 DEF SlotHolds
    <3>4. b = c
      BY <1>7, <2>1, <3>3, HeldOnce
    <3> QED
      BY <1>6, <1>8, <2>2, <3>2, <3>4
  <2>3. CASE b = BlockNone /\ c # BlockNone
    <3>1. c \in w.used /\ to[c] = a
      BY <2>1, <2>3 DEF SlotHolds
    <3>2. c \notin v.used
      <4>1. c \in v.used => at[c] = a
        BY <3>1 DEF Grows
      <4> QED
        BY <2>1, <2>3, <4>1 DEF SlotHolds
    <3>3. w.data[c].ent[Index(o)] = NoEntry
      BY <1>5, <3>1, <3>2 DEF Grows
    <3> QED
      BY <1>6, <1>8, <2>3, <3>3
  <2>4. CASE b = BlockNone /\ c = BlockNone
    BY <1>6, <1>8, <2>4
  <2> QED
    BY <2>2, <2>3, <2>4
<1> QED
  BY <1>9, <1>10

\* What only changes entries changes no address.
LEMMA SamePointers ==
    ASSUME NEW v \in Volume, NEW at, Forest(v, at), NEW w \in Volume, w.used = v.used,
           \A n \in Nodes(v) : \A k \in Width(n) : PtrOf(w, n, k) = PtrOf(v, n, k),
           \A i \in Inodes : w.inode[i].mode = "free" =>
               v.inode[i].mode = "free" \/ \A k \in 0 .. Direct + 2 : v.inode[i].ptr[k] = BlockNone
    PROVE  /\ Forest(w, at)
           /\ \A i \in Inodes, lbn \in Nat : map_lbn(w, i, lbn) = map_lbn(v, i, lbn)
<1>1. Nodes(w) = Nodes(v) /\ Inodes \subseteq Nodes(v)
  BY DEF Nodes
<1>2. Forest(w, at)
  <2>1. \A n \in Nodes(w) : \A k \in Width(n) : PtrOf(w, n, k) # BlockNone =>
           PtrOf(w, n, k) \in w.used /\ at[PtrOf(w, n, k)] = Append(Home(at, n), k)
    BY <1>1 DEF Forest
  <2>2. \A b \in w.used : \E n \in Nodes(w) : \E k \in Width(n) : PtrOf(w, n, k) = b
    <3>1. ASSUME NEW b \in w.used
          PROVE  \E n \in Nodes(w) : \E k \in Width(n) : PtrOf(w, n, k) = b
      <4>1. PICK n \in Nodes(v) : \E k \in Width(n) : PtrOf(v, n, k) = b
        BY DEF Forest
      <4>2. PICK k \in Width(n) : PtrOf(v, n, k) = b
        BY <4>1
      <4>3. PtrOf(w, n, k) = b
        BY <4>2
      <4> QED
        BY <1>1, <4>3
    <3> QED
      BY <3>1
  <2>3. \A i \in Inodes : w.inode[i].mode = "free" => \A k \in Width(i) : PtrOf(w, i, k) = BlockNone
    <3>1. ASSUME NEW i \in Inodes, w.inode[i].mode = "free" PROVE \A k \in Width(i) : PtrOf(v, i, k) = BlockNone
      <4>1. CASE v.inode[i].mode = "free"
        BY <4>1 DEF Forest
      <4>2. CASE \A k \in 0 .. Direct + 2 : v.inode[i].ptr[k] = BlockNone
        BY <4>2 DEF PtrOf, Width
      <4> QED
        BY <3>1, <4>1, <4>2
    <3> QED
      BY <1>1, <3>1
  <2>4. (\A b \in w.used : at[b] \in Addresses) /\ \A b, c \in w.used : at[b] = at[c] => b = c
    BY DEF Forest
  <2> QED
    BY <2>1, <2>2, <2>3, <2>4 DEF Forest
<1>3. ASSUME NEW i \in Inodes, NEW lbn \in Nat
      PROVE  map_lbn(w, i, lbn) = map_lbn(v, i, lbn)
  <2>1. CASE LbnPath(lbn) = <<>>
    BY <1>2, <2>1, MapIs
  <2>2. CASE LbnPath(lbn) # <<>>
    <3>1. SlotHolds(v, at, AddressOf(i, lbn), map_lbn(v, i, lbn))
      BY <2>2, MapIs
    <3>2. SlotHolds(w, at, AddressOf(i, lbn), map_lbn(w, i, lbn))
      BY <1>2, <2>2, MapIs
    <3>3. SlotHolds(v, at, AddressOf(i, lbn), map_lbn(w, i, lbn))
      BY <3>2 DEF SlotHolds
    <3> QED
      BY <3>1, <3>3, HeldOnce
  <2> QED
    BY <2>1, <2>2
<1> QED
  BY <1>2, <1>3

\* Writing the entry of a place writes no other.
LEMMA SetEntryFacts ==
    ASSUME NEW v \in Volume, NEW at, Forest(v, at), NEW dir \in Inodes, NEW off \in Places,
           map_lbn(v, dir, off \div BlockSize) # BlockNone, NEW e \in DirEntry,
           NEW w, w = SetEntry(v, dir, off, e)
    PROVE  /\ w \in Volume /\ Forest(w, at) /\ w.used = v.used /\ w.inode = v.inode
           /\ w.free_blocks = v.free_blocks /\ w.free_inodes = v.free_inodes
           /\ EntryAt(w, dir, off) = e
           /\ \A i \in Inodes, o \in Places : ~(i = dir /\ o = off) => EntryAt(w, i, o) = EntryAt(v, i, o)
<1>1. PICK l : l = off \div BlockSize
  OBVIOUS
<1>2. PICK b : b = map_lbn(v, dir, l)
  OBVIOUS
<1>3. PICK x : x = Index(off)
  OBVIOUS
<1>4. off \in Nat /\ l \in Nat /\ x \in 0 .. EntsPerBlock - 1
  BY <1>1, <1>3, PlaceFacts DEF Places
<1>5. b # BlockNone /\ b \in v.used /\ LbnPath(l) # <<>> /\ at[b] = AddressOf(dir, l) /\ b \in Blocks
  <2>1. b # BlockNone
    BY <1>1, <1>2
  <2> QED
    BY <1>1, <1>2, <2>1, EntryFacts DEF Volume
<1> DEFINE r == [v.data[b] EXCEPT !.ent[x] = e]
           f == [v.data EXCEPT ![b] = r]
<1>6. v.data \in [Blocks -> BlockRec] /\ v.data[b] \in BlockRec
  BY <1>5 DEF Volume
<1>7. /\ r \in BlockRec /\ r.ptr = v.data[b].ptr
      /\ r.ent = [v.data[b].ent EXCEPT ![x] = e] /\ v.data[b].ent \in [0 .. EntsPerBlock - 1 -> DirEntry]
  BY <1>4, <1>6 DEF BlockRec
<1>8. w = [v EXCEPT !.data[b] = r]
  BY <1>1, <1>2, <1>3, <1>4, <1>5, <1>6 DEF SetEntry, Volume, BlockRec, Index
<1> HIDE DEF r
<1>9. f \in [Blocks -> BlockRec] /\ f[b] = r /\ \A y \in Blocks : y # b => f[y] = v.data[y]
  BY <1>5, <1>6, <1>7
<1> HIDE DEF f
<1>10. /\ w \in Volume /\ w.used = v.used /\ w.free_blocks = v.free_blocks /\ w.free_inodes = v.free_inodes
       /\ w.data = f /\ w.inode = v.inode
  <2>1. w = [v EXCEPT !.data = f]
    BY <1>8 DEF f, Volume
  <2> QED
    BY <1>9, <2>1 DEF Volume
<1>11. \A n \in Nodes(v) : \A k \in Width(n) : PtrOf(w, n, k) = PtrOf(v, n, k)
  <2>1. ASSUME NEW n \in Nodes(v), NEW k \in Width(n) PROVE PtrOf(w, n, k) = PtrOf(v, n, k)
    <3>1. CASE n \in Inodes
      BY <1>10, <3>1 DEF PtrOf
    <3>2. CASE n \notin Inodes
      <4>1. n \in Blocks
        BY <3>2 DEF Nodes, Volume
      <4>2. f[n].ptr = v.data[n].ptr
        BY <1>7, <1>9, <4>1
      <4> QED
        BY <1>10, <3>2, <4>2 DEF PtrOf
    <3> QED
      BY <3>1, <3>2
  <2> QED
    BY <2>1
<1>12. Forest(w, at) /\ \A i \in Inodes, lbn \in Nat : map_lbn(w, i, lbn) = map_lbn(v, i, lbn)
  BY <1>10, <1>11, SamePointers
<1>13. EntryAt(w, dir, off) = e
  <2>1. map_lbn(w, dir, l) = b
    BY <1>2, <1>4, <1>12
  <2>2. EntryAt(w, dir, off) = w.data[b].ent[x]
    BY <1>1, <1>3, <1>5, <1>10, <1>12, <2>1, EntryFacts
  <2> QED
    BY <1>4, <1>7, <1>9, <1>10, <2>2
<1>14. ASSUME NEW i \in Inodes, NEW o \in Places, ~(i = dir /\ o = off)
       PROVE  EntryAt(w, i, o) = EntryAt(v, i, o)
  <2>1. PICK m : m = o \div BlockSize
    OBVIOUS
  <2>2. PICK c : c = map_lbn(v, i, m)
    OBVIOUS
  <2>3. o \in Nat /\ m \in Nat /\ Index(o) \in 0 .. EntsPerBlock - 1
    BY <2>1, PlaceFacts DEF Places
  <2>4. c = map_lbn(w, i, m)
    BY <1>12, <2>2, <2>3
  <2>5. CASE c = BlockNone
    BY <1>10, <1>12, <2>1, <2>2, <2>4, <2>5, EntryFacts
  <2>6. CASE c # BlockNone
    <3>1. /\ EntryAt(v, i, o) = v.data[c].ent[Index(o)] /\ c \in v.used
          /\ LbnPath(m) # <<>> /\ at[c] = AddressOf(i, m)
      BY <2>1, <2>2, <2>6, EntryFacts
    <3>2. EntryAt(w, i, o) = f[c].ent[Index(o)]
      BY <1>10, <1>12, <2>1, <2>4, <2>6, EntryFacts
    <3>3. c \in Blocks
      BY <3>1 DEF Volume
    <3>4. CASE c # b
      BY <1>9, <3>1, <3>2, <3>3, <3>4
    <3>5. CASE c = b
      <4>1. i = dir /\ m = l
        BY <1>4, <1>5, <2>3, <3>1, <3>5, AddressesDiffer
      <4>2. Index(o) # x
        BY <1>1, <1>3, <1>14, <2>1, <4>1, PlacesDiffer
      <4> QED
        BY <1>7, <1>9, <2>3, <3>1, <3>2, <3>5, <4>2
    <3> QED
      BY <3>4, <3>5
  <2> QED
    BY <2>5, <2>6
<1> QED
  BY <1>10, <1>12, <1>13, <1>14

-----------------------------------------------------------------------------
(* Freeing a file *)

Kids(v, S) == {c \in Blocks : \E x \in S : \E i \in 0 .. PtrsPerBlock - 1 : v.data[x].ptr[i] = c}

LEMMA KidsAre ==
    ASSUME NEW v, NEW S, NEW y
    PROVE  y \in Kids(v, S) <=>
               y \in Blocks /\ \E x \in S : \E j \in 0 .. PtrsPerBlock - 1 : v.data[x].ptr[j] = y
  BY DEF Kids

\* The blocks below slot k of inode i.
Strand(v, at, i, k) == {b \in v.used : at[b][1] = i /\ at[b][2] = k}

\* Below a block of a file are blocks of that file.
LEMMA KidsOf ==
    ASSUME NEW v \in Volume, NEW at, Forest(v, at), NEW i, NEW k, NEW S, S \subseteq Strand(v, at, i, k)
    PROVE  Kids(v, S) \subseteq Strand(v, at, i, k)
<1> SUFFICES ASSUME NEW y \in Kids(v, S) PROVE y \in v.used /\ at[y][1] = i /\ at[y][2] = k
  BY DEF Strand
<1>0. PICK x \in S : \E j \in 0 .. PtrsPerBlock - 1 : v.data[x].ptr[j] = y /\ y # BlockNone
  BY KidsAre, Geometry
<1>1. PICK j \in 0 .. PtrsPerBlock - 1 : v.data[x].ptr[j] = y /\ y # BlockNone
  BY <1>0
<1>2. x \in v.used /\ at[x][1] = i /\ at[x][2] = k
  BY DEF Strand
<1>3. x \in Nodes(v) /\ x \notin Inodes /\ Home(at, x) = at[x] /\ Len(at[x]) >= 2 /\ at[x] \in Seq(Nat)
  <2>1. at[x] \in Addresses
    BY <1>2 DEF Forest
  <2>2. at[x] \in Seq(Nat)
    BY <2>1 DEF Addresses
  <2> QED
    BY <1>2, <2>2, HomeFacts
<1>4. PtrOf(v, x, j) = y /\ j \in Width(x)
  BY <1>1, <1>3 DEF PtrOf, Width
<1>5. y \in v.used /\ at[y] = Append(at[x], j)
  <2>1. SlotHolds(v, at, Append(Home(at, x), j), PtrOf(v, x, j))
    BY <1>3, <1>4, StepDown
  <2> QED
    BY <1>1, <1>3, <1>4, <2>1 DEF SlotHolds
<1>6. Append(at[x], j)[1] = at[x][1] /\ Append(at[x], j)[2] = at[x][2]
  <2>1. j \in Nat
    OBVIOUS
  <2> QED
    BY <1>3, <2>1
<1> QED
  BY <1>2, <1>5, <1>6

\* c hangs on n.
Hangs(v, at, n, c) ==
    /\ c \in Kids(v, {n}) /\ Len(at[n]) + 1 = Len(at[c]) /\ Len(at[n]) \in Nat
    /\ at[n][1] = at[c][1] /\ at[n][2] = at[c][2]

\* A block two indices or more down hangs on a block that is one index less down.
LEMMA Above ==
    ASSUME NEW v \in Volume, NEW at, Forest(v, at), NEW c \in v.used, Len(at[c]) # 2
    PROVE  \E n \in v.used : Hangs(v, at, n, c)
<1>1. PICK n \in Nodes(v) : \E l \in Width(n) : PtrOf(v, n, l) = c
  BY DEF Forest
<1>2. PICK l \in Width(n) : PtrOf(v, n, l) = c
  BY <1>1
<1>3. c # BlockNone
  BY Geometry DEF Volume
<1>4. at[c] = Append(Home(at, n), l)
  BY <1>2, <1>3 DEF Forest
<1>5. Home(at, n) \in Seq(Nat) /\ l \in Nat
  BY HomeFacts, NodeFacts
<1>6. n \notin Inodes
  <2>1. SUFFICES ASSUME n \in Inodes PROVE FALSE
    OBVIOUS
  <2>2. Home(at, n) = <<n>> /\ n \in Nat
    BY <2>1, HomeFacts
  <2>3. Len(Append(<<n>>, l)) = 2
    BY <2>2, <1>5
  <2> QED
    BY <1>4, <2>2, <2>3
<1>7. n \in v.used /\ Home(at, n) = at[n] /\ Len(at[n]) >= 2
  BY <1>6, HomeFacts DEF Nodes
<1>8. c \in Kids(v, {n})
  <2>1. l \in 0 .. PtrsPerBlock - 1 /\ c = v.data[n].ptr[l]
    BY <1>2, <1>6 DEF PtrOf, Width
  <2> QED
    BY <1>3, <2>1, KidsAre DEF Volume
<1>9. /\ Len(Append(at[n], l)) = Len(at[n]) + 1 /\ Len(at[n]) \in Nat
      /\ Append(at[n], l)[1] = at[n][1] /\ Append(at[n], l)[2] = at[n][2]
  BY <1>5, <1>7
<1> QED
  BY <1>4, <1>7, <1>8, <1>9 DEF Hangs

LEMMA BelowAre ==
    ASSUME NEW v \in Volume, NEW at, Forest(v, at), NEW i \in Inodes, NEW k \in 0 .. Direct + 2
    PROVE  Below(v, v.inode[i].ptr[k], Depth(k)) = Strand(v, at, i, k)
<1>1. PICK d : d = Depth(k)
  OBVIOUS
<1>2. PICK top : top = {v.inode[i].ptr[k]} \ {BlockNone}
  OBVIOUS
<1>3. PICK one : one = IF d >= 1 THEN Kids(v, top) ELSE {}
  OBVIOUS
<1>4. PICK two : two = IF d >= 2 THEN Kids(v, one) ELSE {}
  OBVIOUS
<1>5. PICK three : three = IF d >= 3 THEN Kids(v, two) ELSE {}
  OBVIOUS
<1>6. Below(v, v.inode[i].ptr[k], Depth(k)) = top \cup one \cup two \cup three
  BY <1>1, <1>2, <1>3, <1>4, <1>5 DEF Below, Kids
<1>7. d \in 0 .. 3 /\ k \in Nat /\ i \in Nat /\ i \in Nodes(v) /\ Home(at, i) = <<i>> /\ k \in Width(i)
  <2>1. d \in 0 .. 3 /\ k \in Nat
    BY <1>1, Geometry DEF Depth
  <2>2. i \in Nat /\ i \in Nodes(v) /\ Home(at, i) = <<i>>
    BY HomeFacts
  <2>3. k \in Width(i)
    BY DEF Width
  <2> QED
    BY <2>1, <2>2, <2>3
<1>8. top \cup one \cup two \cup three \subseteq Strand(v, at, i, k)
  <2>1. top \subseteq Strand(v, at, i, k)
    <3>1. ASSUME NEW x \in top PROVE x \in v.used /\ at[x][1] = i /\ at[x][2] = k
      <4>1. x = PtrOf(v, i, k) /\ x # BlockNone
        BY <1>2 DEF PtrOf
      <4>2. x \in v.used /\ at[x] = Append(<<i>>, k)
        BY <1>7, <4>1 DEF Forest
      <4>3. Append(<<i>>, k)[1] = i /\ Append(<<i>>, k)[2] = k
        BY <1>7
      <4> QED
        BY <4>2, <4>3
    <3> QED
      BY <3>1 DEF Strand
  <2>2. one \subseteq Strand(v, at, i, k)
    BY <1>3, <2>1, KidsOf
  <2>3. two \subseteq Strand(v, at, i, k)
    BY <1>4, <2>2, KidsOf
  <2>4. three \subseteq Strand(v, at, i, k)
    BY <1>5, <2>3, KidsOf
  <2> QED
    BY <2>1, <2>2, <2>3, <2>4
<1>9. ASSUME NEW b \in v.used, at[b][1] = i, at[b][2] = k
      PROVE  b \in top \cup one \cup two \cup three
  <2>1. \A S, T, y : S \subseteq T /\ y \in Kids(v, S) => y \in Kids(v, T)
    BY KidsAre
  <2>2. ASSUME NEW c \in v.used, Len(at[c]) = 2, at[c][1] = i, at[c][2] = k
        PROVE  c \in top
    <3>1. at[c] \in Seq(Nat)
      BY DEF Forest, Addresses
    <3>2. at[c] = Append(Home(at, i), k)
      <4>1. Append(<<i>>, k) \in Seq(Nat) /\ Len(Append(<<i>>, k)) = 2
            /\ Append(<<i>>, k)[1] = i /\ Append(<<i>>, k)[2] = k
        BY <1>7
      <4>2. \A j \in 1 .. 2 : j = 1 \/ j = 2
        OBVIOUS
      <4>3. at[c] = Append(<<i>>, k)
        BY <2>2, <3>1, <4>1, <4>2, SeqEqual
      <4> QED
        BY <1>7, <4>3
    <3>3. PtrOf(v, i, k) = c
      <4>1. i \in Nodes(v) /\ k \in Nat
        BY <1>7
      <4> QED
        BY <3>2, <4>1, ChildAt
    <3>4. c # BlockNone
      BY Geometry DEF Volume
    <3> QED
      BY <1>2, <3>3, <3>4 DEF PtrOf
  <2>3. ASSUME NEW c \in v.used, NEW m \in 2 .. 4, Len(at[c]) = m + 1, at[c][1] = i, at[c][2] = k,
               NEW T, \A x \in v.used : Len(at[x]) = m /\ at[x][1] = i /\ at[x][2] = k => x \in T
        PROVE  c \in Kids(v, T)
    <3>1. Len(at[c]) # 2
      BY <2>3
    <3>2. PICK n \in v.used : Hangs(v, at, n, c)
      BY <3>1, Above
    <3>3. Len(at[n]) = m
      BY <2>3, <3>2 DEF Hangs
    <3>4. {n} \subseteq T
      BY <2>3, <3>2, <3>3 DEF Hangs
    <3> QED
      BY <2>1, <3>2, <3>4 DEF Hangs
  <2>4. PICK len : len = Len(at[b])
    OBVIOUS
  <2>5. len \in Nat /\ 2 <= len /\ len <= d + 2
    <3>1. at[b] \in Addresses
      BY DEF Forest
    <3> QED
      BY <1>1, <1>9, <2>4, <3>1 DEF Addresses
  <2>6. d >= 1 => \A c \in v.used : Len(at[c]) = 3 /\ at[c][1] = i /\ at[c][2] = k => c \in one
    BY <1>3, <2>2, <2>3, 2 \in 2 .. 4, 2 + 1 = 3
  <2>7. d >= 2 => \A c \in v.used : Len(at[c]) = 4 /\ at[c][1] = i /\ at[c][2] = k => c \in two
    <3>1. d >= 2 => d >= 1
      BY <1>7
    <3> QED
      BY <1>4, <2>3, <2>6, <3>1, 3 \in 2 .. 4, 3 + 1 = 4
  <2>8. d >= 3 => \A c \in v.used : Len(at[c]) = 5 /\ at[c][1] = i /\ at[c][2] = k => c \in three
    <3>1. d >= 3 => d >= 2
      BY <1>7
    <3> QED
      BY <1>5, <2>3, <2>7, <3>1, 4 \in 2 .. 4, 4 + 1 = 5
  <2>9. len = 2 \/ (len = 3 /\ d >= 1) \/ (len = 4 /\ d >= 2) \/ (len = 5 /\ d >= 3)
    BY <1>7, <2>5
  <2> QED
    BY <1>9, <2>2, <2>4, <2>6, <2>7, <2>8, <2>9
<1> QED
  BY <1>6, <1>8, <1>9 DEF Strand

\* The blocks of a file are those with an address in it.
LEMMA OwnedAre ==
    ASSUME NEW v \in Volume, NEW at, Forest(v, at), NEW i \in Inodes
    PROVE  OwnedBlocks(v, i) = {b \in v.used : at[b][1] = i}
<1>1. \A b : b \in OwnedBlocks(v, i) <=>
             \E k \in 0 .. Direct + 2 : b \in Below(v, v.inode[i].ptr[k], Depth(k))
  BY DEF OwnedBlocks
<1>2. \A b : b \in OwnedBlocks(v, i) <=> \E k \in 0 .. Direct + 2 : b \in v.used /\ at[b][1] = i /\ at[b][2] = k
  BY <1>1, BelowAre DEF Strand
<1>3. \A b \in v.used : at[b][2] \in 0 .. Direct + 2
  BY DEF Forest, Addresses
<1> QED
  BY <1>2, <1>3

\* An address starts with its file.
LEMMA FirstOf ==
    ASSUME NEW v \in Volume, NEW at, Forest(v, at), NEW n \in Nodes(v), NEW k \in Width(n),
           PtrOf(v, n, k) # BlockNone
    PROVE  /\ at[PtrOf(v, n, k)][1] = Home(at, n)[1] /\ PtrOf(v, n, k) \in v.used
           /\ n \in Inodes => Home(at, n)[1] = n
           /\ n \notin Inodes => n \in v.used /\ Home(at, n)[1] = at[n][1]
<1>1. PICK b : b = PtrOf(v, n, k)
  OBVIOUS
<1>2. b \in v.used /\ at[b] = Append(Home(at, n), k)
  BY <1>1 DEF Forest
<1>3. Home(at, n) \in Seq(Nat) /\ k \in Nat
  BY HomeFacts, NodeFacts
<1>4. CASE n \in Inodes
  <2>1. Home(at, n) = <<n>> /\ n \in Nat
    BY <1>4, HomeFacts
  <2>2. Append(<<n>>, k)[1] = n /\ <<n>>[1] = n
    BY <1>3, <2>1
  <2> QED
    BY <1>1, <1>2, <1>4, <2>1, <2>2
<1>5. CASE n \notin Inodes
  <2>1. n \in v.used /\ Home(at, n) = at[n] /\ Len(at[n]) >= 2
    BY <1>5, HomeFacts DEF Nodes
  <2>2. Append(at[n], k)[1] = at[n][1]
    BY <1>3, <2>1
  <2> QED
    BY <1>1, <1>2, <1>5, <2>1, <2>2
<1> QED
  BY <1>4, <1>5

LEMMA AddressStarts ==
    ASSUME NEW i \in Inodes, NEW lbn \in Nat, LbnPath(lbn) # <<>>
    PROVE  AddressOf(i, lbn)[1] = i
<1>1. PICK s : s = LbnPath(lbn)
  OBVIOUS
<1>2. PathTo(s)
  BY <1>1, PathFacts
<1>3. PICK n : n = Len(s)
  OBVIOUS
<1>4. n \in 1 .. 4
  BY <1>2, <1>3 DEF PathTo
<1>5. Address(i, s, n)[1] = i
  BY <1>4 DEF Address
<1> QED
  BY <1>1, <1>3, <1>5 DEF AddressOf

\* Taking used blocks out of the bitmap.
LEMMA Freeing ==
    ASSUME NEW v \in Volume, BlocksCounted(v), NEW S \in SUBSET v.used, NEW w, w = free_block_v(v, S)
    PROVE  /\ w \in Volume /\ BlocksCounted(w) /\ w.used = v.used \ S /\ w.inode = v.inode
           /\ w.free_inodes = v.free_inodes
           /\ \A b \in w.used : w.data[b] = v.data[b]
<1>1. PICK f : f = [b \in Blocks |-> IF b \in S THEN ZeroBlock ELSE v.data[b]]
  OBVIOUS
<1>2. f \in [Blocks -> BlockRec] /\ \A b \in Blocks \ S : f[b] = v.data[b]
  BY <1>1, ZeroBlockFacts DEF Volume
<1>3. IsFiniteSet(S) /\ IsFiniteSet(Blocks \ v.used) /\ S \subseteq Blocks /\ (Blocks \ v.used) \cap S = {}
  BY Geometry, FS_Subset DEF Volume
<1>4. Cardinality(S) \in Nat /\ Cardinality(Blocks \ v.used) \in Nat
  BY <1>3, FS_CardinalityType
<1>5. Cardinality((Blocks \ v.used) \cup S) = Cardinality(Blocks \ v.used) + Cardinality(S)
  <2>1. Cardinality((Blocks \ v.used) \cup S)
            = Cardinality(Blocks \ v.used) + Cardinality(S) - Cardinality((Blocks \ v.used) \cap S)
    BY <1>3, FS_Union
  <2>2. Cardinality((Blocks \ v.used) \cap S) = 0
    BY <1>3, FS_EmptySet
  <2> QED
    BY <1>4, <2>1, <2>2
<1>6. PICK n : n = v.free_blocks + Cardinality(S)
  OBVIOUS
<1>7. n \in Nat
  BY <1>4, <1>6 DEF Volume
<1>8. w = [v EXCEPT !.used = v.used \ S, !.data = f, !.free_blocks = n]
  <2>1. S \cap v.used = S
    OBVIOUS
  <2>2. w = [v EXCEPT !.used = v.used \ (S \cap v.used),
                  !.data = [b \in Blocks |-> IF b \in (S \cap v.used) THEN ZeroBlock ELSE v.data[b]],
                  !.free_blocks = v.free_blocks + Cardinality(S \cap v.used)]
    BY DEF free_block_v, Volume
  <2> QED
    BY <2>1, <2>2, <1>1, <1>6
<1>9. /\ w.used = v.used \ S /\ w.data = f /\ w.free_blocks = n /\ w.inode = v.inode
      /\ w.free_inodes = v.free_inodes /\ w \in Volume
  BY <1>2, <1>7, <1>8 DEF Volume
<1>10. Blocks \ w.used = (Blocks \ v.used) \cup S
  BY <1>3, <1>9
<1>11. BlocksCounted(w)
  BY <1>5, <1>6, <1>9, <1>10 DEF BlocksCounted
<1> QED
  BY <1>2, <1>9, <1>11 DEF Volume

\* free_all_blocks takes away the blocks of the inode and nothing else.
Rid(v, at, i, w) ==
    /\ w \in Volume /\ Forest(w, at) /\ BlocksCounted(w) /\ w.free_inodes = v.free_inodes
    /\ w.used = {b \in v.used : at[b][1] # i}
    /\ \A k \in 0 .. Direct + 2 : w.inode[i].ptr[k] = BlockNone
    /\ \A j \in Inodes : w.inode[j].mode = v.inode[j].mode /\ w.inode[j].size = v.inode[j].size
    /\ \A j \in Inodes \ {i}, o \in Places : EntryAt(w, j, o) = EntryAt(v, j, o)

LEMMA FreeAll ==
    ASSUME NEW v \in Volume, NEW at, Forest(v, at), BlocksCounted(v), NEW i \in Inodes,
           NEW w, w = free_all_blocks(v, i)
    PROVE  Rid(v, at, i, w)
<1>1. PICK S : S = OwnedBlocks(v, i)
  OBVIOUS
<1>2. S = {b \in v.used : at[b][1] = i}
  BY <1>1, OwnedAre
<1>3. PICK u : u = free_block_v(v, S)
  OBVIOUS
<1>4. /\ u \in Volume /\ BlocksCounted(u) /\ u.used = v.used \ S /\ u.inode = v.inode
      /\ u.free_inodes = v.free_inodes
      /\ \A b \in u.used : u.data[b] = v.data[b]
  <2>1. S \in SUBSET v.used
    BY <1>2
  <2> QED
    BY <1>3, <2>1, Freeing
<1>5. PICK r : r = [u.inode[i] EXCEPT !.ptr = ZeroInode.ptr]
  OBVIOUS
<1>6. u.inode[i] \in InodeRec /\ ZeroInode.ptr \in [0 .. Direct + 2 -> Pointer] /\ u.inode \in [Inodes -> InodeRec]
  BY <1>4, ZeroBlockFacts DEF Volume, InodeRec
<1>7. r \in InodeRec /\ r.ptr = ZeroInode.ptr /\ r.mode = u.inode[i].mode /\ r.size = u.inode[i].size
  BY <1>5, <1>6 DEF InodeRec
<1>8. w = [u EXCEPT !.inode[i] = r]
  BY <1>1, <1>3, <1>4, <1>5, <1>6 DEF free_all_blocks, Volume
<1>9. PICK f : f = [u.inode EXCEPT ![i] = r]
  OBVIOUS
<1>10. f \in [Inodes -> InodeRec] /\ f[i] = r /\ \A j \in Inodes : j # i => f[j] = u.inode[j]
  BY <1>6, <1>7, <1>9
<1>11. w = [u EXCEPT !.inode = f]
  BY <1>4, <1>8, <1>9 DEF Volume
<1>12. /\ w \in Volume /\ w.used = u.used /\ w.inode = f /\ w.data = u.data
       /\ w.free_blocks = u.free_blocks /\ w.free_inodes = u.free_inodes
  BY <1>4, <1>10, <1>11 DEF Volume
<1>13. w.used = {b \in v.used : at[b][1] # i} /\ w.used \subseteq v.used /\ Nodes(w) \subseteq Nodes(v)
  BY <1>2, <1>4, <1>12 DEF Nodes
<1>14. BlocksCounted(w)
  BY <1>4, <1>12 DEF BlocksCounted
<1>15. \A k \in 0 .. Direct + 2 : w.inode[i].ptr[k] = BlockNone
  BY <1>7, <1>10, <1>12, ZeroBlockFacts
<1>16. \A j \in Inodes : w.inode[j].mode = v.inode[j].mode /\ w.inode[j].size = v.inode[j].size
  BY <1>4, <1>7, <1>10, <1>12
<1>17. \A n \in Nodes(w) : n # i => \A k \in Width(n) : PtrOf(w, n, k) = PtrOf(v, n, k)
  <2>1. ASSUME NEW n \in Nodes(w), n # i, NEW k \in Width(n) PROVE PtrOf(w, n, k) = PtrOf(v, n, k)
    <3>1. CASE n \in Inodes
      BY <1>4, <1>10, <1>12, <2>1, <3>1 DEF PtrOf
    <3>2. CASE n \notin Inodes
      BY <1>4, <1>12, <3>2 DEF PtrOf, Nodes
    <3> QED
      BY <3>1, <3>2
  <2> QED
    BY <2>1
<1>18. \A k \in Width(i) : PtrOf(w, i, k) = BlockNone
  BY <1>15 DEF PtrOf, Width
<1>19. Forest(w, at)
  <2>1. ASSUME NEW n \in Nodes(w), NEW k \in Width(n), PtrOf(w, n, k) # BlockNone
        PROVE  PtrOf(w, n, k) \in w.used /\ at[PtrOf(w, n, k)] = Append(Home(at, n), k)
    <3>1. n # i /\ n \in Nodes(v)
      BY <1>13, <1>18, <2>1
    <3>2. PtrOf(w, n, k) = PtrOf(v, n, k)
      BY <1>17, <3>1
    <3>3. PtrOf(v, n, k) \in v.used /\ at[PtrOf(v, n, k)] = Append(Home(at, n), k)
      BY <2>1, <3>1, <3>2 DEF Forest
    <3>4. at[PtrOf(v, n, k)][1] # i
      <4>1. CASE n \in Inodes
        BY <2>1, <3>1, <3>2, <4>1, FirstOf
      <4>2. CASE n \notin Inodes
        <5>1. n \in w.used
          BY <4>2 DEF Nodes
        <5>2. at[n][1] # i
          BY <1>13, <5>1
        <5> QED
          BY <2>1, <3>1, <3>2, <4>2, <5>2, FirstOf
      <4> QED
        BY <4>1, <4>2
    <3> QED
      BY <1>13, <3>2, <3>3, <3>4
  <2>2. ASSUME NEW b \in w.used PROVE \E n \in Nodes(w) : \E k \in Width(n) : PtrOf(w, n, k) = b
    <3>1. b \in v.used /\ at[b][1] # i /\ b # BlockNone
      BY <1>13, Geometry DEF Volume
    <3>2. PICK n \in Nodes(v) : \E k \in Width(n) : PtrOf(v, n, k) = b
      BY <3>1 DEF Forest
    <3>3. PICK k \in Width(n) : PtrOf(v, n, k) = b
      BY <3>2
    <3>4. n # i /\ n \in Nodes(w)
      <4>1. CASE n \in Inodes
        <5>1. at[b][1] = n
          BY <3>1, <3>3, <4>1, FirstOf
        <5> QED
          BY <3>1, <4>1, <5>1 DEF Nodes
      <4>2. CASE n \notin Inodes
        <5>1. n \in v.used /\ at[b][1] = at[n][1]
          BY <3>1, <3>3, <4>2, FirstOf
        <5> QED
          BY <1>13, <3>1, <4>2, <5>1 DEF Nodes
      <4> QED
        BY <4>1, <4>2
    <3> QED
      BY <1>17, <3>3, <3>4
  <2>3. \A j \in Inodes : w.inode[j].mode = "free" => \A k \in Width(j) : PtrOf(w, j, k) = BlockNone
    <3>1. ASSUME NEW j \in Inodes, w.inode[j].mode = "free", NEW k \in Width(j), j # i
          PROVE  PtrOf(w, j, k) = BlockNone
      <4>1. PtrOf(v, j, k) = BlockNone
        BY <1>16, <3>1 DEF Forest
      <4>2. j \in Nodes(w)
        BY DEF Nodes
      <4> QED
        BY <1>17, <3>1, <4>1, <4>2
    <3> QED
      BY <1>18, <3>1
  <2>4. (\A b \in w.used : at[b] \in Addresses) /\ \A b, c \in w.used : at[b] = at[c] => b = c
    BY <1>13 DEF Forest
  <2> QED
    BY <2>1, <2>2, <2>3, <2>4 DEF Forest
<1>20. ASSUME NEW j \in Inodes \ {i}, NEW o \in Places PROVE EntryAt(w, j, o) = EntryAt(v, j, o)
  <2>1. PICK l : l = o \div BlockSize
    OBVIOUS
  <2>2. l \in Nat
    BY <2>1, PlaceFacts DEF Places
  <2>3. map_lbn(w, j, l) = map_lbn(v, j, l)
    <3>1. CASE LbnPath(l) = <<>>
      BY <1>12, <1>19, <2>2, <3>1, MapIs
    <3>2. CASE LbnPath(l) # <<>>
      <4>1. PICK a : a = AddressOf(j, l)
        OBVIOUS
      <4>2. PICK b : b = map_lbn(w, j, l)
        OBVIOUS
      <4>3. PICK c : c = map_lbn(v, j, l)
        OBVIOUS
      <4>4. SlotHolds(w, at, a, b) /\ SlotHolds(v, at, a, c)
        BY <1>12, <1>19, <2>2, <3>2, <4>1, <4>2, <4>3, MapIs
      <4>5. a[1] = j
        BY <2>2, <3>2, <4>1, AddressStarts
      <4>6. SlotHolds(v, at, a, b)
        BY <1>13, <4>4, <4>5 DEF SlotHolds
      <4>7. b = c
        BY <4>4, <4>6, HeldOnce
      <4> QED
        BY <4>2, <4>3, <4>7
    <3> QED
      BY <3>1, <3>2
  <2>4. PICK b : b = map_lbn(w, j, l)
    OBVIOUS
  <2>5. CASE b = BlockNone
    BY <1>12, <1>19, <2>1, <2>3, <2>4, <2>5, EntryFacts
  <2>6. CASE b # BlockNone
    <3>1. EntryAt(w, j, o) = w.data[b].ent[Index(o)] /\ b \in w.used
      BY <1>12, <1>19, <2>1, <2>4, <2>6, EntryFacts
    <3>2. EntryAt(v, j, o) = v.data[b].ent[Index(o)]
      BY <2>1, <2>3, <2>4, <2>6, EntryFacts
    <3> QED
      BY <1>4, <1>12, <3>1, <3>2
  <2> QED
    BY <2>5, <2>6
<1> QED
  BY <1>4, <1>12, <1>13, <1>14, <1>15, <1>16, <1>19, <1>20 DEF Rid

-----------------------------------------------------------------------------
(* The blocks of a forest are reached once *)

\* No block belongs to a free inode.
LEMMA InUse ==
    ASSUME NEW v \in Volume, NEW at, Forest(v, at), NEW b \in v.used
    PROVE  at[b][1] \in Inodes /\ v.inode[at[b][1]].mode # "free"
<1>1. PICK i : i = at[b][1]
  OBVIOUS
<1>2. PICK k : k = at[b][2]
  OBVIOUS
<1>3. i \in Inodes /\ k \in 0 .. Direct + 2
  BY <1>1, <1>2 DEF Forest, Addresses
<1>4. SUFFICES ASSUME v.inode[i].mode = "free" PROVE FALSE
  BY <1>1, <1>3
<1>5. v.inode[i].ptr[k] = BlockNone
  <2>1. k \in Width(i) /\ PtrOf(v, i, k) = v.inode[i].ptr[k]
    BY <1>3 DEF Width, PtrOf
  <2> QED
    BY <1>3, <1>4, <2>1 DEF Forest
<1>6. b \in Below(v, v.inode[i].ptr[k], Depth(k))
  BY <1>1, <1>2, <1>3, BelowAre DEF Strand
<1>7. \A d : Below(v, BlockNone, d) = {}
  BY DEF Below
<1> QED
  BY <1>5, <1>6, <1>7

\* Every block is reached by the pointer its address names, and by no other.
LEMMA ReachedOnce ==
    ASSUME vol \in Volume, NEW at, Forest(vol, at)
    PROVE  BlocksReachableOnce
<1>1. vol.used = UNION {OwnedBlocks(vol, i) : i \in UsedInodes}
  <2>1. \A i \in UsedInodes : OwnedBlocks(vol, i) = {b \in vol.used : at[b][1] = i}
    BY OwnedAre DEF UsedInodes
  <2>2. \A b \in vol.used : at[b][1] \in UsedInodes
    BY InUse DEF UsedInodes
  <2> QED
    BY <2>1, <2>2
<1>2. ASSUME NEW b \in vol.used PROVE Cardinality(References(b)) = 1
  <2>1. b # BlockNone
    BY Geometry DEF Volume
  <2>2. PICK n \in Nodes(vol) : \E k \in Width(n) : PtrOf(vol, n, k) = b
    BY DEF Forest
  <2>3. PICK k \in Width(n) : PtrOf(vol, n, k) = b
    BY <2>2
  <2>4. ASSUME NEW m \in Nodes(vol), NEW l \in Width(m), PtrOf(vol, m, l) = b
        PROVE  m = n /\ l = k
    <3>1. Append(Home(at, m), l) = Append(Home(at, n), k)
      BY <2>1, <2>3, <2>4 DEF Forest
    <3>2. Home(at, m) \in Seq(Nat) /\ Home(at, n) \in Seq(Nat) /\ l \in Nat /\ k \in Nat
      BY HomeFacts, NodeFacts
    <3>3. Home(at, m) = Home(at, n) /\ l = k
      BY <3>1, <3>2, AppendInjective
    <3> QED
      BY <3>3, HomeFacts
  <2>5. \A m, l : <<m, l>> \in References(b) <=>
            m \in Nodes(vol) /\ l \in Width(m) /\ PtrOf(vol, m, l) = b
    <3>1. vol.used \cap Inodes = {}
      BY Geometry DEF Volume
    <3> QED
      BY <3>1 DEF References, Nodes, Width, PtrOf
  <2>6. \A r \in References(b) : r = <<r[1], r[2]>>
    BY DEF References
  <2>7. References(b) = {<<n, k>>}
    <3>1. <<n, k>> \in References(b)
      BY <2>3, <2>5
    <3>2. ASSUME NEW r \in References(b) PROVE r = <<n, k>>
      <4>1. <<r[1], r[2]>> \in References(b)
        BY <2>6
      <4>2. r[1] = n /\ r[2] = k
        BY <2>4, <2>5, <4>1
      <4> QED
        BY <2>6, <4>2
    <3> QED
      BY <3>1, <3>2
  <2> QED
    BY <2>7, FS_Singleton
<1> QED
  BY <1>1, <1>2 DEF BlocksReachableOnce

-----------------------------------------------------------------------------
(* The namespace *)

\* Rewriting an inode without touching its pointers.
Rewritten(v, i, r, n, w) ==
    /\ w = [v EXCEPT !.inode[i] = r, !.free_inodes = n] /\ r \in InodeRec /\ n \in Nat
    /\ \A k \in 0 .. Direct + 2 : r.ptr[k] = v.inode[i].ptr[k]
    /\ r.mode = "free" => v.inode[i].mode = "free" \/ \A k \in 0 .. Direct + 2 : r.ptr[k] = BlockNone

LEMMA SetInode ==
    ASSUME NEW v \in Volume, NEW at, Forest(v, at), NEW i \in Inodes, NEW r, NEW n, NEW w,
           Rewritten(v, i, r, n, w)
    PROVE  /\ w \in Volume /\ Forest(w, at) /\ w.used = v.used
           /\ BlocksCounted(v) => BlocksCounted(w)
           /\ w.free_inodes = n /\ w.inode[i] = r /\ \A j \in Inodes \ {i} : w.inode[j] = v.inode[j]
           /\ \A j \in Inodes, lbn \in Nat : map_lbn(w, j, lbn) = map_lbn(v, j, lbn)
           /\ \A j \in Inodes, o \in Places : EntryAt(w, j, o) = EntryAt(v, j, o)
<1>1. PICK f : f = [v.inode EXCEPT ![i] = r]
  OBVIOUS
<1>2. f \in [Inodes -> InodeRec] /\ f[i] = r /\ \A j \in Inodes \ {i} : f[j] = v.inode[j]
  BY <1>1 DEF Volume, Rewritten
<1>3. w = [v EXCEPT !.inode = f, !.free_inodes = n] /\ n \in Nat
  BY <1>1 DEF Volume, Rewritten
<1>4. /\ w \in Volume /\ w.used = v.used /\ w.inode = f /\ w.data = v.data
      /\ w.free_blocks = v.free_blocks /\ w.free_inodes = n
  BY <1>2, <1>3 DEF Volume
<1>5. \A m \in Nodes(v) : \A k \in Width(m) : PtrOf(w, m, k) = PtrOf(v, m, k)
  BY <1>2, <1>4 DEF PtrOf, Width, Rewritten
<1>6. Forest(w, at) /\ \A j \in Inodes, lbn \in Nat : map_lbn(w, j, lbn) = map_lbn(v, j, lbn)
  <2>1. \A j \in Inodes : w.inode[j].mode = "free" =>
            v.inode[j].mode = "free" \/ \A k \in 0 .. Direct + 2 : v.inode[j].ptr[k] = BlockNone
    BY <1>2, <1>4 DEF Rewritten
  <2> QED
    BY <1>4, <1>5, <2>1, SamePointers
<1>7. ASSUME NEW j \in Inodes, NEW o \in Places PROVE EntryAt(w, j, o) = EntryAt(v, j, o)
  <2>1. o \div BlockSize \in Nat
    BY PlaceFacts DEF Places
  <2>2. map_lbn(w, j, o \div BlockSize) = map_lbn(v, j, o \div BlockSize)
    BY <1>6, <2>1
  <2> QED
    BY <1>4, <2>2 DEF EntryAt, EntryIn
<1>8. BlocksCounted(v) => BlocksCounted(w)
  BY <1>4 DEF BlocksCounted
<1> QED
  BY <1>2, <1>4, <1>6, <1>7, <1>8

Dirs(v) == {i \in Inodes : v.inode[i].mode = "dir"}

\* The entries of a directory, as places.
LEMMA LiveAre ==
    ASSUME NEW v \in Volume, NEW i \in Inodes
    PROVE  Live(v, i) = {o \in Places : o + DirentSize <= v.inode[i].size /\ EntryAt(v, i, o).inode # 0}
<1>1. v.inode[i].size \in Nat
  BY DEF Volume, InodeRec
<1>2. DirOffsets(v.inode[i].size) = {o \in Places : o + DirentSize <= v.inode[i].size}
  BY <1>1, DirOffsetsAre
<1> QED
  BY <1>2 DEF Live

\* A directory ends with the place of its last entry.
EndsWell(size) == size = 0 \/ \E o \in Places : size = o + DirentSize

\* Every entry names an inode of its type and no other entry names it; every inode in use but
\* the root has one.
Namespace(v) ==
    /\ v.inode[RootInode].mode = "dir"
    /\ \A i \in Dirs(v) : EndsWell(v.inode[i].size)
    /\ \A i \in Dirs(v) : \A o \in Live(v, i) :
           v.inode[EntryAt(v, i, o).inode].mode = EntryAt(v, i, o).type
    /\ \A x \in Inodes \ {RootInode} : v.inode[x].mode # "free" =>
           \E i \in Dirs(v) : \E o \in Live(v, i) : EntryAt(v, i, o).inode = x
    /\ \A i, j \in Dirs(v) : \A o \in Live(v, i), p \in Live(v, j) :
           EntryAt(v, i, o).inode = EntryAt(v, j, p).inode => i = j /\ o = p

InodesCounted(v) == v.free_inodes = Cardinality(FreeInodes(v))

\* What holds of a volume in the middle of a call, and between calls.
Sound(v) ==
    /\ v \in Volume /\ BlocksCounted(v) /\ Namespace(v)
    /\ \E at \in [Blocks -> Seq(Nat)] : Forest(v, at)
Whole(v) == Sound(v) /\ InodesCounted(v)

\* The namespace is what the directories show.
Shows(v, w) ==
    /\ \A i \in Inodes : w.inode[i].mode = v.inode[i].mode
    /\ \A i \in Dirs(v) : w.inode[i].size = v.inode[i].size
    /\ \A i \in Dirs(v), o \in Places : o + DirentSize <= v.inode[i].size => EntryAt(w, i, o) = EntryAt(v, i, o)

LEMMA SameNamespace ==
    ASSUME NEW v \in Volume, NEW at, Forest(v, at), NEW w \in Volume, Namespace(v), Shows(v, w)
    PROVE  /\ Namespace(w) /\ Dirs(w) = Dirs(v)
           /\ \A i \in Dirs(v) : Live(w, i) = Live(v, i) /\ \A o \in Live(v, i) : EntryAt(w, i, o) = EntryAt(v, i, o)
           /\ FreeInodes(w) = FreeInodes(v)
<1>1. Dirs(w) = Dirs(v) /\ Dirs(v) \subseteq Inodes /\ FreeInodes(w) = FreeInodes(v)
  BY DEF Dirs, Shows, FreeInodes
<1>2. ASSUME NEW i \in Dirs(v)
      PROVE  Live(w, i) = Live(v, i) /\ \A o \in Live(v, i) : EntryAt(w, i, o) = EntryAt(v, i, o)
  <2>1. Live(v, i) = {o \in Places : o + DirentSize <= v.inode[i].size /\ EntryAt(v, i, o).inode # 0}
    BY <1>1, LiveAre
  <2>2. Live(w, i) = {o \in Places : o + DirentSize <= w.inode[i].size /\ EntryAt(w, i, o).inode # 0}
    BY <1>1, LiveAre
  <2> QED
    BY <2>1, <2>2 DEF Shows
<1>3. \A i \in Dirs(v) : \A o \in Live(v, i) : EntryAt(v, i, o).inode \in Inodes
  <2>1. ASSUME NEW i \in Dirs(v), NEW o \in Live(v, i) PROVE EntryAt(v, i, o).inode \in Inodes
    <3>1. i \in Inodes /\ o \in Places
      BY <1>1, LiveAre
    <3> QED
      BY <3>1, EntryFacts DEF DirEntry
  <2> QED
    BY <2>1
<1>4. \A i \in Dirs(w) : \A o \in Live(w, i) :
          w.inode[EntryAt(w, i, o).inode].mode = EntryAt(w, i, o).type
  BY <1>1, <1>2, <1>3 DEF Namespace, Shows
<1>5. \A x \in Inodes \ {RootInode} : w.inode[x].mode # "free" =>
          \E i \in Dirs(w) : \E o \in Live(w, i) : EntryAt(w, i, o).inode = x
  BY <1>1, <1>2 DEF Namespace, Shows
<1>6. \A i, j \in Dirs(w) : \A o \in Live(w, i), p \in Live(w, j) :
          EntryAt(w, i, o).inode = EntryAt(w, j, p).inode => i = j /\ o = p
  BY <1>1, <1>2 DEF Namespace
<1>7. w.inode[RootInode].mode = "dir" /\ \A i \in Dirs(w) : EndsWell(w.inode[i].size)
  BY <1>1, Geometry DEF Namespace, Shows
<1> QED
  BY <1>1, <1>2, <1>4, <1>5, <1>6, <1>7 DEF Namespace

-----------------------------------------------------------------------------
LEMMA Times ==
    ASSUME NEW c \in Nat, NEW a \in Nat, NEW b \in Nat, a < b
    PROVE  c * a \in Nat /\ c * b \in Nat /\ c * a + c <= c * b
<1>1. PICK k : k = b - a - 1
  OBVIOUS
<1>2. k \in Nat /\ b = a + 1 + k
  BY <1>1
<1>3. c * k \in Nat /\ c * a \in Nat
  BY <1>2
<1>4. c * (a + 1 + k) = c * a + c + c * k
  BY <1>2
<1> QED
  BY <1>2, <1>3, <1>4

\* A directory grows by the first place after its last entry.
LEMMA NextPlace ==
    ASSUME NEW size, EndsWell(size), NEW off, off = dirent_align(size)
    PROVE  /\ off \in Places /\ size \in Nat /\ off + DirentSize \in Nat /\ ~(off + DirentSize <= size)
           /\ \A o \in Places : o + DirentSize <= off + DirentSize <=> o + DirentSize <= size \/ o = off
<1> DEFINE B == BlockSize
           D == DirentSize
           E == EntsPerBlock
<1>1. B \in Nat \ {0} /\ D \in Nat \ {0} /\ E \in Nat \ {0} /\ D <= B
  BY Geometry
<1>2. D * E \in Nat /\ D * E <= B /\ B < D * E + D
  <2>1. B \div D \in Nat /\ B % D \in 0 .. D - 1 /\ B = D * (B \div D) + (B % D)
    BY <1>1, Divided
  <2> QED
    BY <1>1, <2>1 DEF EntsPerBlock
<1>3. CASE size = 0
  <2>1. 0 % B = 0
    <3>1. 0 = B * 0 + 0 /\ 0 \in 0 .. B - 1
      BY <1>1
    <3> QED
      BY <1>1, <3>1, Quotient
  <2>2. off = 0
    BY <1>1, <1>3, <2>1 DEF dirent_align
  <2>3. 0 % D = 0
    <3>1. 0 = D * 0 + 0 /\ 0 \in 0 .. D - 1
      BY <1>1
    <3> QED
      BY <1>1, <3>1, Quotient
  <2>4. 0 \in Places
    BY <1>1, <2>1, <2>3, PlaceFacts
  <2> QED
    BY <1>1, <1>3, <2>2, <2>4 DEF Places
<1>4. CASE \E p \in Places : size = p + D
  <2>1. PICK p \in Places : size = p + D
    BY <1>4
  <2>2. PICK q : q = p \div B
    OBVIOUS
  <2>3. PICK x : x = Index(p)
    OBVIOUS
  <2>4. p \in Nat /\ q \in Nat /\ x \in 0 .. E - 1 /\ p = (B * q) + D * x
    BY <2>2, <2>3, PlaceFacts DEF Places
  <2>5. PICK y : y = x + 1
    OBVIOUS
  <2>6. y \in Nat /\ x < y /\ y <= E
    BY <1>1, <2>4, <2>5
  <2>7. B * q \in Nat /\ D * x \in Nat /\ D * y = D * x + D /\ B * (q + 1) = B * q + B
    BY <1>1, <2>4, <2>5
  <2>8. size = B * q + D * y
    BY <1>1, <2>1, <2>4, <2>7
  <2>9. ASSUME NEW o \in Places, o > p
        PROVE  \/ \E xo \in 0 .. E - 1 : x < xo /\ o = B * q + D * xo
               \/ o >= B * (q + 1)
    <3>1. PICK qo : qo = o \div B
      OBVIOUS
    <3>2. PICK xo : xo = Index(o)
      OBVIOUS
    <3>3. o \in Nat /\ qo \in Nat /\ xo \in 0 .. E - 1 /\ o = (B * qo) + D * xo
      BY <3>1, <3>2, PlaceFacts DEF Places
    <3>4. D * xo \in Nat /\ D * xo + D <= D * E /\ B * qo \in Nat
      BY <1>1, <3>3, Times
    <3>5. CASE qo < q
      <4>1. B * qo + B <= B * q
        BY <1>1, <2>4, <3>3, <3>5, Times
      <4> QED
        BY <1>1, <1>2, <2>4, <2>7, <2>9, <3>3, <3>4, <4>1
    <3>6. CASE qo = q
      <4>1. D * x < D * xo
        BY <2>4, <2>7, <2>9, <3>3, <3>4, <3>6
      <4>2. ASSUME xo <= x PROVE FALSE
        <5>1. xo < x \/ xo = x
          BY <2>4, <3>3, <4>2
        <5>2. D * xo <= D * x
          BY <1>1, <2>4, <2>7, <3>3, <3>4, <5>1, Times
        <5> QED
          BY <2>7, <3>4, <4>1, <5>2
      <4>3. x < xo
        BY <2>4, <3>3, <4>2
      <4> QED
        BY <3>3, <3>6, <4>3
    <3>7. CASE q < qo
      <4>1. B * q + B <= B * qo
        BY <1>1, <2>4, <3>3, <3>7, Times
      <4> QED
        BY <1>1, <2>7, <3>3, <3>4, <4>1
    <3> QED
      BY <2>4, <3>3, <3>5, <3>6, <3>7
  <2>10. SUFFICES off \in Places /\ off > p /\ off >= size /\ \A o \in Places : o > p => o >= off
    <3>1. Places \subseteq Nat
      BY DEF Places
    <3> QED
      BY <1>1, <2>1, <2>4, <2>10, <3>1
  <2>11. CASE y < E
    <3>1. D * y \in Nat /\ D * y + D <= D * E
      BY <1>1, <2>6, <2>11, Times
    <3>2. D * y \in 0 .. B - 1 /\ D * y + D <= B
      BY <1>1, <1>2, <3>1
    <3>3. size \in Nat /\ size % B = D * y
      <4>1. size \in Nat
        BY <1>1, <2>1, <2>4
      <4> QED
        BY <1>1, <2>4, <2>8, <3>2, <4>1, Quotient
    <3>4. off = size
      BY <1>1, <3>2, <3>3 DEF dirent_align
    <3>5. (D * y) % D = 0
      <4>1. D * y = D * y + 0 /\ 0 \in 0 .. D - 1
        BY <1>1, <3>1
      <4> QED
        BY <1>1, <2>6, <3>1, <4>1, Quotient
    <3>6. off \in Places
      BY <3>2, <3>3, <3>4, <3>5, PlaceFacts
    <3>7. ASSUME NEW o \in Places, o > p PROVE o >= off
      <4>1. CASE \E xo \in 0 .. E - 1 : x < xo /\ o = B * q + D * xo
        <5>1. PICK xo \in 0 .. E - 1 : x < xo /\ o = B * q + D * xo
          BY <4>1
        <5>2. D * x + D <= D * xo /\ D * xo \in Nat
          BY <1>1, <2>4, <5>1, Times
        <5> QED
          BY <2>7, <2>8, <3>1, <3>4, <5>1, <5>2
      <4>2. CASE o >= B * (q + 1)
        <5>1. o \in Nat
          BY DEF Places
        <5>2. B * q + B >= B * q + D * y
          BY <1>1, <2>7, <3>2
        <5> QED
          BY <1>1, <2>7, <2>8, <3>1, <3>4, <4>2, <5>1, <5>2
      <4> QED
        BY <2>9, <3>7, <4>1, <4>2
    <3> QED
      BY <1>1, <2>1, <2>4, <3>4, <3>6, <3>7
  <2>12. CASE y = E
    <3>1. D * y \in Nat /\ D * y <= B /\ B < D * y + D
      BY <1>2, <2>12
    <3>2. size \in Nat
      BY <1>1, <2>1, <2>4
    <3>3. off = B * (q + 1)
      <4>1. CASE D * y < B
        <5>1. D * y \in 0 .. B - 1
          BY <1>1, <3>1, <4>1
        <5>2. size % B = D * y
          BY <1>1, <2>4, <2>8, <3>2, <5>1, Quotient
        <5>3. off = size + B - D * y
          BY <1>1, <3>1, <5>2 DEF dirent_align
        <5> QED
          BY <1>1, <2>7, <2>8, <3>1, <5>3
      <4>2. CASE D * y = B
        <5>1. size = B * (q + 1) + 0 /\ 0 \in 0 .. B - 1 /\ q + 1 \in Nat
          BY <1>1, <2>4, <2>7, <2>8, <4>2
        <5>2. size % B = 0
          BY <1>1, <3>2, <5>1, Quotient
        <5>3. off = size
          BY <1>1, <5>2 DEF dirent_align
        <5> QED
          BY <1>1, <2>7, <2>8, <4>2, <5>3
      <4> QED
        BY <1>1, <3>1, <4>1, <4>2
    <3>4. off \in Nat /\ off >= size /\ off > p
      BY <1>1, <2>4, <2>7, <2>8, <3>1, <3>3
    <3>5. off % B = 0
      <4>1. off = B * (q + 1) + 0 /\ 0 \in 0 .. B - 1 /\ q + 1 \in Nat
        BY <1>1, <2>4, <2>7, <3>3
      <4> QED
        BY <1>1, <3>4, <4>1, Quotient
    <3>6. 0 % D = 0
      <4>1. 0 = D * 0 + 0 /\ 0 \in 0 .. D - 1
        BY <1>1
      <4> QED
        BY <1>1, <4>1, Quotient
    <3>7. off \in Places
      <4>1. (off % B) % D = 0 /\ (off % B) + D <= B
        BY <1>1, <3>5, <3>6
      <4> QED
        BY <3>4, <4>1, PlaceFacts
    <3>8. ASSUME NEW o \in Places, o > p PROVE o >= off
      <4>1. \A xo \in 0 .. E - 1 : ~(x < xo)
        BY <2>4, <2>5, <2>12
      <4>2. o >= B * (q + 1)
        BY <2>9, <3>8, <4>1
      <4> QED
        BY <3>3, <4>2
    <3> QED
      BY <3>4, <3>7, <3>8
  <2> QED
    BY <1>1, <2>6, <2>11, <2>12
<1> QED
  BY <1>3, <1>4 DEF EndsWell

-----------------------------------------------------------------------------
\* dir_alloc_dirent_in finds a place that shows no entry, and adds it to the directory if it
\* was not in it.
Room(v, dir, s, to) ==
    /\ s.vol \in Volume /\ to \in [Blocks -> Seq(Nat)] /\ Forest(s.vol, to) /\ BlocksCounted(s.vol)
    /\ s.vol.free_inodes = v.free_inodes
    /\ \A i \in Inodes : s.vol.inode[i].mode = v.inode[i].mode
    /\ \A i \in Inodes : i # dir \/ ~s.ok => s.vol.inode[i].size = v.inode[i].size
    /\ \A i \in Inodes, o \in Places : EntryAt(s.vol, i, o) = EntryAt(v, i, o)
    /\ s.ok => /\ s.off \in Places /\ map_lbn(s.vol, dir, s.off \div BlockSize) # BlockNone
               /\ s.off \notin Live(v, dir) /\ EndsWell(s.vol.inode[dir].size)
               /\ \A o \in Places : o + DirentSize <= s.vol.inode[dir].size
                                        <=> o + DirentSize <= v.inode[dir].size \/ o = s.off

LEMMA RoomFound ==
    ASSUME NEW v \in Volume, NEW at \in [Blocks -> Seq(Nat)], Forest(v, at), BlocksCounted(v),
           NEW dir \in Dirs(v), EndsWell(v.inode[dir].size), NEW s, s = dir_alloc_dirent_in(v, dir)
    PROVE  \E to : Room(v, dir, s, to)
<1>1. dir \in Inodes /\ v.inode[dir].mode = "dir" /\ v.inode[dir].size \in Nat
  BY DEF Dirs, Volume, InodeRec
<1>2. PICK free : free = {off \in DirOffsets(v.inode[dir].size) :
                            map_lbn(v, dir, off \div BlockSize) # BlockNone /\ EntryAt(v, dir, off).inode = 0}
  OBVIOUS
<1>3. PICK off : off = dirent_align(v.inode[dir].size)
  OBVIOUS
<1>4. PICK g : g = bmap_alloc(v, dir, off \div BlockSize)
  OBVIOUS
<1>5. s = IF free # {} THEN [vol |-> v, off |-> Least(free), ok |-> TRUE] ELSE Grown(dir, off, g)
  BY <1>2, <1>3, <1>4 DEF dir_alloc_dirent_in
<1>6. CASE free # {}
  <2>1. DirOffsets(v.inode[dir].size) = {o \in Places : o + DirentSize <= v.inode[dir].size}
    BY <1>1, DirOffsetsAre
  <2>2. free \in SUBSET Nat
    BY <1>2, <2>1 DEF Places
  <2>3. PICK o : o = Least(free)
    OBVIOUS
  <2>4. o \in free
    BY <1>6, <2>2, <2>3, LeastMember
  <2>5. /\ o \in Places /\ o + DirentSize <= v.inode[dir].size
        /\ map_lbn(v, dir, o \div BlockSize) # BlockNone /\ EntryAt(v, dir, o).inode = 0
    BY <1>2, <2>1, <2>4
  <2>6. s.vol = v /\ s.off = o /\ s.ok
    BY <1>5, <1>6, <2>3
  <2>7. o \notin Live(v, dir)
    BY <2>5 DEF Live
  <2> QED
    BY <2>5, <2>6, <2>7 DEF Room, Namespace
<1>7. CASE free = {}
  <2>1. /\ off \in Places /\ off + DirentSize \in Nat /\ ~(off + DirentSize <= v.inode[dir].size)
        /\ \A o \in Places : o + DirentSize <= off + DirentSize
                <=> o + DirentSize <= v.inode[dir].size \/ o = off
    BY <1>3, NextPlace
  <2>2. PICK l : l = off \div BlockSize
    OBVIOUS
  <2>3. l \in Nat
    BY <2>1, <2>2, PlaceFacts DEF Places
  <2>4. PICK to : /\ Grows(v, at, g.vol, to)
                  /\ g.blk # BlockNone => g.blk \in g.vol.used /\ g.blk = map_lbn(g.vol, dir, l)
    BY <1>1, <1>4, <2>2, <2>3, BmapAlloc
  <2>5. PICK u : u = g.vol
    OBVIOUS
  <2>6. /\ u \in Volume /\ to \in [Blocks -> Seq(Nat)] /\ Forest(u, to) /\ BlocksCounted(u)
        /\ u.free_inodes = v.free_inodes
        /\ \A i \in Inodes : u.inode[i].mode = v.inode[i].mode /\ u.inode[i].size = v.inode[i].size
    BY <2>4, <2>5 DEF Grows
  <2>7. \A i \in Inodes, o \in Places : EntryAt(u, i, o) = EntryAt(v, i, o)
    BY <2>4, <2>5, GrowsEntries
  <2>8. CASE g.blk = BlockNone
    <3>1. s.vol = u /\ ~s.ok
      BY <1>5, <1>7, <2>5, <2>8 DEF Grown
    <3> QED
      BY <2>6, <2>7, <3>1 DEF Room
  <2>9. CASE g.blk # BlockNone
    <3>1. s.vol = [u EXCEPT !.inode[dir].size = off + DirentSize] /\ s.off = off /\ s.ok
      BY <1>5, <1>7, <2>5, <2>9 DEF Grown
    <3>2. PICK w : w = s.vol
      OBVIOUS
    <3>3. PICK r : r = [u.inode[dir] EXCEPT !.size = off + DirentSize]
      OBVIOUS
    <3>4. u.inode[dir] \in InodeRec
      BY <1>1, <2>6 DEF Volume
    <3>5. r \in InodeRec /\ r.ptr = u.inode[dir].ptr /\ r.mode = "dir" /\ r.size = off + DirentSize
      BY <1>1, <2>1, <2>6, <3>3, <3>4 DEF InodeRec
    <3>6. PICK n \in Nat : n = u.free_inodes
      BY <2>6 DEF Volume
    <3>7. w = [u EXCEPT !.inode[dir] = r, !.free_inodes = n]
      BY <1>1, <2>6, <3>1, <3>2, <3>3, <3>4, <3>6 DEF Volume, InodeRec
    <3>8. /\ w \in Volume /\ Forest(w, to) /\ BlocksCounted(w)
          /\ w.free_inodes = n /\ w.inode[dir] = r /\ \A j \in Inodes \ {dir} : w.inode[j] = u.inode[j]
          /\ \A j \in Inodes, lbn \in Nat : map_lbn(w, j, lbn) = map_lbn(u, j, lbn)
          /\ \A j \in Inodes, o \in Places : EntryAt(w, j, o) = EntryAt(u, j, o)
      <4>1. r.mode = "free" => u.inode[dir].mode = "free" \/ \A k \in 0 .. Direct + 2 : r.ptr[k] = BlockNone
        BY <3>5
      <4>2. r \in InodeRec /\ r.ptr = u.inode[dir].ptr /\ dir \in Inodes /\ u \in Volume /\ Forest(u, to) /\ BlocksCounted(u)
        BY <1>1, <2>6, <3>5
      <4>3. Rewritten(u, dir, r, n, w)
        BY <3>7, <4>1, <4>2 DEF Rewritten
      <4> QED
        BY <4>2, <4>3, SetInode
    <3>9. map_lbn(w, dir, l) # BlockNone
      BY <1>1, <2>3, <2>4, <2>5, <2>9, <3>8
    <3>10. EndsWell(w.inode[dir].size)
      BY <2>1, <3>5, <3>8 DEF EndsWell
    <3>11. off \notin Live(v, dir)
      BY <1>1, <2>1, LiveAre
    <3>12. \A i \in Inodes : w.inode[i].mode = v.inode[i].mode /\ (i # dir => w.inode[i].size = v.inode[i].size)
      BY <1>1, <2>6, <3>5, <3>8
    <3>13. \A i \in Inodes, o \in Places : EntryAt(w, i, o) = EntryAt(v, i, o)
      BY <2>7, <3>8
    <3>14. \A o \in Places : o + DirentSize <= w.inode[dir].size
                  <=> o + DirentSize <= v.inode[dir].size \/ o = off
      BY <2>1, <3>5, <3>8
    <3>15. w.free_inodes = v.free_inodes
      BY <2>6, <3>6, <3>8
    <3> QED
      BY <2>1, <2>2, <2>6, <3>1, <3>2, <3>8, <3>9, <3>10, <3>11, <3>12, <3>13, <3>14, <3>15 DEF Room
  <2> QED
    BY <2>8, <2>9
<1> QED
  BY <1>6, <1>7

-----------------------------------------------------------------------------
\* A new entry, for an inode that was free.
Adds(v, w, dir, off, ino, mode) ==
    /\ w.inode[ino].mode = mode /\ w.inode[ino].size = 0
    /\ \A i \in Inodes \ {ino} : w.inode[i].mode = v.inode[i].mode
    /\ \A i \in Inodes \ {ino, dir} : w.inode[i].size = v.inode[i].size
    /\ EndsWell(w.inode[dir].size) /\ off \in Places /\ off \notin Live(v, dir)
    /\ \A o \in Places : o + DirentSize <= w.inode[dir].size <=> o + DirentSize <= v.inode[dir].size \/ o = off
    /\ \A i \in Inodes, o \in Places : ~(i = dir /\ o = off) => EntryAt(w, i, o) = EntryAt(v, i, o)
    /\ EntryAt(w, dir, off).inode = ino /\ EntryAt(w, dir, off).type = mode

LEMMA AddsNamespace ==
    ASSUME NEW v \in Volume, NEW at, Forest(v, at), Namespace(v), NEW w \in Volume, NEW dir \in Dirs(v),
           NEW ino \in FreeInodes(v), NEW mode \in {"file", "dir"}, NEW off, Adds(v, w, dir, off, ino, mode)
    PROVE  Namespace(w) /\ FreeInodes(w) = FreeInodes(v) \ {ino}
<1>1. /\ dir \in Inodes /\ ino \in Inodes /\ v.inode[dir].mode = "dir" /\ v.inode[ino].mode = "free"
      /\ ino # dir /\ ino # RootInode /\ RootInode \in Inodes
  BY Geometry DEF Dirs, FreeInodes, Namespace
<1>2. Dirs(v) \subseteq Dirs(w) /\ Dirs(w) \subseteq Dirs(v) \cup {ino} /\ Dirs(v) \subseteq Inodes
  BY <1>1 DEF Dirs, Adds
<1>3. FreeInodes(w) = FreeInodes(v) \ {ino}
  BY <1>1 DEF FreeInodes, Adds
<1>4. ASSUME NEW i \in Dirs(v), i # dir PROVE Live(w, i) = Live(v, i)
  <2>1. i \in Inodes \ {ino, dir}
    BY <1>1, <1>4 DEF Dirs
  <2>2. Live(v, i) = {o \in Places : o + DirentSize <= v.inode[i].size /\ EntryAt(v, i, o).inode # 0}
    BY <2>1, LiveAre
  <2>3. Live(w, i) = {o \in Places : o + DirentSize <= w.inode[i].size /\ EntryAt(w, i, o).inode # 0}
    BY <2>1, LiveAre
  <2> QED
    BY <2>1, <2>2, <2>3 DEF Adds
<1>5. Live(w, dir) = Live(v, dir) \cup {off}
  <2>1. Live(v, dir) = {o \in Places : o + DirentSize <= v.inode[dir].size /\ EntryAt(v, dir, o).inode # 0}
    BY <1>1, LiveAre
  <2>2. Live(w, dir) = {o \in Places : o + DirentSize <= w.inode[dir].size /\ EntryAt(w, dir, o).inode # 0}
    BY <1>1, LiveAre
  <2>3. off \in Live(w, dir)
    BY <1>1, <2>2 DEF Adds, RootInode
  <2>4. \A o \in Places : o # off => (o \in Live(w, dir) <=> o \in Live(v, dir))
    BY <1>1, <2>1, <2>2 DEF Adds
  <2> QED
    BY <2>1, <2>2, <2>3, <2>4
<1>6. Live(w, ino) = {}
  <2>1. Live(w, ino) = {o \in Places : o + DirentSize <= w.inode[ino].size /\ EntryAt(w, ino, o).inode # 0}
    BY <1>1, LiveAre
  <2>2. w.inode[ino].size = 0 /\ \A o \in Places : ~(o + DirentSize <= 0)
    BY Geometry DEF Adds, Places
  <2> QED
    BY <2>1, <2>2
<1>7. ASSUME NEW i \in Dirs(v), NEW o \in Live(v, i)
      PROVE  /\ EntryAt(w, i, o) = EntryAt(v, i, o) /\ EntryAt(v, i, o).inode \in Inodes \ {ino}
             /\ w.inode[EntryAt(v, i, o).inode].mode = EntryAt(v, i, o).type
  <2>1. i \in Inodes /\ o \in Places
    BY LiveAre DEF Dirs
  <2>2. EntryAt(v, i, o) \in DirEntry
    BY <2>1, EntryFacts
  <2>3. v.inode[EntryAt(v, i, o).inode].mode = EntryAt(v, i, o).type
    BY DEF Namespace
  <2>4. EntryAt(v, i, o).inode \in Inodes \ {ino}
    BY <1>1, <2>2, <2>3 DEF DirEntry
  <2>5. ~(i = dir /\ o = off)
    BY DEF Adds
  <2> QED
    BY <2>1, <2>3, <2>4, <2>5 DEF Adds
<1>8. /\ w.inode[RootInode].mode = "dir"
      /\ \A i \in Dirs(w) : EndsWell(w.inode[i].size)
  <2>1. w.inode[RootInode].mode = "dir"
    BY <1>1 DEF Adds, Namespace
  <2>2. ASSUME NEW i \in Dirs(w) PROVE EndsWell(w.inode[i].size)
    <3>1. CASE i = ino
      BY <3>1 DEF Adds, EndsWell
    <3>2. CASE i = dir
      BY <3>2 DEF Adds
    <3>3. CASE i # ino /\ i # dir
      BY <1>2, <3>3 DEF Adds, Namespace
    <3> QED
      BY <3>1, <3>2, <3>3
  <2> QED
    BY <2>1, <2>2
<1>9. ASSUME NEW i \in Dirs(w), NEW o \in Live(w, i)
      PROVE  \/ i \in Dirs(v) /\ o \in Live(v, i) /\ EntryAt(w, i, o) = EntryAt(v, i, o)
             \/ i = dir /\ o = off
  <2>1. i \in Dirs(v)
    BY <1>2, <1>6
  <2> QED
    BY <1>4, <1>5, <1>7, <2>1
<1>10. EntryAt(w, dir, off).inode = ino /\ EntryAt(w, dir, off).type = mode /\ w.inode[ino].mode = mode
  BY DEF Adds
<1>11. \A i \in Dirs(w) : \A o \in Live(w, i) :
           w.inode[EntryAt(w, i, o).inode].mode = EntryAt(w, i, o).type
  BY <1>7, <1>9, <1>10
<1>12. ASSUME NEW x \in Inodes \ {RootInode}, w.inode[x].mode # "free"
       PROVE  \E i \in Dirs(w) : \E o \in Live(w, i) : EntryAt(w, i, o).inode = x
  <2>1. CASE x = ino
    BY <1>2, <1>5, <1>10, <2>1
  <2>2. CASE x # ino
    <3>1. v.inode[x].mode # "free"
      BY <1>12, <2>2 DEF Adds
    <3>2. PICK i \in Dirs(v) : \E o \in Live(v, i) : EntryAt(v, i, o).inode = x
      BY <3>1 DEF Namespace
    <3>3. PICK o \in Live(v, i) : EntryAt(v, i, o).inode = x
      BY <3>2
    <3>4. o \in Live(w, i)
      BY <1>4, <1>5
    <3> QED
      BY <1>2, <1>7, <3>3, <3>4
  <2> QED
    BY <2>1, <2>2
<1>13. ASSUME NEW i \in Dirs(w), NEW j \in Dirs(w), NEW o \in Live(w, i), NEW p \in Live(w, j),
              EntryAt(w, i, o).inode = EntryAt(w, j, p).inode
       PROVE  i = j /\ o = p
  <2>1. CASE i \in Dirs(v) /\ o \in Live(v, i) /\ j \in Dirs(v) /\ p \in Live(v, j)
    <3>1. EntryAt(v, i, o).inode = EntryAt(v, j, p).inode
      BY <1>7, <1>13, <2>1
    <3> QED
      BY <2>1, <3>1 DEF Namespace
  <2>2. CASE i = dir /\ o = off /\ j \in Dirs(v) /\ p \in Live(v, j)
    BY <1>7, <1>10, <1>13, <2>2
  <2>3. CASE j = dir /\ p = off /\ i \in Dirs(v) /\ o \in Live(v, i)
    BY <1>7, <1>10, <1>13, <2>3
  <2> QED
    BY <1>9, <2>1, <2>2, <2>3
<1> QED
  BY <1>3, <1>8, <1>11, <1>12, <1>13 DEF Namespace

\* Only the counter.
LEMMA SetCount ==
    ASSUME NEW v \in Volume, NEW at, Forest(v, at), NEW n \in Nat, NEW w, w = [v EXCEPT !.free_inodes = n]
    PROVE  /\ w \in Volume /\ Forest(w, at) /\ w.used = v.used /\ w.inode = v.inode /\ w.free_inodes = n
           /\ BlocksCounted(v) => BlocksCounted(w)
           /\ \A j \in Inodes, o \in Places : EntryAt(w, j, o) = EntryAt(v, j, o)
           /\ Namespace(v) => Namespace(w)
           /\ FreeInodes(w) = FreeInodes(v) /\ Dirs(w) = Dirs(v)
<1>1. PICK r : r = v.inode[RootInode]
  OBVIOUS
<1>2. RootInode \in Inodes
  BY Geometry
<1>3. w.inode = v.inode /\ w = [v EXCEPT !.inode[RootInode] = r, !.free_inodes = n]
  BY <1>1, <1>2 DEF Volume
<1>4. Rewritten(v, RootInode, r, n, w)
  <2>1. r \in InodeRec
    BY <1>1, <1>2 DEF Volume
  <2>2. r.mode = "free" => \A k \in 0 .. Direct + 2 : r.ptr[k] = BlockNone
    BY <1>1, <1>2 DEF Forest, Width, PtrOf
  <2> QED
    BY <1>1, <1>3, <2>1, <2>2 DEF Rewritten
<1>5. /\ w \in Volume /\ Forest(w, at) /\ w.used = v.used /\ w.free_inodes = n
      /\ BlocksCounted(v) => BlocksCounted(w)
      /\ \A j \in Inodes, o \in Places : EntryAt(w, j, o) = EntryAt(v, j, o)
  BY <1>2, <1>4, SetInode
<1>6. Shows(v, w)
  BY <1>3, <1>5 DEF Shows, Dirs
<1>7. Namespace(v) => Namespace(w)
  BY <1>5, <1>6, SameNamespace
<1>8. FreeInodes(w) = FreeInodes(v) /\ Dirs(w) = Dirs(v)
  BY <1>3 DEF FreeInodes, Dirs
<1> QED
  BY <1>3, <1>5, <1>7, <1>8

\* No file stops being one.
KeepsFiles(v, w) == \A i \in Inodes : v.inode[i].mode = "file" => w.inode[i].mode = "file"

\* Create: also when there is no inode or no room for the entry.
LEMMA CreateWhole ==
    ASSUME NEW v, Whole(v), NEW dir \in Dirs(v), NEW name \in AnyName, NEW mode \in {"file", "dir"},
           NEW c, c = Create(v, dir, name, mode)
    PROVE  /\ Whole(c.vol) /\ KeepsFiles(v, c.vol)
           /\ c.res = "ok" => c.inode \in Inodes /\ c.vol.inode[c.inode].mode = mode
           /\ c.res # "ok" => Shows(v, c.vol)
<1>1. /\ v \in Volume /\ BlocksCounted(v) /\ Namespace(v) /\ InodesCounted(v)
      /\ \E at \in [Blocks -> Seq(Nat)] : Forest(v, at)
  BY DEF Whole, Sound
<1>2. PICK at \in [Blocks -> Seq(Nat)] : Forest(v, at)
  BY <1>1
<1>3. CASE FreeInodes(v) = {}
  <2>1. c.vol = v /\ c.res = "NO_SPACE"
    BY <1>3 DEF Create
  <2> QED
    BY <2>1 DEF KeepsFiles, Shows
<1>4. CASE FreeInodes(v) # {}
  <2>1. PICK ino : ino = Least(FreeInodes(v))
    OBVIOUS
  <2>2. ino \in FreeInodes(v) /\ ino \in Inodes
    <3>1. FreeInodes(v) \in SUBSET Nat /\ FreeInodes(v) \subseteq Inodes
      BY Geometry DEF FreeInodes
    <3> QED
      BY <1>4, <2>1, <3>1, LeastMember
  <2>3. PICK n : n = Cardinality(FreeInodes(v)) - 1
    OBVIOUS
  <2>4. n \in Nat /\ Cardinality(FreeInodes(v) \ {ino}) = n /\ v.free_inodes = n + 1
    <3>1. IsFiniteSet(FreeInodes(v))
      BY Geometry, FS_Subset DEF FreeInodes
    <3>2. Cardinality(FreeInodes(v)) \in Nat \ {0} /\ Cardinality(FreeInodes(v) \ {ino}) = n
      BY <2>2, <2>3, <3>1, OneLess
    <3> QED
      BY <1>1, <2>3, <3>2 DEF InodesCounted
  <2>5. PICK a : a = alloc_inode_v(v)
    OBVIOUS
  <2>6. a = [v EXCEPT !.free_inodes = n]
    <3>1. (IF v.free_inodes > 0 THEN v.free_inodes - 1 ELSE v.free_inodes) = n
      BY <2>4
    <3>2. a = [v EXCEPT !.free_inodes = IF v.free_inodes > 0 THEN v.free_inodes - 1 ELSE v.free_inodes]
      BY <1>1, <2>5 DEF alloc_inode_v, Volume
    <3> QED
      BY <3>1, <3>2
  <2>7. /\ a \in Volume /\ Forest(a, at) /\ a.inode = v.inode /\ a.free_inodes = n /\ BlocksCounted(a)
        /\ \A j \in Inodes, o \in Places : EntryAt(a, j, o) = EntryAt(v, j, o)
        /\ Namespace(a) /\ FreeInodes(a) = FreeInodes(v) /\ Dirs(a) = Dirs(v)
    BY <1>1, <1>2, <2>4, <2>6, SetCount
  <2>8. PICK s : s = dir_alloc_dirent_in(a, dir)
    OBVIOUS
  <2>9. EndsWell(a.inode[dir].size) /\ dir \in Dirs(a) /\ dir \in Inodes
    BY <2>7 DEF Namespace, Dirs
  <2>10. PICK to : Room(a, dir, s, to)
    BY <2>7, <2>8, <2>9, RoomFound
  <2>11. PICK x : x = s.vol
    OBVIOUS
  <2>12. /\ x \in Volume /\ to \in [Blocks -> Seq(Nat)] /\ Forest(x, to) /\ BlocksCounted(x)
         /\ x.free_inodes = n
         /\ \A i \in Inodes : x.inode[i].mode = v.inode[i].mode
         /\ \A i \in Inodes, o \in Places : EntryAt(x, i, o) = EntryAt(v, i, o)
    BY <2>7, <2>10, <2>11 DEF Room
  <2>13. c = AddEntry(s, dir, ino, name, mode)
    BY <1>4, <2>1, <2>5, <2>8 DEF Create
  <2>14. CASE ~s.ok
    <3>1. Shows(a, x)
      BY <2>7, <2>10, <2>11, <2>14 DEF Room, Shows, Dirs
    <3>2. Namespace(x) /\ FreeInodes(x) = FreeInodes(v)
      BY <2>7, <2>12, <3>1, SameNamespace
    <3>3. c.vol = [x EXCEPT !.free_inodes = n + 1] /\ c.res = "NO_SPACE"
      BY <2>11, <2>12, <2>13, <2>14 DEF AddEntry, Volume
    <3>4. PICK w : w = c.vol
      OBVIOUS
    <3>5. PICK m \in Nat : m = n + 1
      BY <2>4
    <3>6. w = [x EXCEPT !.free_inodes = m]
      BY <3>3, <3>4, <3>5
    <3>7. /\ w \in Volume /\ Forest(w, to) /\ w.inode = x.inode /\ w.free_inodes = m /\ BlocksCounted(w)
          /\ Namespace(w) /\ FreeInodes(w) = FreeInodes(v)
          /\ \A i \in Inodes, o \in Places : EntryAt(w, i, o) = EntryAt(x, i, o)
      BY <2>12, <3>2, <3>6, SetCount
    <3>8. Whole(w)
      BY <1>1, <2>4, <2>12, <3>5, <3>7 DEF Whole, Sound, InodesCounted
    <3>9. Shows(v, w)
      BY <2>7, <2>12, <3>1, <3>7 DEF Shows, Dirs
    <3> QED
      BY <2>12, <3>3, <3>4, <3>7, <3>8, <3>9 DEF KeepsFiles
  <2>15. CASE s.ok
    <3>1. PICK r : r = [ZeroInode EXCEPT !.mode = mode]
      OBVIOUS
    <3>2. PICK u : u = [x EXCEPT !.inode[ino] = r]
      OBVIOUS
    <3>3. PICK off : off = s.off
      OBVIOUS
    <3>4. PICK e : e = [inode |-> ino, type |-> mode, name |-> name]
      OBVIOUS
    <3>5. PICK w : w = SetEntry(u, dir, off, e)
      OBVIOUS
    <3>6. c = [res |-> "ok", inode |-> ino, vol |-> w]
      BY <2>11, <2>13, <2>15, <3>1, <3>2, <3>3, <3>4, <3>5 DEF AddEntry
    <3>7. /\ off \in Places /\ map_lbn(x, dir, off \div BlockSize) # BlockNone
          /\ off \notin Live(a, dir) /\ EndsWell(x.inode[dir].size)
          /\ \A o \in Places : o + DirentSize <= x.inode[dir].size
                                   <=> o + DirentSize <= v.inode[dir].size \/ o = off
          /\ \A i \in Inodes \ {dir} : x.inode[i].size = v.inode[i].size
      BY <2>7, <2>10, <2>11, <2>15, <3>3 DEF Room
    <3>8. r \in InodeRec /\ r.mode = mode /\ r.size = 0 /\ r.ptr = ZeroInode.ptr /\ ZeroInode.ptr \in [0 .. Direct + 2 -> Pointer]
      BY <3>1, ZeroBlockFacts DEF InodeRec
    <3>9. \A k \in 0 .. Direct + 2 : r.ptr[k] = x.inode[ino].ptr[k]
      <4>1. \A k \in 0 .. Direct + 2 : x.inode[ino].ptr[k] = BlockNone
        BY <2>2, <2>12 DEF Forest, Width, PtrOf, FreeInodes
      <4> QED
        BY <3>8, <4>1, ZeroBlockFacts
    <3>10. u = [x EXCEPT !.inode[ino] = r, !.free_inodes = n]
      BY <2>12, <3>2 DEF Volume
    <3>11. Rewritten(x, ino, r, n, u)
      <4>1. r.mode # "free"
        BY <3>8
      <4> QED
        BY <2>4, <3>8, <3>9, <3>10, <4>1 DEF Rewritten
    <3>12. /\ u \in Volume /\ Forest(u, to) /\ BlocksCounted(u)
           /\ u.free_inodes = n /\ u.inode[ino] = r /\ \A j \in Inodes \ {ino} : u.inode[j] = x.inode[j]
           /\ \A j \in Inodes, lbn \in Nat : map_lbn(u, j, lbn) = map_lbn(x, j, lbn)
           /\ \A j \in Inodes, o \in Places : EntryAt(u, j, o) = EntryAt(x, j, o)
      BY <2>2, <2>12, <3>11, SetInode
    <3>13. e \in DirEntry /\ e.inode = ino /\ e.type = mode
      BY <2>2, <3>4 DEF DirEntry
    <3>14. map_lbn(u, dir, off \div BlockSize) # BlockNone
      <4>1. off \div BlockSize \in Nat
        BY <3>7, PlaceFacts DEF Places
      <4> QED
        BY <2>9, <3>7, <3>12, <4>1
    <3>15. /\ w \in Volume /\ Forest(w, to) /\ w.used = u.used /\ w.inode = u.inode
           /\ w.free_blocks = u.free_blocks /\ w.free_inodes = u.free_inodes
           /\ EntryAt(w, dir, off) = e
           /\ \A i \in Inodes, o \in Places : ~(i = dir /\ o = off) => EntryAt(w, i, o) = EntryAt(u, i, o)
      BY <2>9, <3>5, <3>7, <3>12, <3>13, <3>14, SetEntryFacts
    <3>16. ino # dir
      BY <2>2 DEF Dirs, FreeInodes
    <3>17. off \notin Live(v, dir)
      <4>1. Live(a, dir) = Live(v, dir)
        <5>1. Shows(v, a)
          BY <2>7 DEF Shows, Dirs
        <5> QED
          BY <1>1, <1>2, <2>7, <5>1, SameNamespace
      <4> QED
        BY <3>7, <4>1
    <3>18. Adds(v, w, dir, off, ino, mode)
      <4>1. w.inode[ino].mode = mode /\ w.inode[ino].size = 0 /\ w.inode[dir] = x.inode[dir]
        BY <2>9, <3>8, <3>12, <3>15, <3>16
      <4>2. \A i \in Inodes \ {ino} : w.inode[i].mode = v.inode[i].mode
        BY <2>12, <3>12, <3>15
      <4>3. \A i \in Inodes \ {ino, dir} : w.inode[i].size = v.inode[i].size
        BY <3>7, <3>12, <3>15
      <4>4. \A i \in Inodes, o \in Places : ~(i = dir /\ o = off) => EntryAt(w, i, o) = EntryAt(v, i, o)
        BY <2>12, <3>12, <3>15
      <4> QED
        BY <3>7, <3>13, <3>15, <3>17, <4>1, <4>2, <4>3, <4>4 DEF Adds
    <3>19. Namespace(w) /\ FreeInodes(w) = FreeInodes(v) \ {ino}
      BY <1>1, <1>2, <2>2, <3>15, <3>18, AddsNamespace
    <3>20. BlocksCounted(w)
      BY <3>12, <3>15 DEF BlocksCounted
    <3>21. Whole(w)
      BY <2>4, <2>12, <3>12, <3>15, <3>19, <3>20 DEF Whole, Sound, InodesCounted
    <3>22. KeepsFiles(v, w)
      BY <2>2, <3>18 DEF KeepsFiles, Adds, FreeInodes
    <3>23. w.inode[ino].mode = mode
      BY <3>18 DEF Adds
    <3> QED
      BY <2>2, <3>6, <3>21, <3>22, <3>23
  <2> QED
    BY <2>14, <2>15
<1> QED
  BY <1>3, <1>4

-----------------------------------------------------------------------------
\* An entry taken out, and the inode it names, which is no directory or an empty one.
Drops(v, w, dir, off, ino) ==
    /\ w.inode[ino].mode = "free"
    /\ \A i \in Inodes \ {ino} : w.inode[i].mode = v.inode[i].mode /\ w.inode[i].size = v.inode[i].size
    /\ \A i \in Inodes \ {ino}, o \in Places : ~(i = dir /\ o = off) => EntryAt(w, i, o) = EntryAt(v, i, o)
    /\ EntryAt(w, dir, off).inode = 0

LEMMA DropsNamespace ==
    ASSUME NEW v \in Volume, NEW at, Forest(v, at), Namespace(v), NEW w \in Volume, NEW dir \in Dirs(v),
           NEW off \in Live(v, dir), NEW ino \in Inodes, EntryAt(v, dir, off).inode = ino,
           ino \in Dirs(v) => Live(v, ino) = {}, Drops(v, w, dir, off, ino)
    PROVE  Namespace(w) /\ FreeInodes(w) = FreeInodes(v) \cup {ino} /\ ino \notin FreeInodes(v)
<1>1. dir \in Inodes /\ v.inode[dir].mode = "dir" /\ RootInode \in Inodes
  BY Geometry DEF Dirs
<1>2. off \in Places /\ ino # 0 /\ ino # RootInode
  BY <1>1, LiveAre DEF RootInode
<1>3. ino # dir
  OBVIOUS
<1>4. v.inode[ino].mode # "free"
  <2>1. EntryAt(v, dir, off) \in DirEntry
    BY <1>1, <1>2, EntryFacts
  <2>2. v.inode[ino].mode = EntryAt(v, dir, off).type
    BY DEF Namespace
  <2> QED
    BY <2>1, <2>2 DEF DirEntry
<1>5. FreeInodes(w) = FreeInodes(v) \cup {ino} /\ ino \notin FreeInodes(v)
  BY <1>4 DEF FreeInodes, Drops
<1>6. Dirs(w) = Dirs(v) \ {ino} /\ Dirs(v) \subseteq Inodes
  BY DEF Dirs, Drops
<1>7. ASSUME NEW i \in Dirs(w)
      PROVE  Live(w, i) = {o \in Live(v, i) : ~(i = dir /\ o = off)}
  <2>1. i \in Inodes \ {ino}
    BY <1>6
  <2>2. Live(v, i) = {o \in Places : o + DirentSize <= v.inode[i].size /\ EntryAt(v, i, o).inode # 0}
    BY <2>1, LiveAre
  <2>3. Live(w, i) = {o \in Places : o + DirentSize <= w.inode[i].size /\ EntryAt(w, i, o).inode # 0}
    BY <2>1, LiveAre
  <2>4. \A o \in Places : ~(i = dir /\ o = off) => (o \in Live(w, i) <=> o \in Live(v, i))
    BY <2>1, <2>2, <2>3 DEF Drops
  <2>5. i = dir => off \notin Live(w, i)
    BY <2>3 DEF Drops
  <2> QED
    BY <2>2, <2>3, <2>4, <2>5
<1>8. ASSUME NEW i \in Dirs(w), NEW o \in Live(w, i)
      PROVE  /\ i \in Dirs(v) /\ o \in Live(v, i) /\ EntryAt(w, i, o) = EntryAt(v, i, o)
             /\ EntryAt(v, i, o).inode \in Inodes \ {ino}
  <2>1. i \in Dirs(v) /\ o \in Live(v, i) /\ ~(i = dir /\ o = off) /\ i \in Inodes \ {ino}
    BY <1>6, <1>7
  <2>2. o \in Places
    BY <2>1, LiveAre
  <2>3. EntryAt(v, i, o).inode \in Inodes
    BY <2>1, <2>2, EntryFacts DEF DirEntry
  <2>4. EntryAt(v, i, o).inode # ino
    BY <2>1 DEF Namespace
  <2> QED
    BY <2>1, <2>2, <2>3, <2>4 DEF Drops
<1>9. /\ w.inode[RootInode].mode = "dir"
      /\ \A i \in Dirs(w) : EndsWell(w.inode[i].size)
      /\ \A i \in Dirs(w) : \A o \in Live(w, i) :
             w.inode[EntryAt(w, i, o).inode].mode = EntryAt(w, i, o).type
  <2>1. w.inode[RootInode].mode = "dir"
    BY <1>1, <1>2 DEF Drops, Namespace
  <2>2. \A i \in Dirs(w) : EndsWell(w.inode[i].size)
    BY <1>6 DEF Drops, Namespace
  <2>3. ASSUME NEW i \in Dirs(w), NEW o \in Live(w, i)
        PROVE  w.inode[EntryAt(w, i, o).inode].mode = EntryAt(w, i, o).type
    <3>1. v.inode[EntryAt(v, i, o).inode].mode = EntryAt(v, i, o).type
      BY <1>8 DEF Namespace
    <3> QED
      BY <1>8, <3>1 DEF Drops
  <2> QED
    BY <2>1, <2>2, <2>3
<1>10. ASSUME NEW x \in Inodes \ {RootInode}, w.inode[x].mode # "free"
       PROVE  \E i \in Dirs(w) : \E o \in Live(w, i) : EntryAt(w, i, o).inode = x
  <2>1. x # ino /\ v.inode[x].mode # "free"
    BY <1>10 DEF Drops
  <2>2. PICK i \in Dirs(v) : \E o \in Live(v, i) : EntryAt(v, i, o).inode = x
    BY <2>1 DEF Namespace
  <2>3. PICK o \in Live(v, i) : EntryAt(v, i, o).inode = x
    BY <2>2
  <2>4. i \in Dirs(w)
    BY <1>6, <2>3
  <2>5. o \in Live(w, i)
    BY <1>7, <2>1, <2>3, <2>4
  <2> QED
    BY <1>8, <2>3, <2>4, <2>5
<1>11. \A i, j \in Dirs(w) : \A o \in Live(w, i), p \in Live(w, j) :
           EntryAt(w, i, o).inode = EntryAt(w, j, p).inode => i = j /\ o = p
  BY <1>8 DEF Namespace
<1> QED
  BY <1>5, <1>9, <1>10, <1>11 DEF Namespace

\* RemoveFrom: the entry, the blocks and the inode, all or none.
LEMMA RemoveWhole ==
    ASSUME NEW v, Whole(v), NEW dir \in Dirs(v), NEW name, Named(v, dir, name) # {},
           NEW ino, ino = EntryAt(v, dir, Least(Named(v, dir, name))).inode,
           ino \in Dirs(v) => Live(v, ino) = {}, NEW c, c = RemoveFrom(v, dir, name, ino)
    PROVE  Whole(c) /\ ino \in Inodes /\ \A i \in Inodes \ {ino} : c.inode[i].mode = v.inode[i].mode
<1>1. /\ v \in Volume /\ BlocksCounted(v) /\ Namespace(v) /\ InodesCounted(v)
      /\ \E at \in [Blocks -> Seq(Nat)] : Forest(v, at)
  BY DEF Whole, Sound
<1>2. PICK at \in [Blocks -> Seq(Nat)] : Forest(v, at)
  BY <1>1
<1>3. PICK off : off = Least(Named(v, dir, name))
  OBVIOUS
<1>4. dir \in Inodes
  BY DEF Dirs
<1>5. off \in Live(v, dir) /\ off \in Places
  <2>1. Live(v, dir) \subseteq Places /\ Places \subseteq Nat
    BY <1>1, <1>4, LiveAre DEF Places
  <2>2. Named(v, dir, name) \in SUBSET Nat /\ Named(v, dir, name) \subseteq Live(v, dir)
    BY <2>1 DEF Named
  <2> QED
    BY <1>3, <2>1, <2>2, LeastMember
<1>6. EntryAt(v, dir, off) \in DirEntry /\ EntryAt(v, dir, off).inode = ino /\ ino # 0 /\ ino \in Inodes
  <2>1. EntryAt(v, dir, off) \in DirEntry
    BY <1>1, <1>2, <1>4, <1>5, EntryFacts
  <2>2. EntryAt(v, dir, off).inode # 0
    BY <1>1, <1>4, <1>5, LiveAre
  <2> QED
    BY <1>3, <2>1, <2>2 DEF DirEntry
<1>7. map_lbn(v, dir, off \div BlockSize) # BlockNone
  <2>1. EntryAt(v, dir, off) # NoEntry
    BY <1>6, ZeroBlockFacts
  <2> QED
    BY <1>1, <1>2, <1>4, <1>5, <2>1, EntryFacts
<1>8. PICK a : a = SetEntry(v, dir, off, NoEntry)
  OBVIOUS
<1>9. /\ a \in Volume /\ Forest(a, at) /\ a.used = v.used /\ a.inode = v.inode
      /\ a.free_blocks = v.free_blocks /\ a.free_inodes = v.free_inodes
      /\ EntryAt(a, dir, off) = NoEntry
      /\ \A i \in Inodes, o \in Places : ~(i = dir /\ o = off) => EntryAt(a, i, o) = EntryAt(v, i, o)
  BY <1>1, <1>2, <1>4, <1>5, <1>7, <1>8, ZeroBlockFacts, SetEntryFacts
<1>10. BlocksCounted(a)
  BY <1>1, <1>9 DEF BlocksCounted
<1>11. PICK b : b = free_all_blocks(a, ino)
  OBVIOUS
<1>12. Rid(a, at, ino, b)
  BY <1>6, <1>9, <1>10, <1>11, FreeAll
<1>13. b \in Volume /\ Forest(b, at) /\ BlocksCounted(b) /\ b.free_inodes = v.free_inodes
  BY <1>9, <1>12 DEF Rid
<1>14. PICK n : n = v.free_inodes + 1
  OBVIOUS
<1>15. n \in Nat /\ v.free_inodes \in Nat
  BY <1>1, <1>14 DEF Volume
<1>16. c = [b EXCEPT !.inode[ino] = ZeroInode, !.free_inodes = n]
  <2>1. c = [b EXCEPT !.inode[ino] = ZeroInode, !.free_inodes = b.free_inodes + 1]
    BY <1>3, <1>8, <1>11, <1>13 DEF RemoveFrom, dir_clear_entry_in, Volume
  <2> QED
    BY <1>13, <1>14, <2>1
<1>17. Rewritten(b, ino, ZeroInode, n, c)
  <2>1. \A k \in 0 .. Direct + 2 : b.inode[ino].ptr[k] = BlockNone
    BY <1>12 DEF Rid
  <2> QED
    BY <1>15, <1>16, <2>1, ZeroBlockFacts DEF Rewritten
<1>18. /\ c \in Volume /\ Forest(c, at) /\ BlocksCounted(c)
       /\ c.free_inodes = n /\ c.inode[ino] = ZeroInode /\ \A j \in Inodes \ {ino} : c.inode[j] = b.inode[j]
       /\ \A j \in Inodes, o \in Places : EntryAt(c, j, o) = EntryAt(b, j, o)
  BY <1>6, <1>13, <1>17, SetInode
<1>19. \A i \in Inodes \ {ino} : c.inode[i].mode = v.inode[i].mode /\ c.inode[i].size = v.inode[i].size
  BY <1>9, <1>12, <1>18 DEF Rid
<1>20. \A i \in Inodes \ {ino}, o \in Places : EntryAt(c, i, o) = EntryAt(a, i, o)
  BY <1>12, <1>18 DEF Rid
<1>21. ino # dir
  BY <1>5
<1>22. Drops(v, c, dir, off, ino)
  BY <1>4, <1>5, <1>9, <1>18, <1>19, <1>20, <1>21, ZeroBlockFacts DEF Drops
<1>23. Namespace(c) /\ FreeInodes(c) = FreeInodes(v) \cup {ino} /\ ino \notin FreeInodes(v)
  BY <1>1, <1>2, <1>5, <1>6, <1>18, <1>22, DropsNamespace
<1>24. InodesCounted(c)
  <2>1. IsFiniteSet(FreeInodes(v))
    BY Geometry, FS_Subset DEF FreeInodes
  <2>2. Cardinality(FreeInodes(v) \cup {ino}) = Cardinality(FreeInodes(v)) + 1
    BY <1>23, <2>1, FS_AddElement
  <2> QED
    BY <1>1, <1>14, <1>18, <1>23, <2>2 DEF InodesCounted
<1> QED
  BY <1>6, <1>18, <1>19, <1>23, <1>24 DEF Whole, Sound

-----------------------------------------------------------------------------
(* Writing and truncating a file *)

Resized(v, i, n, w) == w = [v EXCEPT !.inode[i].size = n]

\* The size of a file is no part of the namespace.
LEMMA ResizeWhole ==
    ASSUME NEW v, Whole(v), NEW i \in Inodes, v.inode[i].mode = "file", NEW n \in Nat,
           NEW w, Resized(v, i, n, w)
    PROVE  /\ Whole(w) /\ Shows(v, w) /\ w.inode[i].size = n
           /\ \A j \in Inodes : w.inode[j].mode = v.inode[j].mode
<1>1. /\ v \in Volume /\ BlocksCounted(v) /\ Namespace(v) /\ InodesCounted(v)
      /\ \E at \in [Blocks -> Seq(Nat)] : Forest(v, at)
  BY DEF Whole, Sound
<1>2. PICK at \in [Blocks -> Seq(Nat)] : Forest(v, at)
  BY <1>1
<1>3. PICK r : r = [v.inode[i] EXCEPT !.size = n]
  OBVIOUS
<1>4. PICK m \in Nat : m = v.free_inodes
  BY <1>1 DEF Volume
<1>5. v.inode[i] \in InodeRec
  BY <1>1 DEF Volume
<1>6. r \in InodeRec /\ r.ptr = v.inode[i].ptr /\ r.mode = "file" /\ r.size = n
  BY <1>3, <1>5 DEF InodeRec
<1>7. w = [v EXCEPT !.inode[i] = r, !.free_inodes = m]
  BY <1>1, <1>3, <1>4, <1>5 DEF Volume, InodeRec, Resized
<1>8. Rewritten(v, i, r, m, w)
  <2>1. r.mode # "free"
    BY <1>6
  <2> QED
    BY <1>6, <1>7, <2>1 DEF Rewritten
<1>9. /\ w \in Volume /\ Forest(w, at) /\ BlocksCounted(w)
      /\ w.free_inodes = m /\ w.inode[i] = r /\ \A j \in Inodes \ {i} : w.inode[j] = v.inode[j]
      /\ \A j \in Inodes, o \in Places : EntryAt(w, j, o) = EntryAt(v, j, o)
  <2>1. v \in Volume /\ BlocksCounted(v)
    BY <1>1
  <2> QED
    BY <1>2, <1>8, <2>1, SetInode
<1>10. Shows(v, w)
  BY <1>6, <1>9 DEF Shows, Dirs
<1>11. Namespace(w) /\ FreeInodes(w) = FreeInodes(v)
  BY <1>1, <1>2, <1>9, <1>10, SameNamespace
<1> QED
  BY <1>1, <1>4, <1>6, <1>9, <1>10, <1>11 DEF Whole, Sound, InodesCounted, Shows

\* New blocks show in no directory.
LEMMA GrowsWhole ==
    ASSUME NEW v, Whole(v), NEW at, Forest(v, at), NEW w, NEW to, Grows(v, at, w, to)
    PROVE  Whole(w) /\ Shows(v, w) /\ \A i \in Inodes : w.inode[i].mode = v.inode[i].mode
<1>1. v \in Volume /\ Namespace(v) /\ InodesCounted(v)
  BY DEF Whole, Sound
<1>2. /\ w \in Volume /\ Forest(w, to) /\ BlocksCounted(w) /\ to \in [Blocks -> Seq(Nat)]
      /\ w.free_inodes = v.free_inodes
      /\ \A i \in Inodes : w.inode[i].mode = v.inode[i].mode /\ w.inode[i].size = v.inode[i].size
  BY DEF Grows
<1>3. \A i \in Inodes, o \in Places : EntryAt(w, i, o) = EntryAt(v, i, o)
  BY <1>1, GrowsEntries
<1>4. Shows(v, w)
  BY <1>2, <1>3 DEF Shows, Dirs
<1>5. Namespace(w) /\ FreeInodes(w) = FreeInodes(v)
  BY <1>1, <1>2, <1>4, SameNamespace
<1> QED
  BY <1>1, <1>2, <1>4, <1>5 DEF Whole, Sound, InodesCounted

\* What shows in no directory twice shows in none.
LEMMA ShowsOn ==
    ASSUME NEW v, NEW u, NEW w, Shows(v, u), Shows(u, w)
    PROVE  Shows(v, w)
<1>1. Dirs(u) = Dirs(v) /\ Dirs(v) \subseteq Inodes
  BY DEF Shows, Dirs
<1>2. ASSUME NEW i \in Dirs(v), NEW o \in Places, o + DirentSize <= v.inode[i].size
      PROVE  EntryAt(w, i, o) = EntryAt(v, i, o)
  <2>1. EntryAt(u, i, o) = EntryAt(v, i, o) /\ o + DirentSize <= u.inode[i].size
    BY <1>2 DEF Shows
  <2> QED
    BY <1>1, <2>1 DEF Shows
<1> QED
  BY <1>1, <1>2 DEF Shows

Truncated(v, i, w) == w = [free_all_blocks(v, i) EXCEPT !.inode[i].size = 0]

LEMMA TruncWhole ==
    ASSUME NEW v, Whole(v), NEW i \in Inodes, v.inode[i].mode = "file",
           NEW w, Truncated(v, i, w)
    PROVE  Whole(w) /\ \A j \in Inodes : w.inode[j].mode = v.inode[j].mode
<1>1. /\ v \in Volume /\ BlocksCounted(v) /\ Namespace(v) /\ InodesCounted(v)
      /\ \E at \in [Blocks -> Seq(Nat)] : Forest(v, at)
  BY DEF Whole, Sound
<1>2. PICK at \in [Blocks -> Seq(Nat)] : Forest(v, at)
  BY <1>1
<1>3. PICK b : b = free_all_blocks(v, i)
  OBVIOUS
<1>4. Rid(v, at, i, b)
  BY <1>1, <1>2, <1>3, FreeAll
<1>5. /\ b \in Volume /\ Forest(b, at) /\ BlocksCounted(b) /\ b.free_inodes = v.free_inodes
      /\ \A j \in Inodes : b.inode[j].mode = v.inode[j].mode /\ b.inode[j].size = v.inode[j].size
      /\ \A j \in Inodes \ {i}, o \in Places : EntryAt(b, j, o) = EntryAt(v, j, o)
  BY <1>4 DEF Rid
<1>6. Shows(v, b)
  BY <1>5 DEF Shows, Dirs
<1>7. Namespace(b) /\ FreeInodes(b) = FreeInodes(v)
  BY <1>1, <1>2, <1>5, <1>6, SameNamespace
<1>8. Whole(b) /\ b.inode[i].mode = "file"
  BY <1>1, <1>5, <1>7 DEF Whole, Sound, InodesCounted
<1>9. PICK n \in Nat : n = 0
  OBVIOUS
<1>10. Resized(b, i, n, w)
  BY <1>3, <1>9 DEF Resized, Truncated
<1>11. \A x : Resized(b, i, n, x) => Whole(x) /\ \A j \in Inodes : x.inode[j].mode = b.inode[j].mode
  <2>1. ASSUME NEW x, Resized(b, i, n, x) PROVE Whole(x) /\ \A j \in Inodes : x.inode[j].mode = b.inode[j].mode
    BY <1>8, <2>1, ResizeWhole
  <2> QED
    BY <2>1
<1> QED
  BY <1>5, <1>10, <1>11

HandleRec == [inode : Inodes, size : Nat, is_dir : BOOLEAN, pos : Nat]

\* A write in progress through the handle f of a file, on a volume that was v.
Writing(v, f, a) ==
    /\ Whole(a.vol) /\ \A i \in Inodes : a.vol.inode[i].mode = v.inode[i].mode
    /\ a.f \in HandleRec /\ a.f.inode = f.inode /\ a.f.is_dir = f.is_dir
    /\ Shows(v, a.vol) /\ a.done \in Nat /\ (a.done = 0 => a.f = f)

LEMMA CellWritten ==
    ASSUME NEW v, NEW f \in HandleRec, v.inode[f.inode].mode = "file", NEW a, Writing(v, f, a)
    PROVE  Writing(v, f, NextCell(a))
<1>1. CASE ~a.ok
  BY <1>1 DEF NextCell
<1>2. CASE a.ok
  <2>1. PICK m : m = bmap_alloc(a.vol, a.f.inode, a.f.pos \div BlockSize)
    OBVIOUS
  <2>2. PICK u : u = a.vol
    OBVIOUS
  <2>3. PICK l : l = a.f.pos \div BlockSize
    OBVIOUS
  <2>4. PICK i : i = f.inode
    OBVIOUS
  <2>5. /\ Whole(u) /\ \A j \in Inodes : u.inode[j].mode = v.inode[j].mode
        /\ a.f \in HandleRec /\ a.f.inode = i /\ a.f.is_dir = f.is_dir /\ i \in Inodes
        /\ v.inode[i].mode = "file" /\ Shows(v, u) /\ a.done \in Nat /\ (a.done = 0 => a.f = f)
    BY <2>2, <2>4 DEF Writing, HandleRec
  <2>6. l \in Nat /\ a.f.pos \in Nat /\ a.f.size \in Nat
    BY <2>3, <2>5, Geometry, Divided DEF HandleRec
  <2>7. u \in Volume /\ BlocksCounted(u) /\ \E at \in [Blocks -> Seq(Nat)] : Forest(u, at)
    BY <2>5 DEF Whole, Sound
  <2>8. PICK at \in [Blocks -> Seq(Nat)] : Forest(u, at)
    BY <2>7
  <2>9. u.inode[i].mode = "file" /\ u.inode[i].mode # "free"
    BY <2>5
  <2>10. \E to : Grows(u, at, m.vol, to)
    <3>1. m = bmap_alloc(u, i, l)
      BY <2>1, <2>2, <2>3, <2>5
    <3> QED
      BY <2>5, <2>6, <2>7, <2>8, <2>9, <3>1, BmapAlloc
  <2>11. PICK w : w = m.vol
    OBVIOUS
  <2>12. Whole(w) /\ Shows(u, w) /\ \A j \in Inodes : w.inode[j].mode = u.inode[j].mode
    BY <2>5, <2>8, <2>10, <2>11, GrowsWhole
  <2>13. Shows(v, w) /\ \A j \in Inodes : w.inode[j].mode = v.inode[j].mode
    BY <2>5, <2>12, ShowsOn
  <2>14. NextCell(a) = WriteCell(a, m)
    BY <1>2, <2>1 DEF NextCell
  <2>15. CASE m.blk = BlockNone
    <3>1. WriteCell(a, m).vol = w /\ WriteCell(a, m).f = a.f /\ WriteCell(a, m).done = a.done
      BY <2>11, <2>15 DEF WriteCell
    <3> QED
      BY <2>4, <2>5, <2>12, <2>13, <2>14, <3>1 DEF Writing
  <2>16. CASE m.blk # BlockNone
    <3>1. PICK g : g = [a.f EXCEPT !.pos = @ + 1, !.size = IF a.f.pos + 1 > @ THEN a.f.pos + 1 ELSE @]
      OBVIOUS
    <3>2. /\ WriteCell(a, m).vol = Scribble(w, i, m.blk, a.f.pos % BlockSize)
          /\ WriteCell(a, m).f = g /\ WriteCell(a, m).done = a.done + 1
      BY <2>5, <2>11, <2>16, <3>1 DEF WriteCell
    <3>3. Scribble(w, i, m.blk, a.f.pos % BlockSize) = w
      <4>1. w.inode[i].mode # "dir"
        BY <2>5, <2>13
      <4> QED
        BY <4>1 DEF Scribble
    <3>4. g \in HandleRec /\ g.inode = i /\ g.is_dir = f.is_dir
      <4>1. PICK s \in Nat : s = IF a.f.pos + 1 > a.f.size THEN a.f.pos + 1 ELSE a.f.size
        BY <2>6
      <4>2. PICK p \in Nat : p = a.f.pos + 1
        BY <2>6
      <4>3. g = [a.f EXCEPT !.pos = p, !.size = s]
        BY <2>5, <3>1, <4>1, <4>2 DEF HandleRec
      <4> QED
        BY <2>5, <4>3 DEF HandleRec
    <3>5. a.done + 1 \in Nat /\ a.done + 1 # 0
      BY <2>5
    <3> QED
      BY <2>4, <2>5, <2>12, <2>13, <2>14, <3>2, <3>3, <3>4, <3>5 DEF Writing
  <2> QED
    BY <2>15, <2>16
<1> QED
  BY <1>1, <1>2

\* The cells of a write, one after the other.
WriteSteps(g, v, f, n) ==
    /\ g[0] = [vol |-> v, f |-> f, done |-> 0, ok |-> TRUE]
    /\ \A c \in 1 .. n : g[c] = NextCell(g[c - 1])
    /\ trashfs_write(v, f, n) =
           IF f.is_dir THEN [res |-> "INVALID_ARG", vol |-> v, file |-> f, done |-> 0]
           ELSE [res |-> IF g[n].done = 0 /\ n > 0 THEN "NO_SPACE" ELSE "ok",
                 vol |-> [g[n].vol EXCEPT !.inode[f.inode].size = g[n].f.size],
                 file |-> g[n].f, done |-> g[n].done]

LEMMA WriteFollows ==
    ASSUME NEW v, NEW f, NEW n \in Nat
    PROVE  \E g : WriteSteps(g, v, f, n)
<1> DEFINE start == [vol |-> v, f |-> f, done |-> 0, ok |-> TRUE]
           Upto(g, m) == g = [c \in 0 .. m |-> IF c = 0 THEN start ELSE NextCell(g[c - 1])]
           Good == {m \in Nat : \E g : Upto(g, m)}
<1> HIDE DEF start
<1>1. 0 \in Good
  <2> DEFINE f0 == [c \in 0 .. 0 |-> start]
  <2>1. Upto(f0, 0)
    OBVIOUS
  <2> QED
    BY <2>1
<1>2. ASSUME NEW m \in Good PROVE m + 1 \in Good
  <2>1. PICK g : Upto(g, m)
    OBVIOUS
  <2> DEFINE k == [c \in 0 .. m + 1 |-> IF c = m + 1 THEN NextCell(g[m]) ELSE g[c]]
             h == [c \in 0 .. m + 1 |-> IF c = 0 THEN start ELSE NextCell(k[c - 1])]
  <2>2. \A c \in 0 .. m : g[c] = IF c = 0 THEN start ELSE NextCell(g[c - 1])
    BY <2>1
  <2>3. ASSUME NEW c \in 0 .. m + 1 PROVE k[c] = h[c]
    <3>1. CASE c = m + 1
      <4>1. c # 0 /\ m \in 0 .. m + 1 /\ m # m + 1 /\ c - 1 = m /\ m \in Nat
        BY <3>1
      <4>2. k[m] = g[m] /\ k[c] = NextCell(g[m])
        BY <3>1, <4>1
      <4>3. h[c] = NextCell(k[c - 1])
        BY <4>1
      <4> QED
        BY <3>1, <4>1, <4>2, <4>3
    <3>2. CASE c \in 0 .. m /\ c = 0
      BY <2>2, <3>2
    <3>3. CASE c \in 0 .. m /\ c # 0
      <4>1. c - 1 \in 0 .. m + 1 /\ c - 1 # m + 1 /\ c # m + 1 /\ m \in Nat
        BY <3>3
      <4>2. k[c - 1] = g[c - 1] /\ k[c] = g[c]
        BY <4>1
      <4>3. h[c] = NextCell(k[c - 1])
        BY <3>3
      <4>4. g[c] = NextCell(g[c - 1])
        BY <2>2, <3>3
      <4> QED
        BY <4>2, <4>3, <4>4
    <3> QED
      BY <3>1, <3>2, <3>3
  <2>4. k = h
    <3> HIDE DEF h
    <3>1. h = [c \in 0 .. m + 1 |-> h[c]]
      BY DEF h
    <3>2. k = [c \in 0 .. m + 1 |-> k[c]]
      OBVIOUS
    <3> HIDE DEF k
    <3> QED
      BY <2>3, <3>1, <3>2
  <2>5. Upto(k, m + 1)
    <3> HIDE DEF k
    <3> QED
      BY <2>4
  <2>6. m + 1 \in Nat
    OBVIOUS
  <2> HIDE DEF k, Upto
  <2> QED
    BY <2>5, <2>6
<1>3. n \in Good
  <2>1. Good \in SUBSET Nat
    OBVIOUS
  <2> HIDE DEF Good
  <2>2. Good = Nat
    BY <1>1, <1>2, <2>1, SetOfAllNats
  <2> QED
    BY <2>2
<1>4. PICK g : Upto(g, n)
  BY <1>3
<1> DEFINE a == CHOOSE g2 : g2 = [c \in 0 .. n |-> IF c = 0 THEN start ELSE NextCell(g2[c - 1])]
<1>5. a = [c \in 0 .. n |-> IF c = 0 THEN start ELSE NextCell(a[c - 1])]
  BY <1>4
<1>6. trashfs_write(v, f, n) =
           IF f.is_dir THEN [res |-> "INVALID_ARG", vol |-> v, file |-> f, done |-> 0]
           ELSE [res |-> IF a[n].done = 0 /\ n > 0 THEN "NO_SPACE" ELSE "ok",
                 vol |-> [a[n].vol EXCEPT !.inode[f.inode].size = a[n].f.size],
                 file |-> a[n].f, done |-> a[n].done]
  BY DEF trashfs_write, start
<1> HIDE DEF a
<1>7. a[0] = start /\ \A c \in 1 .. n : a[c] = NextCell(a[c - 1])
  <2>1. \A c \in 0 .. n : a[c] = IF c = 0 THEN start ELSE NextCell(a[c - 1])
    BY <1>5
  <2> QED
    BY <2>1
<1> QED
  BY <1>6, <1>7 DEF WriteSteps, start

\* trashfs_write, also one that runs out of blocks halfway.
LEMMA WriteWhole ==
    ASSUME NEW v, Whole(v), NEW f \in HandleRec, ~f.is_dir => v.inode[f.inode].mode = "file",
           NEW n \in Nat, NEW r, r = trashfs_write(v, f, n)
    PROVE  /\ Whole(r.vol) /\ \A i \in Inodes : r.vol.inode[i].mode = v.inode[i].mode
           /\ r.file \in HandleRec /\ r.file.inode = f.inode /\ r.file.is_dir = f.is_dir
           /\ r.res # "ok" => Shows(v, r.vol) /\ r.file = f
<1>1. PICK g : WriteSteps(g, v, f, n)
  BY WriteFollows
<1>2. CASE f.is_dir
  <2>1. r.vol = v /\ r.file = f
    <3>1. r = [res |-> "INVALID_ARG", vol |-> v, file |-> f, done |-> 0]
      BY <1>1, <1>2 DEF WriteSteps
    <3> QED
      BY <3>1
  <2> QED
    BY <2>1 DEF Shows
<1>3. CASE ~f.is_dir
  <2> DEFINE Good == {c \in Nat : c <= n => Writing(v, f, g[c])}
  <2>1. 0 \in Good
    BY <1>1 DEF WriteSteps, Writing, Shows
  <2>2. ASSUME NEW c \in Good PROVE c + 1 \in Good
    <3>1. SUFFICES ASSUME c + 1 <= n PROVE Writing(v, f, g[c + 1])
      OBVIOUS
    <3>2. c <= n /\ c + 1 \in 1 .. n /\ c + 1 - 1 = c
      BY <3>1
    <3>3. Writing(v, f, g[c])
      BY <3>2
    <3>4. g[c + 1] = NextCell(g[c])
      BY <1>1, <3>2 DEF WriteSteps
    <3> QED
      BY <1>3, <3>3, <3>4, CellWritten
  <2>3. Good = Nat
    <3>1. Good \in SUBSET Nat
      OBVIOUS
    <3> HIDE DEF Good
    <3> QED
      BY <2>1, <2>2, <3>1, SetOfAllNats
  <2>4. PICK end : end = g[n]
    OBVIOUS
  <2>5. Writing(v, f, end)
    BY <2>3, <2>4
  <2>6. PICK u : u = end.vol
    OBVIOUS
  <2>7. PICK s : s = end.f.size
    OBVIOUS
  <2>8. PICK i : i = f.inode
    OBVIOUS
  <2>9. Whole(u) /\ i \in Inodes /\ u.inode[i].mode = "file" /\ s \in Nat
        /\ \A j \in Inodes : u.inode[j].mode = v.inode[j].mode
    BY <1>3, <2>5, <2>6, <2>7, <2>8 DEF Writing, HandleRec
  <2>10. r.vol = [u EXCEPT !.inode[i].size = s] /\ r.file = end.f
    BY <1>1, <1>3, <2>4, <2>6, <2>7, <2>8 DEF WriteSteps
  <2>11. PICK w : w = r.vol
    OBVIOUS
  <2>12. Resized(u, i, s, w)
    BY <2>10, <2>11 DEF Resized
  <2>13. Whole(w) /\ Shows(u, w) /\ \A j \in Inodes : w.inode[j].mode = u.inode[j].mode
    BY <2>9, <2>12, ResizeWhole
  <2>14. Shows(v, w)
    BY <2>5, <2>6, <2>13, ShowsOn DEF Writing
  <2>15. r.res # "ok" => end.done = 0
    BY <1>1, <1>3, <2>4 DEF WriteSteps
  <2> QED
    BY <2>5, <2>9, <2>10, <2>11, <2>13, <2>14, <2>15 DEF Writing
<1> QED
  BY <1>2, <1>3

-----------------------------------------------------------------------------
(* Paths *)

\* What is found under a name.
LEMMA FindFacts ==
    ASSUME NEW v \in Volume, NEW at, Forest(v, at), Namespace(v), NEW dir \in Dirs(v), NEW name,
           NEW e, e = dir_find_in(v, dir, name)
    PROVE  /\ e \in DirEntry
           /\ Named(v, dir, name) # {} <=> e.inode # 0
           /\ e.inode # 0 => e = EntryAt(v, dir, Least(Named(v, dir, name))) /\ v.inode[e.inode].mode = e.type
<1>1. dir \in Inodes
  BY DEF Dirs
<1>2. CASE Named(v, dir, name) = {}
  <2>1. e = NoEntry
    BY <1>2 DEF dir_find_in
  <2> QED
    BY <1>2, <2>1, ZeroBlockFacts
<1>3. CASE Named(v, dir, name) # {}
  <2>1. PICK o : o = Least(Named(v, dir, name))
    OBVIOUS
  <2>2. o \in Live(v, dir) /\ o \in Places /\ EntryAt(v, dir, o).inode # 0
    <3>1. Live(v, dir) \subseteq Places /\ Places \subseteq Nat
      BY <1>1, LiveAre DEF Places
    <3>2. Named(v, dir, name) \in SUBSET Nat /\ Named(v, dir, name) \subseteq Live(v, dir)
      BY <3>1 DEF Named
    <3>3. o \in Live(v, dir) /\ o \in Places
      BY <1>3, <2>1, <3>1, <3>2, LeastMember
    <3> QED
      BY <1>1, <3>3, LiveAre
  <2>3. e = EntryAt(v, dir, o)
    BY <1>3, <2>1 DEF dir_find_in
  <2>4. e \in DirEntry
    BY <1>1, <2>2, <2>3, EntryFacts
  <2>5. v.inode[e.inode].mode = e.type
    BY <2>2, <2>3 DEF Namespace
  <2> QED
    BY <1>3, <2>1, <2>2, <2>3, <2>4, <2>5
<1> QED
  BY <1>2, <1>3

\* A walk stands on an inode in use, and the way back is over directories.
WalkTyped(v, a) ==
    /\ a = [res |-> a.res, cur |-> a.cur, type |-> a.type, stack |-> a.stack]
    /\ a.res = "ok" => /\ a.stack \in Seq(Dirs(v)) /\ Len(a.stack) # 0
                       /\ a.cur \in Inodes /\ v.inode[a.cur].mode = a.type /\ a.type \in {"file", "dir"}
InDir(a) == a.res = "ok" => a.type = "dir"

LEMMA WalkStep ==
    ASSUME NEW v \in Volume, NEW at, Forest(v, at), Namespace(v), NEW a, WalkTyped(v, a), InDir(a),
           NEW comps, NEW i, NEW allow \in BOOLEAN, NEW b, b = WalkOne(v, a, comps, i, allow)
    PROVE  /\ WalkTyped(v, b)
           /\ i < Len(comps) \/ ~allow => InDir(b)
<1>1. CASE a.res # "ok" \/ comps[i] = "."
  BY <1>1 DEF WalkOne
<1>2. CASE a.res = "ok" /\ comps[i] # "." /\ comps[i] = ".."
  <2>1. PICK s : s = IF Len(a.stack) > 1 THEN Front(a.stack) ELSE a.stack
    OBVIOUS
  <2>2. b = [a EXCEPT !.stack = s, !.cur = Last(s), !.type = "dir"]
    BY <1>2, <2>1 DEF WalkOne, BackTo
  <2>3. a.stack \in Seq(Dirs(v)) /\ Len(a.stack) # 0
    BY <1>2 DEF WalkTyped
  <2>4. s \in Seq(Dirs(v)) /\ Len(s) # 0
    <3>1. CASE Len(a.stack) > 1
      BY <2>1, <2>3, <3>1 DEF Front
    <3>2. CASE ~(Len(a.stack) > 1)
      BY <2>1, <2>3, <3>2
    <3> QED
      BY <3>1, <3>2
  <2>5. Last(s) \in Dirs(v)
    BY <2>4 DEF Last
  <2>6. b = [res |-> "ok", cur |-> Last(s), type |-> "dir", stack |-> s]
    <3>1. a = [res |-> a.res, cur |-> a.cur, type |-> a.type, stack |-> a.stack]
      BY DEF WalkTyped
    <3> QED
      BY <1>2, <2>2, <3>1
  <2> QED
    BY <2>4, <2>5, <2>6 DEF WalkTyped, InDir, Dirs
<1>3. CASE a.res = "ok" /\ comps[i] # "." /\ comps[i] # ".."
  <2>1. PICK e : e = dir_find_in(v, a.cur, comps[i])
    OBVIOUS
  <2>2. PICK dir \in BOOLEAN : dir <=> i < Len(comps) \/ ~allow
    OBVIOUS
  <2>3. a.cur \in Dirs(v) /\ a.stack \in Seq(Dirs(v)) /\ Len(a.stack) # 0
    BY <1>3 DEF WalkTyped, InDir, Dirs
  <2>4. e \in DirEntry /\ (e.inode # 0 => v.inode[e.inode].mode = e.type)
    BY <2>1, <2>3, FindFacts
  <2>5. b = IF e.inode = 0 THEN [a EXCEPT !.res = "NOT_FOUND"]
            ELSE IF dir /\ e.type # "dir" THEN [a EXCEPT !.res = "NOT_DIR"]
            ELSE IF dir /\ Len(a.stack) >= PathDepth THEN [a EXCEPT !.res = "INVALID_ARG"]
            ELSE [a EXCEPT !.cur = e.inode, !.type = e.type,
                           !.stack = IF dir THEN Append(a.stack, e.inode) ELSE a.stack]
    <3>1. a = [res |-> a.res, cur |-> a.cur, type |-> a.type, stack |-> a.stack]
      BY DEF WalkTyped
    <3> QED
      BY <1>3, <2>1, <2>2, <3>1 DEF WalkOne, Descend
  <2>6. a = [res |-> a.res, cur |-> a.cur, type |-> a.type, stack |-> a.stack]
    BY DEF WalkTyped
  <2>7. CASE e.inode = 0 \/ (dir /\ e.type # "dir") \/ (dir /\ Len(a.stack) >= PathDepth)
    <3>1. \A x : [a EXCEPT !.res = x] = [res |-> x, cur |-> a.cur, type |-> a.type, stack |-> a.stack]
      BY <2>6
    <3>2. b \in {[a EXCEPT !.res = "NOT_FOUND"], [a EXCEPT !.res = "NOT_DIR"], [a EXCEPT !.res = "INVALID_ARG"]}
      BY <2>5, <2>7
    <3>3. \E x \in {"NOT_FOUND", "NOT_DIR", "INVALID_ARG"} :
              b = [res |-> x, cur |-> a.cur, type |-> a.type, stack |-> a.stack]
      BY <3>1, <3>2
    <3> QED
      BY <3>3 DEF WalkTyped, InDir
  <2>8. CASE ~(e.inode = 0 \/ (dir /\ e.type # "dir") \/ (dir /\ Len(a.stack) >= PathDepth))
    <3>1. PICK s : s = IF dir THEN Append(a.stack, e.inode) ELSE a.stack
      OBVIOUS
    <3>2. b = [a EXCEPT !.cur = e.inode, !.type = e.type, !.stack = s]
      BY <2>5, <2>8, <3>1
    <3>3. b = [res |-> "ok", cur |-> e.inode, type |-> e.type, stack |-> s]
      BY <1>3, <2>6, <3>2
    <3>4. s \in Seq(Dirs(v)) /\ Len(s) # 0
      <4>1. CASE dir
        <5>1. e.inode \in Dirs(v)
          BY <2>4, <2>8, <4>1 DEF DirEntry, Dirs
        <5> QED
          BY <2>3, <3>1, <4>1, <5>1
      <4>2. CASE ~dir
        BY <2>3, <3>1, <4>2
      <4> QED
        BY <4>1, <4>2
    <3>5. e.inode \in Inodes /\ v.inode[e.inode].mode = e.type /\ e.type \in {"file", "dir"}
      BY <2>4, <2>8 DEF DirEntry
    <3>6. dir => e.type = "dir"
      BY <2>8
    <3> QED
      BY <2>2, <3>3, <3>4, <3>5, <3>6 DEF WalkTyped, InDir
  <2> QED
    BY <2>7, <2>8
<1> QED
  BY <1>1, <1>2, <1>3

\* The components of a path, one after the other.
WalkSteps(g, v, comps, allow) ==
    /\ g[0] = AtRoot
    /\ \A c \in 1 .. Len(comps) : g[c] = WalkOne(v, g[c - 1], comps, c, allow)
    /\ path_step(v, comps, allow) = g[Len(comps)]

LEMMA WalkFollows ==
    ASSUME NEW v, NEW comps, Len(comps) \in Nat, NEW allow
    PROVE  \E g : WalkSteps(g, v, comps, allow)
<1> DEFINE Upto(g, m) == g = [c \in 0 .. m |-> IF c = 0 THEN AtRoot ELSE WalkOne(v, g[c - 1], comps, c, allow)]
           Good == {m \in Nat : \E g : Upto(g, m)}
           n == Len(comps)
<1>1. 0 \in Good
  <2> DEFINE f0 == [c \in 0 .. 0 |-> AtRoot]
  <2>1. Upto(f0, 0)
    OBVIOUS
  <2> QED
    BY <2>1
<1>2. ASSUME NEW m \in Good PROVE m + 1 \in Good
  <2>1. PICK g : Upto(g, m)
    OBVIOUS
  <2> DEFINE k == [c \in 0 .. m + 1 |-> IF c = m + 1 THEN WalkOne(v, g[m], comps, m + 1, allow) ELSE g[c]]
             h == [c \in 0 .. m + 1 |-> IF c = 0 THEN AtRoot ELSE WalkOne(v, k[c - 1], comps, c, allow)]
  <2>2. \A c \in 0 .. m : g[c] = IF c = 0 THEN AtRoot ELSE WalkOne(v, g[c - 1], comps, c, allow)
    BY <2>1
  <2>3. ASSUME NEW c \in 0 .. m + 1 PROVE k[c] = h[c]
    <3>1. CASE c = m + 1
      <4>1. c # 0 /\ m \in 0 .. m + 1 /\ m # m + 1 /\ c - 1 = m /\ m \in Nat
        BY <3>1
      <4>2. k[m] = g[m] /\ k[c] = WalkOne(v, g[m], comps, m + 1, allow)
        BY <3>1, <4>1
      <4>3. h[c] = WalkOne(v, k[c - 1], comps, c, allow)
        BY <4>1
      <4> QED
        BY <3>1, <4>1, <4>2, <4>3
    <3>2. CASE c \in 0 .. m /\ c = 0
      BY <2>2, <3>2
    <3>3. CASE c \in 0 .. m /\ c # 0
      <4>1. c - 1 \in 0 .. m + 1 /\ c - 1 # m + 1 /\ c # m + 1 /\ m \in Nat
        BY <3>3
      <4>2. k[c - 1] = g[c - 1] /\ k[c] = g[c]
        BY <4>1
      <4>3. h[c] = WalkOne(v, k[c - 1], comps, c, allow)
        BY <3>3
      <4>4. g[c] = WalkOne(v, g[c - 1], comps, c, allow)
        BY <2>2, <3>3
      <4> QED
        BY <4>2, <4>3, <4>4
    <3> QED
      BY <3>1, <3>2, <3>3
  <2>4. k = h
    <3> HIDE DEF h
    <3>1. h = [c \in 0 .. m + 1 |-> h[c]]
      BY DEF h
    <3>2. k = [c \in 0 .. m + 1 |-> k[c]]
      OBVIOUS
    <3> HIDE DEF k
    <3> QED
      BY <2>3, <3>1, <3>2
  <2>5. Upto(k, m + 1)
    <3> HIDE DEF k
    <3> QED
      BY <2>4
  <2>6. m + 1 \in Nat
    OBVIOUS
  <2> HIDE DEF k, Upto
  <2> QED
    BY <2>5, <2>6
<1>3. n \in Good
  <2>1. Good \in SUBSET Nat
    OBVIOUS
  <2> HIDE DEF Good
  <2>2. Good = Nat
    BY <1>1, <1>2, <2>1, SetOfAllNats
  <2> QED
    BY <2>2
<1>4. PICK g : Upto(g, n)
  BY <1>3
<1> DEFINE a == CHOOSE g2 : g2 = [c \in 0 .. n |-> IF c = 0 THEN AtRoot ELSE WalkOne(v, g2[c - 1], comps, c, allow)]
<1>5. a = [c \in 0 .. n |-> IF c = 0 THEN AtRoot ELSE WalkOne(v, a[c - 1], comps, c, allow)]
  BY <1>4
<1>6. path_step(v, comps, allow) = a[n]
  BY DEF path_step
<1> HIDE DEF a
<1>7. a[0] = AtRoot /\ \A c \in 1 .. n : a[c] = WalkOne(v, a[c - 1], comps, c, allow)
  <2>1. \A c \in 0 .. n : a[c] = IF c = 0 THEN AtRoot ELSE WalkOne(v, a[c - 1], comps, c, allow)
    BY <1>5
  <2> QED
    BY <2>1
<1> QED
  BY <1>6, <1>7 DEF WalkSteps

\* Before the last component of a path the walk stands on a directory.
LEMMA WalkStands ==
    ASSUME NEW v \in Volume, NEW at, Forest(v, at), Namespace(v), NEW comps, Len(comps) \in Nat,
           NEW allow \in BOOLEAN, NEW g, WalkSteps(g, v, comps, allow)
    PROVE  /\ \A c \in 0 .. Len(comps) : WalkTyped(v, g[c])
           /\ \A c \in 0 .. Len(comps) : c < Len(comps) \/ ~allow => InDir(g[c])
<1> DEFINE n == Len(comps)
           Good == {c \in Nat : c <= n => WalkTyped(v, g[c]) /\ (c < n \/ ~allow => InDir(g[c]))}
<1>1. 0 \in Good
  <2>1. RootInode \in Dirs(v) /\ RootInode \in Inodes /\ v.inode[RootInode].mode = "dir"
    BY Geometry DEF Namespace, Dirs
  <2>2. <<RootInode>> \in Seq(Dirs(v)) /\ Len(<<RootInode>>) # 0
    BY <2>1
  <2>3. g[0] = AtRoot
    BY DEF WalkSteps
  <2>4. WalkTyped(v, AtRoot) /\ InDir(AtRoot)
    BY <2>1, <2>2 DEF WalkTyped, InDir, AtRoot
  <2> QED
    BY <2>3, <2>4
<1>2. ASSUME NEW c \in Good PROVE c + 1 \in Good
  <2>1. SUFFICES ASSUME c + 1 <= n
                 PROVE  WalkTyped(v, g[c + 1]) /\ (c + 1 < n \/ ~allow => InDir(g[c + 1]))
    OBVIOUS
  <2>2. c <= n /\ c < n /\ c + 1 \in 1 .. n /\ c + 1 - 1 = c
    BY <2>1
  <2>3. WalkTyped(v, g[c]) /\ InDir(g[c])
    BY <2>2
  <2>4. g[c + 1] = WalkOne(v, g[c], comps, c + 1, allow)
    BY <2>2 DEF WalkSteps
  <2> QED
    BY <2>3, <2>4, WalkStep
<1>3. Good = Nat
  <2>1. Good \in SUBSET Nat
    OBVIOUS
  <2> HIDE DEF Good
  <2> QED
    BY <1>1, <1>2, <2>1, SetOfAllNats
<1>4. ASSUME NEW c \in 0 .. n PROVE WalkTyped(v, g[c]) /\ (c < n \/ ~allow => InDir(g[c]))
  <2>1. c \in Good /\ c <= n
    BY <1>3
  <2> QED
    BY <2>1
<1> QED
  BY <1>4

\* resolve_parent finds a directory.
LEMMA ParentFound ==
    ASSUME NEW v \in Volume, NEW at, Forest(v, at), Namespace(v), NEW path \in Seq(STRING),
           NEW up, up = resolve_parent(v, path), up.res = "ok"
    PROVE  /\ up.cur \in Dirs(v) /\ path # <<>> /\ Len(path) \in Nat \ {0} /\ Last(path) \in STRING
           /\ Last(path) \notin {".", ".."} /\ up = path_step(v, Front(path), FALSE)
<1>1. path # <<>> /\ Last(path) \notin {".", ".."} /\ up = path_step(v, Front(path), FALSE)
  BY DEF resolve_parent
<1>2. Len(path) \in Nat \ {0} /\ Front(path) \in Seq(STRING) /\ Last(path) \in STRING
  BY <1>1 DEF Front, Last
<1>3. Len(Front(path)) \in Nat
  BY <1>2
<1>4. PICK g : WalkSteps(g, v, Front(path), FALSE)
  BY <1>3, WalkFollows
<1>5. PICK n : n = Len(Front(path))
  OBVIOUS
<1>6. WalkTyped(v, g[n]) /\ InDir(g[n])
  <2>1. n \in 0 .. n /\ FALSE \in BOOLEAN
    BY <1>3, <1>5
  <2> QED
    BY <1>3, <1>4, <1>5, <2>1, WalkStands
<1>7. up = g[n]
  BY <1>1, <1>4, <1>5 DEF WalkSteps
<1> QED
  BY <1>1, <1>2, <1>6, <1>7 DEF WalkTyped, InDir, Dirs

\* The whole path leads to what its last component names in the directory above.
LEMMA BothFind ==
    ASSUME NEW v \in Volume, NEW at, Forest(v, at), Namespace(v), NEW path \in Seq(STRING),
           NEW full, full = resolve_full(v, path), full.res = "ok",
           NEW up, up = resolve_parent(v, path), up.res = "ok"
    PROVE  LET e == dir_find_in(v, up.cur, Last(path))
           IN  full.cur = e.inode /\ full.type = e.type /\ e.inode # 0
<1>1. /\ up.cur \in Dirs(v) /\ path # <<>> /\ Len(path) \in Nat \ {0}
      /\ Last(path) \notin {".", ".."} /\ up = path_step(v, Front(path), FALSE)
  BY ParentFound
<1>2. PICK n : n = Len(path) - 1
  OBVIOUS
<1>3. n \in Nat /\ Len(path) = n + 1
  BY <1>1, <1>2
<1>4. PICK front : front = Front(path)
  OBVIOUS
<1>5. Len(front) = n /\ (\A i \in 1 .. n : front[i] = path[i]) /\ Last(path) = path[n + 1]
  BY <1>1, <1>2, <1>3, <1>4 DEF Front, Last
<1>0. PICK yes \in BOOLEAN : yes
  OBVIOUS
<1>20. PICK no \in BOOLEAN : ~no
  OBVIOUS
<1>6. PICK g : WalkSteps(g, v, path, yes)
  <2>1. Len(path) \in Nat
    BY <1>1
  <2> QED
    BY <2>1, WalkFollows
<1>7. PICK h : WalkSteps(h, v, front, no)
  <2>1. Len(front) \in Nat
    BY <1>3, <1>5
  <2> QED
    BY <2>1, WalkFollows
<1>8. /\ g[0] = AtRoot /\ h[0] = AtRoot /\ up = h[n] /\ full = g[n + 1]
      /\ \A c \in 1 .. n + 1 : g[c] = WalkOne(v, g[c - 1], path, c, yes)
      /\ \A c \in 1 .. n : h[c] = WalkOne(v, h[c - 1], front, c, no)
  <2>1. up = path_step(v, front, no) /\ full = path_step(v, path, yes)
    <3>1. yes = TRUE /\ no = FALSE
      BY <1>0, <1>20
    <3> QED
      BY <1>1, <1>4, <3>1 DEF resolve_full
  <2> QED
    BY <1>3, <1>5, <1>6, <1>7, <2>1 DEF WalkSteps
<1> DEFINE Good == {c \in Nat : c <= n => g[c] = h[c]}
<1>9. 0 \in Good
  BY <1>8
<1>10. ASSUME NEW c \in Good PROVE c + 1 \in Good
  <2>1. SUFFICES ASSUME c + 1 <= n PROVE g[c + 1] = h[c + 1]
    OBVIOUS
  <2>2. g[c] = h[c] /\ c + 1 \in 1 .. n /\ c + 1 \in 1 .. n + 1 /\ c + 1 - 1 = c /\ c + 1 < n + 1
    BY <1>3, <2>1
  <2>3. g[c + 1] = WalkOne(v, g[c], path, c + 1, yes)
    BY <1>8, <2>2
  <2>4. h[c + 1] = WalkOne(v, g[c], front, c + 1, no)
    BY <1>8, <2>2
  <2>5. front[c + 1] = path[c + 1]
    BY <1>5, <2>2
  <2>6. c + 1 < Len(path)
    BY <1>3, <2>2
  <2> QED
    BY <1>0, <1>20, <2>3, <2>4, <2>5, <2>6 DEF WalkOne, Descend
<1>11. Good = Nat
  <2>1. Good \in SUBSET Nat
    OBVIOUS
  <2> HIDE DEF Good
  <2> QED
    BY <1>9, <1>10, <2>1, SetOfAllNats
<1>12. g[n] = up
  <2>1. n \in Good
    BY <1>3, <1>11
  <2> QED
    BY <1>3, <1>8, <2>1
<1>13. full = WalkOne(v, up, path, n + 1, yes)
  <2>1. PICK m : m = n + 1
    OBVIOUS
  <2>2. m \in 1 .. n + 1 /\ m - 1 = n
    BY <1>3, <2>1
  <2>3. g[m] = WalkOne(v, g[m - 1], path, m, yes) /\ full = g[m]
    BY <1>8, <2>1, <2>2
  <2> QED
    BY <1>12, <2>1, <2>2, <2>3
<1>14. PICK e : e = dir_find_in(v, up.cur, Last(path))
  OBVIOUS
<1>15. full = Descend(up, e, FALSE)
  <2>1. path[n + 1] # "." /\ path[n + 1] # ".." /\ ~(n + 1 < Len(path))
    BY <1>1, <1>3, <1>5
  <2> QED
    BY <1>0, <1>5, <1>13, <1>14, <2>1 DEF WalkOne, Descend
<1>16. up = [res |-> up.res, cur |-> up.cur, type |-> up.type, stack |-> up.stack]
  <2>1. WalkTyped(v, h[n])
    <3>1. n \in 0 .. n /\ FALSE \in BOOLEAN
      BY <1>3
    <3> QED
      BY <1>3, <1>5, <1>7, <3>1, WalkStands
  <2> QED
    BY <1>8, <2>1 DEF WalkTyped
<1>17. CASE e.inode = 0
  <2>1. full = [up EXCEPT !.res = "NOT_FOUND"]
    BY <1>15, <1>17 DEF Descend
  <2>2. full.res = "NOT_FOUND"
    BY <1>16, <2>1
  <2> QED
    BY <2>2
<1>18. CASE e.inode # 0
  <2>1. full = [up EXCEPT !.cur = e.inode, !.type = e.type, !.stack = up.stack]
    BY <1>15, <1>16, <1>18 DEF Descend
  <2>2. full.cur = e.inode /\ full.type = e.type
    BY <1>16, <2>1
  <2> QED
    BY <1>14, <1>18, <2>2
<1> QED
  BY <1>17, <1>18

-----------------------------------------------------------------------------
(* The calls *)

\* A handle that Opens hands out is of an inode in use.
LEMMA OpensWhole ==
    ASSUME NEW v, Whole(v), NEW i \in Inodes, NEW type \in {"file", "dir"}, v.inode[i].mode = type,
           NEW flags, NEW r, r = Opens(v, i, type, flags)
    PROVE  /\ Whole(r.vol) /\ \A j \in Inodes : r.vol.inode[j].mode = v.inode[j].mode
           /\ r.res = "ok" /\ r.file \in HandleRec /\ r.file.inode = i
           /\ ~r.file.is_dir => r.vol.inode[i].mode = "file"
<1>1. PICK w : w = IF "TRUNC" \in flags /\ type # "dir"
                   THEN [free_all_blocks(v, i) EXCEPT !.inode[i].size = 0] ELSE v
  OBVIOUS
<1>2. r = [res |-> "ok", vol |-> w, file |-> Handle(w, i, type, "APPEND" \in flags)]
  BY <1>1 DEF Opens
<1>3. Whole(w) /\ \A j \in Inodes : w.inode[j].mode = v.inode[j].mode
  <2>1. CASE "TRUNC" \in flags /\ type # "dir"
    <3>1. v.inode[i].mode = "file" /\ Truncated(v, i, w)
      BY <1>1, <2>1 DEF Truncated
    <3> QED
      BY <3>1, TruncWhole
  <2>2. CASE ~("TRUNC" \in flags /\ type # "dir")
    BY <1>1, <2>2
  <2> QED
    BY <2>1, <2>2
<1>4. w.inode[i].size \in Nat
  BY <1>3 DEF Whole, Sound, Volume, InodeRec
<1>5. PICK p \in Nat : p = IF "APPEND" \in flags THEN w.inode[i].size ELSE 0
  BY <1>4
<1>6. PICK d \in BOOLEAN : d = (type = "dir")
  OBVIOUS
<1>7. Handle(w, i, type, "APPEND" \in flags) = [inode |-> i, size |-> w.inode[i].size, is_dir |-> d, pos |-> p]
  BY <1>5, <1>6 DEF Handle
<1>8. r.file = [inode |-> i, size |-> w.inode[i].size, is_dir |-> d, pos |-> p] /\ r.vol = w /\ r.res = "ok"
  BY <1>2, <1>7
<1>9. r.file \in HandleRec /\ r.file.inode = i /\ r.file.is_dir = d
  BY <1>4, <1>8 DEF HandleRec
<1> QED
  BY <1>3, <1>6, <1>8, <1>9

\* The files that are not gone are still files.
Spares(v, w, gone) == \A i \in Inodes \ gone : v.inode[i].mode = "file" => w.inode[i].mode = "file"

LEMMA WholeParts ==
    ASSUME NEW v, Whole(v)
    PROVE  v \in Volume /\ Namespace(v) /\ \E at \in [Blocks -> Seq(Nat)] : Forest(v, at)
  BY DEF Whole, Sound

\* What OpenEntry leaves: a volume, and a handle if it succeeds, or else the names as they were.
Opening(v, r) ==
    /\ Whole(r.vol) /\ KeepsFiles(v, r.vol)
    /\ r.res = "ok" => /\ r.file \in HandleRec
                       /\ ~r.file.is_dir => r.vol.inode[r.file.inode].mode = "file"
    /\ r.res # "ok" => Shows(v, r.vol)

LEMMA OpenEntryWhole ==
    ASSUME NEW v, Whole(v), NEW dir \in Dirs(v), NEW name \in STRING, NEW flags,
           NEW e, e = dir_find_in(v, dir, name), NEW r, r = OpenEntry(v, dir, name, e, flags)
    PROVE  Opening(v, r)
<1>1. v \in Volume /\ Namespace(v) /\ \E at \in [Blocks -> Seq(Nat)] : Forest(v, at)
  BY WholeParts
<1>2. PICK at \in [Blocks -> Seq(Nat)] : Forest(v, at)
  BY <1>1
<1>3. CASE e.inode # 0
  <2>1. e \in DirEntry /\ v.inode[e.inode].mode = e.type
    BY <1>1, <1>2, <1>3, FindFacts
  <2>2. PICK i \in Inodes : i = e.inode
    BY <2>1 DEF DirEntry
  <2>3. PICK type \in {"file", "dir"} : type = e.type
    BY <2>1 DEF DirEntry
  <2>4. v.inode[i].mode = type /\ r = Opens(v, i, type, flags)
    BY <1>3, <2>1, <2>2, <2>3 DEF OpenEntry
  <2>5. /\ Whole(r.vol) /\ \A j \in Inodes : r.vol.inode[j].mode = v.inode[j].mode
        /\ r.file \in HandleRec /\ r.file.inode = i /\ r.res = "ok"
        /\ ~r.file.is_dir => r.vol.inode[i].mode = "file"
    BY <2>4, OpensWhole
  <2> QED
    BY <2>5 DEF Opening, KeepsFiles
<1>4. CASE e.inode = 0 /\ "CREAT" \notin flags
  <2>1. r = [res |-> "NOT_FOUND", vol |-> v]
    BY <1>4 DEF OpenEntry
  <2>2. r.res # "ok" /\ r.vol = v
    BY <2>1
  <2> QED
    BY <2>2 DEF Opening, KeepsFiles, Shows
<1>5. CASE e.inode = 0 /\ "CREAT" \in flags
  <2>1. PICK new : new = Create(v, dir, name, "file")
    OBVIOUS
  <2>2. /\ Whole(new.vol) /\ KeepsFiles(v, new.vol)
        /\ new.res = "ok" => new.inode \in Inodes /\ new.vol.inode[new.inode].mode = "file"
        /\ new.res # "ok" => Shows(v, new.vol)
    <3>1. name \in AnyName /\ "file" \in {"file", "dir"}
      BY DEF AnyName
    <3> QED
      BY <2>1, <3>1, CreateWhole
  <2>3. r = IF new.res = "ok" THEN Opens(new.vol, new.inode, "file", flags) ELSE [res |-> new.res, vol |-> new.vol]
    BY <1>5, <2>1 DEF OpenEntry
  <2>4. PICK u : u = new.vol
    OBVIOUS
  <2>5. CASE new.res = "ok"
    <3>1. PICK i \in Inodes : i = new.inode
      BY <2>2, <2>5
    <3>2. PICK type \in {"file", "dir"} : type = "file"
      OBVIOUS
    <3>3. Whole(u) /\ u.inode[i].mode = type /\ r = Opens(u, i, type, flags)
      BY <2>2, <2>3, <2>4, <2>5, <3>1, <3>2
    <3>4. /\ Whole(r.vol) /\ \A j \in Inodes : r.vol.inode[j].mode = u.inode[j].mode
          /\ r.file \in HandleRec /\ r.file.inode = i /\ r.res = "ok"
          /\ ~r.file.is_dir => r.vol.inode[i].mode = "file"
      BY <3>3, OpensWhole
    <3> QED
      BY <2>2, <2>4, <3>4 DEF Opening, KeepsFiles
  <2>6. CASE new.res # "ok"
    <3>1. r.res # "ok" /\ r.vol = u
      BY <2>3, <2>4, <2>6
    <3> QED
      BY <2>2, <2>4, <2>6, <3>1 DEF Opening
  <2> QED
    BY <2>5, <2>6
<1> QED
  BY <1>3, <1>4, <1>5

LEMMA OpenWhole ==
    ASSUME NEW v, Whole(v), NEW path \in Seq(STRING), NEW flags, NEW r, r = trashfs_open(v, path, flags)
    PROVE  Opening(v, r)
<1>1. v \in Volume /\ Namespace(v) /\ \E at \in [Blocks -> Seq(Nat)] : Forest(v, at)
  BY WholeParts
<1>2. PICK up : up = resolve_parent(v, path)
  OBVIOUS
<1>3. CASE up.res # "ok"
  <2>1. r = [res |-> up.res, vol |-> v]
    BY <1>2, <1>3 DEF trashfs_open
  <2>2. r.res # "ok" /\ r.vol = v
    BY <1>3, <2>1
  <2> QED
    BY <2>2 DEF Opening, KeepsFiles, Shows
<1>4. CASE up.res = "ok"
  <2>1. PICK name : name = Last(path)
    OBVIOUS
  <2>2. up.cur \in Dirs(v) /\ name \in STRING
    BY <1>1, <1>2, <1>4, <2>1, ParentFound
  <2>3. PICK dir \in Dirs(v) : dir = up.cur
    BY <2>2
  <2>4. PICK e : e = dir_find_in(v, dir, name)
    OBVIOUS
  <2>5. r = OpenEntry(v, dir, name, e, flags)
    BY <1>2, <1>4, <2>1, <2>3, <2>4 DEF trashfs_open
  <2> QED
    BY <2>2, <2>4, <2>5, OpenEntryWhole
<1> QED
  BY <1>3, <1>4

LEMMA MkdirWhole ==
    ASSUME NEW v, Whole(v), NEW path \in Seq(STRING), NEW r, r = trashfs_mkdir(v, path)
    PROVE  Whole(r.vol) /\ KeepsFiles(v, r.vol) /\ (r.res # "ok" => Shows(v, r.vol))
<1>1. v \in Volume /\ Namespace(v) /\ \E at \in [Blocks -> Seq(Nat)] : Forest(v, at)
  BY WholeParts
<1>2. PICK up : up = resolve_parent(v, path)
  OBVIOUS
<1>3. CASE up.res # "ok" \/ dir_find_in(v, up.cur, Last(path)).inode # 0
  <2>1. r.vol = v
    BY <1>2, <1>3 DEF trashfs_mkdir, Kept
  <2> QED
    BY <2>1 DEF KeepsFiles, Shows
<1>4. CASE up.res = "ok" /\ dir_find_in(v, up.cur, Last(path)).inode = 0
  <2>1. PICK name : name = Last(path)
    OBVIOUS
  <2>2. up.cur \in Dirs(v) /\ name \in STRING
    BY <1>1, <1>2, <1>4, <2>1, ParentFound
  <2>3. r = Create(v, up.cur, name, "dir")
    BY <1>2, <1>4, <2>1 DEF trashfs_mkdir
  <2>4. PICK mode \in {"file", "dir"} : mode = "dir"
    OBVIOUS
  <2>5. r = Create(v, up.cur, name, mode) /\ name \in AnyName
    BY <2>2, <2>3, <2>4 DEF AnyName
  <2> QED
    BY <2>2, <2>5, CreateWhole
<1> QED
  BY <1>3, <1>4

LEMMA UnlinkWhole ==
    ASSUME NEW v, Whole(v), NEW path \in Seq(STRING), NEW r, r = trashfs_unlink(v, path)
    PROVE  Whole(r.vol) /\ Spares(v, r.vol, r.gone) /\ (r.res # "ok" => r.vol = v)
<1>1. v \in Volume /\ Namespace(v) /\ \E at \in [Blocks -> Seq(Nat)] : Forest(v, at)
  BY WholeParts
<1>2. PICK up : up = resolve_parent(v, path)
  OBVIOUS
<1>3. PICK e : e = dir_find_in(v, up.cur, Last(path))
  OBVIOUS
<1>4. CASE up.res # "ok" \/ e.inode = 0 \/ e.type = "dir"
  <2>1. r.vol = v
    BY <1>2, <1>3, <1>4 DEF trashfs_unlink, Kept
  <2> QED
    BY <2>1 DEF Spares
<1>5. CASE up.res = "ok" /\ e.inode # 0 /\ e.type # "dir"
  <2>1. PICK name : name = Last(path)
    OBVIOUS
  <2>2. up.cur \in Dirs(v)
    BY <1>1, <1>2, <1>5, ParentFound
  <2>3. PICK ino : ino = e.inode
    OBVIOUS
  <2>4. PICK c : c = RemoveFrom(v, up.cur, name, ino)
    OBVIOUS
  <2>5. r.vol = c /\ r.gone = {ino} /\ r.res = "ok"
    BY <1>2, <1>3, <1>5, <2>1, <2>3, <2>4 DEF trashfs_unlink
  <2>6. /\ Named(v, up.cur, name) # {} /\ e = EntryAt(v, up.cur, Least(Named(v, up.cur, name)))
        /\ v.inode[ino].mode # "dir"
    BY <1>1, <1>3, <1>5, <2>1, <2>2, <2>3, FindFacts
  <2>7. ino \notin Dirs(v) /\ ino = EntryAt(v, up.cur, Least(Named(v, up.cur, name))).inode
    BY <2>3, <2>6 DEF Dirs
  <2>8. Whole(c) /\ \A i \in Inodes \ {ino} : c.inode[i].mode = v.inode[i].mode
    BY <2>2, <2>4, <2>6, <2>7, RemoveWhole
  <2> QED
    BY <2>5, <2>8 DEF Spares
<1> QED
  BY <1>4, <1>5

\* trashfs_rmdir resolves its path twice, and removes what it looked at.
LEMMA RmdirWhole ==
    ASSUME NEW v, Whole(v), NEW path \in Seq(STRING), NEW r, r = trashfs_rmdir(v, path)
    PROVE  Whole(r.vol) /\ Spares(v, r.vol, r.gone) /\ (r.res # "ok" => r.vol = v)
<1>1. v \in Volume /\ Namespace(v) /\ \E at \in [Blocks -> Seq(Nat)] : Forest(v, at)
  BY WholeParts
<1>2. PICK full : full = resolve_full(v, path)
  OBVIOUS
<1>3. PICK up : up = resolve_parent(v, path)
  OBVIOUS
<1>4. CASE \/ full.res # "ok" \/ full.type # "dir" \/ full.cur = RootInode \/ ~dir_is_empty(v, full.cur)
           \/ up.res # "ok" \/ Named(v, up.cur, Last(path)) = {}
  <2>1. r.vol = v
    BY <1>2, <1>3, <1>4 DEF trashfs_rmdir, Kept
  <2> QED
    BY <2>1 DEF Spares
<1>5. CASE /\ full.res = "ok" /\ full.type = "dir" /\ full.cur # RootInode /\ dir_is_empty(v, full.cur)
           /\ up.res = "ok" /\ Named(v, up.cur, Last(path)) # {}
  <2>1. PICK name : name = Last(path)
    OBVIOUS
  <2>2. up.cur \in Dirs(v)
    BY <1>1, <1>3, <1>5, ParentFound
  <2>3. PICK ino : ino = full.cur
    OBVIOUS
  <2>4. PICK c : c = RemoveFrom(v, up.cur, name, ino)
    OBVIOUS
  <2>5. r.vol = c /\ r.gone = {ino} /\ r.res = "ok"
    BY <1>2, <1>3, <1>5, <2>1, <2>3, <2>4 DEF trashfs_rmdir
  <2>6. PICK e : e = dir_find_in(v, up.cur, name)
    OBVIOUS
  <2>7. ino = e.inode /\ e.inode # 0
    BY <1>1, <1>2, <1>3, <1>5, <2>1, <2>3, <2>6, BothFind
  <2>8. Named(v, up.cur, name) # {} /\ e = EntryAt(v, up.cur, Least(Named(v, up.cur, name)))
    BY <1>1, <2>2, <2>6, <2>7, FindFacts
  <2>9. Live(v, ino) = {}
    BY <1>5, <2>3 DEF dir_is_empty
  <2>10. ino = EntryAt(v, up.cur, Least(Named(v, up.cur, name))).inode
    BY <2>7, <2>8
  <2>11. Whole(c) /\ \A i \in Inodes \ {ino} : c.inode[i].mode = v.inode[i].mode
    BY <2>2, <2>4, <2>8, <2>9, <2>10, RemoveWhole
  <2> QED
    BY <2>5, <2>11 DEF Spares
<1> QED
  BY <1>4, <1>5

-----------------------------------------------------------------------------
(* What VolumeConsistent asks of the volume *)

LEMMA WholeTree ==
    ASSUME Whole(vol)
    PROVE  NamespaceIsTree
<1>1. vol \in Volume /\ Namespace(vol)
  BY WholeParts
<1> DEFINE E == UNION {{<<i, off>> : off \in Live(vol, i)} : i \in {j \in UsedInodes : vol.inode[j].mode = "dir"}}
           Target(e) == EntryAt(vol, e[1], e[2])
<1>2. \A i, o : <<i, o>> \in E <=> i \in Dirs(vol) /\ o \in Live(vol, i)
  BY DEF UsedInodes, Dirs
<1>3. \A e \in E : e = <<e[1], e[2]>>
  OBVIOUS
<1>4. \A e \in E : e[1] \in Dirs(vol) /\ e[2] \in Live(vol, e[1])
  BY <1>2, <1>3
<1> HIDE DEF E
<1>5. \A e \in E : vol.inode[Target(e).inode].mode = Target(e).type
  BY <1>1, <1>4 DEF Namespace
<1>6. ASSUME NEW x \in UsedInodes \ {RootInode}
      PROVE  Cardinality({e \in E : Target(e).inode = x}) = 1
  <2>1. PICK i \in Dirs(vol) : \E o \in Live(vol, i) : EntryAt(vol, i, o).inode = x
    BY <1>1 DEF Namespace, UsedInodes
  <2>2. PICK o \in Live(vol, i) : EntryAt(vol, i, o).inode = x
    BY <2>1
  <2>3. <<i, o>> \in E /\ Target(<<i, o>>).inode = x
    BY <1>2, <2>1, <2>2
  <2>4. ASSUME NEW e \in E, Target(e).inode = x PROVE e = <<i, o>>
    <3>1. e[1] = i /\ e[2] = o
      BY <1>1, <1>4, <2>2, <2>4 DEF Namespace
    <3> QED
      BY <1>3, <3>1
  <2>5. {e \in E : Target(e).inode = x} = {<<i, o>>}
    BY <2>3, <2>4
  <2> QED
    BY <2>5, FS_Singleton
<1> QED
  BY <1>5, <1>6 DEF NamespaceIsTree, E

LEMMA WholeCached ==
    ASSUME Whole(vol)
    PROVE  CachesExact
<1>1. vol \in Volume /\ vol.free_blocks = Cardinality(Blocks \ vol.used)
      /\ vol.free_inodes = Cardinality({i \in Inodes : vol.inode[i].mode = "free"})
  BY DEF Whole, Sound, BlocksCounted, InodesCounted, FreeInodes
<1> QED
  BY <1>1 DEF CachesExact, trashfs_mount, rebuild_caches, Volume

\* A volume just made holds the root directory, empty, with the first block.
LEMMA FormatWhole ==
    ASSUME NEW v, v = trashfs_mount(trashfs_format)
    PROVE  Whole(v)
<1>1. PICK root : root = [ZeroInode EXCEPT !.mode = "dir", !.ptr[0] = InodeCount]
  OBVIOUS
<1>2. /\ root \in InodeRec /\ root.mode = "dir" /\ root.size = 0
      /\ root.ptr[0] = InodeCount /\ \A k \in (0 .. Direct + 2) \ {0} : root.ptr[k] = BlockNone
  <2>1. PICK p : p = [ZeroInode.ptr EXCEPT ![0] = InodeCount]
    OBVIOUS
  <2>2. ZeroInode.ptr \in [0 .. Direct + 2 -> Pointer] /\ 0 \in 0 .. Direct + 2
    BY ZeroBlockFacts, Geometry DEF InodeRec
  <2>3. /\ p \in [0 .. Direct + 2 -> Pointer] /\ p[0] = InodeCount
        /\ \A k \in (0 .. Direct + 2) \ {0} : p[k] = BlockNone
    BY <2>1, <2>2, ZeroBlockFacts, Geometry DEF Pointer
  <2>4. root = [mode |-> "dir", size |-> 0, ptr |-> p]
    BY <1>1, <2>1 DEF ZeroInode
  <2> QED
    BY <2>3, <2>4 DEF InodeRec
<1>3. PICK fb : fb = Cardinality(Blocks \ v.used)
  OBVIOUS
<1>4. PICK fi : fi = Cardinality(FreeInodes(v))
  OBVIOUS
<1>5. /\ v.used = {InodeCount} /\ v.inode = [i \in Inodes |-> IF i = RootInode THEN root ELSE ZeroInode]
      /\ v.data = [b \in Blocks |-> ZeroBlock] /\ v.free_blocks = fb /\ v.free_inodes = fi
      /\ v = [used |-> v.used, inode |-> v.inode, data |-> v.data, free_blocks |-> v.free_blocks,
              free_inodes |-> v.free_inodes]
  <2>1. PICK f : f = [i \in Inodes |-> IF i = RootInode THEN root ELSE ZeroInode]
    OBVIOUS
  <2>2. PICK d : d = [b \in Blocks |-> ZeroBlock]
    OBVIOUS
  <2>3. trashfs_format = [used |-> {InodeCount}, inode |-> f, data |-> d,
                          free_blocks |-> BlockCount - 1, free_inodes |-> InodeCount - 1]
    BY <1>1, <2>1, <2>2 DEF trashfs_format
  <2>4. PICK x : x = Cardinality(Blocks \ trashfs_format.used)
    OBVIOUS
  <2>5. PICK y : y = Cardinality({i \in Inodes : trashfs_format.inode[i].mode = "free"})
    OBVIOUS
  <2>6. v = [used |-> {InodeCount}, inode |-> f, data |-> d, free_blocks |-> x, free_inodes |-> y]
    BY <2>3, <2>4, <2>5 DEF trashfs_mount, rebuild_caches
  <2>7. v.used = trashfs_format.used /\ v.inode = trashfs_format.inode
    BY <2>3, <2>6
  <2>8. x = fb /\ y = fi
    BY <1>3, <1>4, <2>4, <2>5, <2>7 DEF FreeInodes
  <2> QED
    BY <2>1, <2>2, <2>6, <2>8
<1>6. fb \in Nat /\ fi \in Nat
  BY <1>3, <1>4, Geometry, FS_Subset, FS_CardinalityType DEF FreeInodes
<1>7. v \in Volume
  BY <1>2, <1>5, <1>6, ZeroBlockFacts, Geometry DEF Volume
<1>8. PICK s : s = Append(<<0>>, 0)
  OBVIOUS
<1>9. s \in Seq(Nat) /\ Len(s) = 2 /\ s[1] = 0 /\ s[2] = 0
  <2>1. <<0>> \in Seq(Nat) /\ Len(<<0>>) = 1 /\ <<0>>[1] = 0
    OBVIOUS
  <2> QED
    BY <1>8, <2>1, AppendProperties
<1>10. PICK at : at = [b \in Blocks |-> s]
  OBVIOUS
<1>11. at \in [Blocks -> Seq(Nat)] /\ \A b \in v.used : at[b] = s /\ b = InodeCount
  BY <1>5, <1>9, <1>10, Geometry
<1>12. v.inode[0] = root /\ \A i \in Inodes \ {0} : v.inode[i] = ZeroInode
  BY <1>5, Geometry DEF RootInode
<1>13. Forest(v, at)
  <2>1. ASSUME NEW n \in Nodes(v), NEW k \in Width(n), PtrOf(v, n, k) # BlockNone
        PROVE  n = 0 /\ k = 0 /\ PtrOf(v, n, k) = InodeCount
    <3>1. CASE n \in Inodes
      BY <1>2, <1>12, <2>1, <3>1, ZeroBlockFacts DEF PtrOf, Width
    <3>2. CASE n \notin Inodes
      <4>1. n \in Blocks /\ v.data[n] = ZeroBlock
        BY <1>5, <3>2, Geometry DEF Nodes
      <4> QED
        BY <2>1, <3>2, <4>1, ZeroBlockFacts DEF PtrOf, Width
    <3> QED
      BY <3>1, <3>2
  <2>2. 0 \in Inodes /\ 0 \in Nodes(v) /\ 0 \in Width(0) /\ PtrOf(v, 0, 0) = InodeCount /\ Home(at, 0) = <<0>>
    BY <1>2, <1>12, Geometry DEF Nodes, Width, PtrOf, Home, RootInode
  <2>3. Append(Home(at, 0), 0) = s
    BY <1>8, <2>2
  <2>4. s \in Addresses
    <3>1. Depth(s[2]) \in Nat /\ s[2] \in 0 .. Direct + 2 /\ s[1] \in Inodes
      BY <1>9, <2>2, Geometry DEF Depth
    <3>2. \A j \in 3 .. Len(s) : s[j] \in 0 .. PtrsPerBlock - 1
      BY <1>9
    <3>3. 2 <= Len(s) /\ Len(s) <= Depth(s[2]) + 2
      BY <1>9, <3>1
    <3> QED
      BY <1>9, <3>1, <3>2, <3>3 DEF Addresses
  <2>5. InodeCount \in v.used /\ InodeCount # BlockNone
    BY <1>5, Geometry
  <2>6. \A i \in Inodes : v.inode[i].mode = "free" => i # 0
    BY <1>2, <1>12
  <2>7. \A n \in Nodes(v) : \A k \in Width(n) : PtrOf(v, n, k) # BlockNone =>
           PtrOf(v, n, k) \in v.used /\ at[PtrOf(v, n, k)] = Append(Home(at, n), k)
    BY <1>11, <2>1, <2>2, <2>3, <2>5
  <2>8. \A b \in v.used : \E n \in Nodes(v) : \E k \in Width(n) : PtrOf(v, n, k) = b
    BY <1>11, <2>2
  <2>9. \A i \in Inodes : v.inode[i].mode = "free" => \A k \in Width(i) : PtrOf(v, i, k) = BlockNone
    BY <2>1, <2>6 DEF Nodes
  <2> QED
    BY <1>11, <2>4, <2>7, <2>8, <2>9 DEF Forest
<1>14. Namespace(v)
  <2>1. Dirs(v) = {0}
    BY <1>2, <1>12, ZeroBlockFacts, Geometry DEF Dirs, RootInode
  <2>2. Live(v, 0) = {}
    <3>1. \A o \in Places : o \in Nat
      BY DEF Places
    <3>2. \A o \in Places : ~(o + DirentSize <= 0)
      BY <3>1, Geometry
    <3> QED
      BY <1>2, <1>7, <1>12, <3>2, LiveAre, Geometry DEF RootInode
  <2>3. \A i \in Inodes \ {0} : v.inode[i].mode = "free"
    BY <1>12, ZeroBlockFacts
  <2> QED
    BY <1>2, <1>12, <2>1, <2>2, <2>3 DEF Namespace, EndsWell, RootInode
<1> QED
  BY <1>3, <1>4, <1>5, <1>7, <1>11, <1>13, <1>14 DEF Whole, Sound, BlocksCounted, InodesCounted

-----------------------------------------------------------------------------
(* The descriptors *)

HostKinds == {"HOST_FILE", "HOST_DIR"}
HostFds == {d \in Fds : fds[d].kind \in HostKinds}

\* A descriptor knows its kind; a free one holds nothing else, that of a file of the volume
\* only its handle.
Descriptor(r) ==
    /\ "kind" \in DOMAIN r
    /\ r.kind = "FREE" => r = FreeSlot
    /\ r.kind = "TRASH_FILE" => r = [kind |-> "TRASH_FILE", file |-> r.file]

Descriptors ==
    /\ fds = [d \in Fds |-> fds[d]] /\ \A d \in Fds : Descriptor(fds[d])
    /\ HandlesAreOwned

\* Descriptor d becomes r, and the host is asked to open or to close accordingly.
Replaces(d, r) ==
    /\ fds' = [fds EXCEPT ![d] = r]
    /\ handles' = IF fds[d].kind \in HostKinds
                  THEN IF r.kind \in HostKinds THEN handles ELSE handles - 1
                  ELSE IF r.kind \in HostKinds THEN handles + 1 ELSE handles

LEMMA FdFacts ==
    /\ Fds \subseteq Nat /\ IsFiniteSet(Fds) /\ IsFiniteSet(HostFds)
    /\ FreeFds # {} => alloc_fd \in Fds /\ fds[alloc_fd].kind = "FREE"
<1>1. Fds \subseteq Nat
  BY HostFsAssumption DEF Fds
<1>2. IsFiniteSet(Fds)
  BY HostFsAssumption, FS_Interval DEF Fds
<1>3. IsFiniteSet(HostFds)
  BY <1>2, FS_Subset DEF HostFds
<1>4. FreeFds # {} => alloc_fd \in FreeFds
  BY <1>1, LeastMember DEF FreeFds, alloc_fd
<1> QED
  BY <1>1, <1>2, <1>3, <1>4 DEF FreeFds

LEMMA Replaced ==
    ASSUME Descriptors, NEW d \in Fds, NEW r, Descriptor(r), Replaces(d, r)
    PROVE  /\ Descriptors'
           /\ fds'[d] = r /\ \A x \in Fds \ {d} : fds'[x] = fds[x]
<1>1. /\ fds' = [x \in Fds |-> fds'[x]] /\ DOMAIN fds' = Fds
      /\ fds'[d] = r /\ \A x \in Fds \ {d} : fds'[x] = fds[x]
  <2>1. fds = [x \in Fds |-> fds[x]] /\ fds' = [fds EXCEPT ![d] = r]
    BY DEF Descriptors, Replaces
  <2>2. DOMAIN fds = Fds /\ fds' = [x \in Fds |-> IF x = d THEN r ELSE fds[x]]
    BY <2>1
  <2> QED
    BY <2>2
<1>2. \A x \in Fds : Descriptor(fds'[x])
  BY <1>1 DEF Descriptors
<1>3. handles = Cardinality(HostFds)
  BY DEF Descriptors, HandlesAreOwned, HostFds, HostKinds
<1>4. handles' = Cardinality(HostFds')
  <2>1. IsFiniteSet(HostFds) /\ Cardinality(HostFds) \in Nat
    BY FdFacts, FS_CardinalityType
  <2>2. CASE fds[d].kind \in HostKinds /\ r.kind \in HostKinds
    <3>1. HostFds' = HostFds
      BY <1>1, <2>2 DEF HostFds
    <3> QED
      BY <1>3, <2>2, <3>1 DEF Replaces
  <2>3. CASE fds[d].kind \in HostKinds /\ r.kind \notin HostKinds
    <3>1. HostFds' = HostFds \ {d} /\ d \in HostFds
      BY <1>1, <2>3 DEF HostFds
    <3> QED
      BY <1>3, <2>1, <2>3, <3>1, OneLess DEF Replaces
  <2>4. CASE fds[d].kind \notin HostKinds /\ r.kind \in HostKinds
    <3>1. HostFds' = HostFds \cup {d} /\ d \notin HostFds
      BY <1>1, <2>4 DEF HostFds
    <3> QED
      BY <1>3, <2>1, <2>4, <3>1, FS_AddElement DEF Replaces
  <2>5. CASE fds[d].kind \notin HostKinds /\ r.kind \notin HostKinds
    <3>1. HostFds' = HostFds
      BY <1>1, <2>5 DEF HostFds
    <3> QED
      BY <1>3, <2>5, <3>1 DEF Replaces
  <2> QED
    BY <2>2, <2>3, <2>4, <2>5
<1>5. HandlesAreOwned'
  BY <1>4 DEF HandlesAreOwned, HostFds, HostKinds
<1> QED
  BY <1>1, <1>2, <1>5 DEF Descriptors

\* Each kind of descriptor that a call puts in a slot.
LEMMA NewDescriptors ==
    /\ Descriptor(FreeSlot) /\ FreeSlot.kind = "FREE"
    /\ \A c, r : r = [kind |-> "ROOT", cursor |-> c] => Descriptor(r) /\ r.kind = "ROOT"
    /\ \A r : r = [kind |-> "HOST_DIR"] => Descriptor(r) /\ r.kind = "HOST_DIR"
    /\ \A w, r : r = [kind |-> "HOST_FILE", writable |-> w] => Descriptor(r) /\ r.kind = "HOST_FILE"
    /\ \A x, r : r = [kind |-> "TRASH_DIR", dir |-> x] => Descriptor(r) /\ r.kind = "TRASH_DIR"
    /\ \A f, r : r = [kind |-> "TRASH_FILE", file |-> f] =>
           Descriptor(r) /\ r.kind = "TRASH_FILE" /\ r.file = f
  BY DEF Descriptor, FreeSlot

\* A handle that moves stays of its kind.
LEMMA MovedDescriptors ==
    ASSUME NEW x, Descriptor(x)
    PROVE  /\ \A f, r : x.kind = "TRASH_FILE" /\ r = [x EXCEPT !.file = f] =>
                  Descriptor(r) /\ r.kind = "TRASH_FILE" /\ r.file = f
           /\ \A y, r : x.kind = "TRASH_DIR" /\ r = [x EXCEPT !.dir = y] =>
                  Descriptor(r) /\ r.kind = "TRASH_DIR"
           /\ \A c, r : x.kind = "ROOT" /\ r = [x EXCEPT !.cursor = c] =>
                  Descriptor(r) /\ r.kind = "ROOT"
  BY DEF Descriptor

\* While no call has written through a handle whose file is gone, the volume is whole, and the
\* handle of every file that is not gone has an inode of a file.
Follows(v, r, d, gone) ==
    r.kind = "TRASH_FILE" =>
        /\ r.file \in HandleRec
        /\ d \notin gone /\ ~r.file.is_dir => v.inode[r.file.inode].mode = "file"

FilesFollow == clean => Whole(vol) /\ \A d \in Fds : Follows(vol, fds[d], d, stale)

Consistent == Descriptors /\ FilesFollow

\* The files of the volume survive a step, but for those in gone.
Survive(gone) ==
    /\ Whole(vol') /\ Spares(vol, vol', gone)
    /\ \A i \in gone : Opened(i) \subseteq stale'

LEMMA SpareAll ==
    ASSUME KeepsFiles(vol, vol'), Whole(vol')
    PROVE  Survive({})
  BY DEF KeepsFiles, Spares, Survive

LEMMA StillWhole ==
    ASSUME Consistent, vol' = vol
    PROVE  clean => Survive({})
<1> SUFFICES ASSUME clean PROVE Survive({})
  OBVIOUS
<1>1. Whole(vol') /\ KeepsFiles(vol, vol')
  BY DEF Consistent, FilesFollow, KeepsFiles
<1> QED
  BY <1>1, SpareAll

LEMMA FollowsStill ==
    ASSUME NEW d \in Fds, NEW gone, Survive(gone), Follows(vol, fds[d], d, stale), fds'[d] = fds[d],
           d \in stale => d \in stale'
    PROVE  Follows(vol', fds'[d], d, stale')
<1> SUFFICES ASSUME fds[d].kind = "TRASH_FILE", fds[d].file \in HandleRec, d \notin stale',
                    ~fds[d].file.is_dir, vol.inode[fds[d].file.inode].mode = "file"
             PROVE  vol'.inode[fds[d].file.inode].mode = "file"
  BY DEF Follows
<1>1. PICK i \in Inodes : i = fds[d].file.inode
  BY DEF HandleRec
<1>2. d \in Opened(i)
  BY <1>1 DEF Opened
<1>3. i \notin gone
  BY <1>2 DEF Survive
<1> QED
  BY <1>1, <1>3 DEF Survive, Spares

LEMMA SameFds ==
    ASSUME Consistent, fds' = fds, handles' = handles, stale \subseteq stale', clean' => clean,
           NEW gone, clean' => Survive(gone)
    PROVE  Consistent'
<1>1. Descriptors'
  BY DEF Consistent, Descriptors, HandlesAreOwned
<1>2. ASSUME clean' PROVE Whole(vol') /\ \A d \in Fds : Follows(vol', fds'[d], d, stale')
  <2>1. Survive(gone) /\ \A d \in Fds : Follows(vol, fds[d], d, stale)
    BY <1>2 DEF Consistent, FilesFollow
  <2>2. ASSUME NEW d \in Fds PROVE Follows(vol', fds'[d], d, stale')
    BY <2>1, FollowsStill
  <2> QED
    BY <2>1, <2>2 DEF Survive
<1>3. FilesFollow'
  BY <1>2 DEF FilesFollow
<1> QED
  BY <1>1, <1>3 DEF Consistent

LEMMA OneFd ==
    ASSUME Consistent, NEW d \in Fds, NEW r, Descriptor(r), Replaces(d, r), stale \ {d} \subseteq stale',
           clean' => clean, clean' => Survive({}) /\ Follows(vol', r, d, stale')
    PROVE  Consistent'
<1>1. Descriptors' /\ fds'[d] = r /\ \A x \in Fds \ {d} : fds'[x] = fds[x]
  BY Replaced DEF Consistent
<1>2. ASSUME clean' PROVE Whole(vol') /\ \A x \in Fds : Follows(vol', fds'[x], x, stale')
  <2>1. Survive({}) /\ \A x \in Fds : Follows(vol, fds[x], x, stale)
    BY <1>2 DEF Consistent, FilesFollow
  <2>2. ASSUME NEW x \in Fds \ {d} PROVE Follows(vol', fds'[x], x, stale')
    BY <1>1, <2>1, FollowsStill
  <2> QED
    BY <1>1, <1>2, <2>1, <2>2 DEF Survive
<1>3. FilesFollow'
  BY <1>2 DEF FilesFollow
<1> QED
  BY <1>1, <1>3 DEF Consistent

\* A descriptor that holds no file of the volume is opened, moved or closed.
LEMMA OtherFd ==
    ASSUME Consistent, NEW d \in Fds, NEW r, Descriptor(r), r.kind # "TRASH_FILE", Replaces(d, r),
           stale \ {d} \subseteq stale', vol' = vol, clean' = clean
    PROVE  Consistent'
<1>1. Follows(vol', r, d, stale')
  BY DEF Follows
<1> QED
  BY <1>1, StillWhole, OneFd

-----------------------------------------------------------------------------
(* One lemma per call *)

LEMMA Refused ==
    ASSUME Consistent, NEW e, Refuse(e)
    PROVE  Consistent'
<1>1. fds' = fds /\ handles' = handles /\ stale' = stale /\ vol' = vol /\ clean' = clean
  BY DEF Refuse
<1> QED
  BY <1>1, StillWhole, SameFds

LEMMA OpenRootKeeps ==
    ASSUME Consistent, NEW flags, OpenRoot(flags)
    PROVE  Consistent'
<1>1. ASSUME NEW e, Refuse(e) PROVE Consistent'
  BY <1>1, Refused
<1>2. CASE FreeFds # {} /\ fds' = [fds EXCEPT ![alloc_fd] = [kind |-> "ROOT", cursor |-> 0]]
           /\ UNCHANGED <<vol, mounts, handles, stale, clean>>
  <2>1. PICK r : r = [kind |-> "ROOT", cursor |-> 0]
    OBVIOUS
  <2>2. PICK d \in Fds : d = alloc_fd /\ fds[d].kind = "FREE"
    BY <1>2, FdFacts
  <2>3. Descriptor(r) /\ r.kind = "ROOT"
    BY <2>1, NewDescriptors
  <2>4. Replaces(d, r)
    BY <1>2, <2>1, <2>2, <2>3 DEF Replaces, HostKinds
  <2> QED
    BY <1>2, <2>3, <2>4, OtherFd
<1> QED
  BY <1>1, <1>2 DEF OpenRoot

LEMMA OpenHostKeeps ==
    ASSUME Consistent, NEW path, NEW flags, OpenHostDir(path, flags) \/ OpenHostFile(path, flags)
    PROVE  Consistent'
<1>1. ASSUME NEW e, Refuse(e) PROVE Consistent'
  BY <1>1, Refused
<1>2. ASSUME FreeFds # {}, NEW r, Descriptor(r), r.kind \in HostKinds,
             fds' = [fds EXCEPT ![alloc_fd] = r], handles' = handles + 1,
             UNCHANGED <<vol, mounts, stale, clean>>
      PROVE  Consistent'
  <2>1. PICK d \in Fds : d = alloc_fd /\ fds[d].kind = "FREE"
    BY <1>2, FdFacts
  <2>2. Replaces(d, r)
    BY <1>2, <2>1 DEF Replaces, HostKinds
  <2> QED
    BY <1>2, <2>2, OtherFd DEF HostKinds
<1>3. CASE OpenHostDir(path, flags)
  <2>1. PICK r : r = [kind |-> "HOST_DIR"]
    OBVIOUS
  <2>2. Descriptor(r) /\ r.kind \in HostKinds
    BY <2>1, NewDescriptors DEF HostKinds
  <2> QED
    BY <1>1, <1>2, <1>3, <2>1, <2>2 DEF OpenHostDir
<1>4. CASE OpenHostFile(path, flags)
  <2>1. PICK w : w = resolve_guest_path(path).mount.writable
    OBVIOUS
  <2>2. PICK r : r = [kind |-> "HOST_FILE", writable |-> w]
    OBVIOUS
  <2>3. Descriptor(r) /\ r.kind \in HostKinds
    BY <2>2, NewDescriptors DEF HostKinds
  <2> QED
    BY <1>1, <1>2, <1>4, <2>1, <2>2, <2>3 DEF OpenHostFile
<1> QED
  BY <1>3, <1>4

LEMMA OpenTrashDirKeeps ==
    ASSUME Consistent, NEW path, NEW flags, OpenTrashDir(path, flags)
    PROVE  Consistent'
<1>1. ASSUME NEW e, Refuse(e) PROVE Consistent'
  BY <1>1, Refused
<1>2. PICK t : t = trashfs_opendir(vol, Tail(path))
  OBVIOUS
<1>3. CASE FreeFds # {} /\ fds' = [fds EXCEPT ![alloc_fd] = [kind |-> "TRASH_DIR", dir |-> t.dir]]
           /\ UNCHANGED <<vol, mounts, handles, stale, clean>>
  <2>1. PICK x : x = t.dir
    OBVIOUS
  <2>2. PICK r : r = [kind |-> "TRASH_DIR", dir |-> x]
    OBVIOUS
  <2>3. PICK d \in Fds : d = alloc_fd /\ fds[d].kind = "FREE"
    BY <1>3, FdFacts
  <2>4. Descriptor(r) /\ r.kind = "TRASH_DIR"
    BY <2>2, NewDescriptors
  <2>5. Replaces(d, r)
    BY <1>3, <2>1, <2>2, <2>3, <2>4 DEF Replaces, HostKinds
  <2> QED
    BY <1>3, <2>4, <2>5, OtherFd
<1> QED
  BY <1>1, <1>2, <1>3 DEF OpenTrashDir

\* The path inside the mount.
LEMMA Inside ==
    ASSUME NEW path \in Paths
    PROVE  Tail(path) \in Seq(STRING)
  BY HostFsAssumption

LEMMA OpenTrashFileKeeps ==
    ASSUME Consistent, NEW path \in Paths, NEW flags, OpenTrashFile(path, flags)
    PROVE  Consistent'
<1>1. CASE FreeFds = {}
  BY <1>1, Refused DEF OpenTrashFile
<1>2. CASE FreeFds # {}
  <2>1. PICK t : t = trashfs_open(vol, Tail(path), flags)
    OBVIOUS
  <2>2. /\ vol' = t.vol
        /\ fds' = IF t.res = "ok"
                  THEN [fds EXCEPT ![alloc_fd] = [kind |-> "TRASH_FILE", file |-> t.file]]
                  ELSE fds
        /\ handles' = handles /\ stale' = stale /\ clean' = clean
    BY <1>2, <2>1 DEF OpenTrashFile
  <2>3. ASSUME clean PROVE Opening(vol, t)
    BY <2>1, <2>3, Inside, OpenWhole DEF Consistent, FilesFollow
  <2>4. clean' => Survive({})
    BY <2>2, <2>3, SpareAll DEF Opening
  <2>5. CASE t.res # "ok"
    BY <2>2, <2>4, <2>5, SameFds
  <2>6. CASE t.res = "ok"
    <3>1. PICK f : f = t.file
      OBVIOUS
    <3>2. PICK r : r = [kind |-> "TRASH_FILE", file |-> f]
      OBVIOUS
    <3>3. PICK d \in Fds : d = alloc_fd /\ fds[d].kind = "FREE"
      BY <1>2, FdFacts
    <3>4. Descriptor(r) /\ r.kind = "TRASH_FILE" /\ r.file = f
      BY <3>2, NewDescriptors
    <3>5. Replaces(d, r)
      BY <2>2, <2>6, <3>1, <3>2, <3>3, <3>4 DEF Replaces, HostKinds
    <3>6. clean' => Follows(vol', r, d, stale')
      BY <2>2, <2>3, <2>6, <3>1, <3>4 DEF Opening, Follows
    <3>7. stale \ {d} \subseteq stale' /\ (clean' => clean)
      BY <2>2
    <3> QED
      BY <2>4, <3>4, <3>5, <3>6, <3>7, OneFd
  <2> QED
    BY <2>5, <2>6
<1> QED
  BY <1>1, <1>2

LEMMA CloseKeeps ==
    ASSUME Consistent, NEW d \in Fds, fs_close_fd(d)
    PROVE  Consistent'
<1>1. PICK r : r = FreeSlot
  OBVIOUS
<1>2. Descriptor(r) /\ r.kind = "FREE"
  BY <1>1, NewDescriptors
<1>3. Replaces(d, r)
  BY <1>1, <1>2 DEF fs_close_fd, Replaces, HostKinds
<1> QED
  BY <1>2, <1>3, OtherFd DEF fs_close_fd

\* The handle of descriptor d of a file becomes f.
LEMMA MovesHandle ==
    ASSUME Consistent, NEW d \in Fds, fds[d].kind = "TRASH_FILE", NEW f,
           fds' = [fds EXCEPT ![d].file = f], handles' = handles, stale' = stale,
           clean' => clean /\ Survive({}),
           clean' => f \in HandleRec /\ f.inode = fds[d].file.inode /\ f.is_dir = fds[d].file.is_dir
    PROVE  Consistent'
<1>1. PICK x : x = fds[d]
  OBVIOUS
<1>2. PICK r : r = [x EXCEPT !.file = f]
  OBVIOUS
<1>3. Descriptor(x)
  BY <1>1 DEF Consistent, Descriptors
<1>4. Descriptor(r) /\ r.kind = "TRASH_FILE" /\ r.file = f
  BY <1>1, <1>2, <1>3, MovedDescriptors
<1>5. Replaces(d, r)
  BY <1>1, <1>2, <1>4 DEF Replaces, HostKinds
<1>6. ASSUME clean' PROVE Follows(vol', r, d, stale')
  <2>1. PICK i \in Inodes : i = f.inode
    BY <1>6 DEF HandleRec
  <2>2. Follows(vol, x, d, stale)
    BY <1>1, <1>6 DEF Consistent, FilesFollow
  <2>3. d \notin stale' /\ ~f.is_dir => vol.inode[i].mode = "file"
    BY <1>1, <1>6, <2>1, <2>2 DEF Follows
  <2>4. vol.inode[i].mode = "file" => vol'.inode[i].mode = "file"
    BY <1>6 DEF Survive, Spares
  <2> QED
    BY <1>4, <1>6, <2>1, <2>3, <2>4 DEF Follows
<1> QED
  BY <1>4, <1>5, <1>6, OneFd

LEMMA HandleMoves ==
    ASSUME NEW f \in HandleRec, NEW p \in Nat, NEW g, g = [f EXCEPT !.pos = p]
    PROVE  g \in HandleRec /\ g.inode = f.inode /\ g.is_dir = f.is_dir
  BY DEF HandleRec

\* A handle is where its descriptor is, while no write went astray.
LEMMA HandleOf ==
    ASSUME Consistent, clean, NEW d \in Fds, fds[d].kind = "TRASH_FILE"
    PROVE  fds[d].file \in HandleRec
  BY DEF Consistent, FilesFollow, Follows

LEMMA ReadKeeps ==
    ASSUME Consistent, NEW d \in Fds, NEW n \in Nat, fs_read_fd(d, n)
    PROVE  Consistent'
<1>1. ASSUME NEW e, Refuse(e) PROVE Consistent'
  BY <1>1, Refused
<1>2. CASE /\ fds[d].kind = "TRASH_FILE"
           /\ fds' = [fds EXCEPT ![d].file = trashfs_read(@, n)]
           /\ ret' = "ok" /\ UNCHANGED <<vol, mounts, handles, stale, clean>>
  <2>1. PICK f : f = fds[d].file
    OBVIOUS
  <2>2. PICK g : g = trashfs_read(f, n)
    OBVIOUS
  <2>3. ASSUME f \in HandleRec
        PROVE  g \in HandleRec /\ g.inode = f.inode /\ g.is_dir = f.is_dir
    <3>1. PICK left \in Nat : left = IF f.pos < f.size THEN f.size - f.pos ELSE 0
      BY <2>3 DEF HandleRec
    <3>2. PICK p \in Nat : p = f.pos + IF n < left THEN n ELSE left
      BY <2>3 DEF HandleRec
    <3>3. g = [f EXCEPT !.pos = p]
      BY <2>2, <3>1, <3>2 DEF trashfs_read
    <3> QED
      BY <2>3, <3>3, HandleMoves
  <2>4. fds' = [fds EXCEPT ![d].file = g]
    BY <1>2, <2>1, <2>2
  <2>5. clean' => clean /\ Survive({})
    BY <1>2, StillWhole
  <2>6. clean' => g \in HandleRec /\ g.inode = fds[d].file.inode /\ g.is_dir = fds[d].file.is_dir
    BY <1>2, <2>1, <2>3, HandleOf
  <2> QED
    BY <1>2, <2>4, <2>5, <2>6, MovesHandle
<1> QED
  BY <1>1, <1>2 DEF fs_read_fd

LEMMA LseekKeeps ==
    ASSUME Consistent, NEW d \in Fds, NEW off \in Int, NEW whence \in {"SET", "CUR", "END"},
           handle_lseek(d, off, whence)
    PROVE  Consistent'
<1>1. ASSUME NEW e, Refuse(e) PROVE Consistent'
  BY <1>1, Refused
<1>2. CASE /\ fds[d].kind = "TRASH_FILE"
           /\ fds' = [fds EXCEPT ![d].file = trashfs_lseek(fds[d].file, off, whence).file]
           /\ UNCHANGED <<vol, mounts, handles, stale, clean>>
  <2>1. PICK f : f = fds[d].file
    OBVIOUS
  <2>2. PICK s : s = trashfs_lseek(f, off, whence)
    OBVIOUS
  <2>3. PICK g : g = s.file
    OBVIOUS
  <2>4. ASSUME f \in HandleRec
        PROVE  g \in HandleRec /\ g.inode = f.inode /\ g.is_dir = f.is_dir
    <3>1. PICK base : base = CASE whence = "SET" -> 0 [] whence = "CUR" -> f.pos [] whence = "END" -> f.size
      OBVIOUS
    <3>2. base \in Nat
      BY <2>4, <3>1 DEF HandleRec
    <3>3. CASE base + off < 0
      BY <2>2, <2>3, <2>4, <3>1, <3>3 DEF trashfs_lseek
    <3>4. CASE ~(base + off < 0)
      <4>1. PICK p \in Nat : p = base + off
        BY <3>2, <3>4
      <4>2. g = [f EXCEPT !.pos = p]
        BY <2>2, <2>3, <3>1, <3>4, <4>1 DEF trashfs_lseek
      <4> QED
        BY <2>4, <4>2, HandleMoves
    <3> QED
      BY <3>3, <3>4
  <2>5. fds' = [fds EXCEPT ![d].file = g]
    BY <1>2, <2>1, <2>2, <2>3
  <2>6. clean' => clean /\ Survive({})
    BY <1>2, StillWhole
  <2>7. clean' => g \in HandleRec /\ g.inode = fds[d].file.inode /\ g.is_dir = fds[d].file.is_dir
    BY <1>2, <2>1, <2>4, HandleOf
  <2> QED
    BY <1>2, <2>5, <2>6, <2>7, MovesHandle
<1> QED
  BY <1>1, <1>2 DEF handle_lseek

LEMMA WriteKeeps ==
    ASSUME Consistent, NEW d \in Fds, NEW n \in Nat, fs_write_fd(d, n)
    PROVE  Consistent'
<1>1. ASSUME NEW e, Refuse(e) PROVE Consistent'
  BY <1>1, Refused
<1>2. CASE /\ fds[d].kind = "TRASH_FILE"
           /\ vol' = trashfs_write(vol, fds[d].file, n).vol
           /\ fds' = [fds EXCEPT ![d].file = trashfs_write(vol, fds[d].file, n).file]
           /\ clean' = (clean /\ d \notin stale)
           /\ UNCHANGED <<mounts, handles, stale>>
  <2>1. PICK f : f = fds[d].file
    OBVIOUS
  <2>2. PICK w : w = trashfs_write(vol, f, n)
    OBVIOUS
  <2>3. ASSUME clean' PROVE clean /\ d \notin stale
    BY <1>2, <2>3
  <2>4. ASSUME clean'
        PROVE  /\ Whole(w.vol) /\ KeepsFiles(vol, w.vol)
               /\ w.file \in HandleRec /\ w.file.inode = f.inode /\ w.file.is_dir = f.is_dir
    <3>1. Whole(vol) /\ Follows(vol, fds[d], d, stale)
      BY <2>3, <2>4 DEF Consistent, FilesFollow
    <3>2. f \in HandleRec /\ (~f.is_dir => vol.inode[f.inode].mode = "file")
      BY <1>2, <2>1, <2>3, <2>4, <3>1 DEF Follows
    <3> QED
      BY <2>2, <3>1, <3>2, WriteWhole DEF KeepsFiles
  <2>5. PICK g : g = w.file
    OBVIOUS
  <2>6. fds' = [fds EXCEPT ![d].file = g] /\ vol' = w.vol
    BY <1>2, <2>1, <2>2, <2>5
  <2>7. clean' => clean /\ Survive({})
    BY <2>3, <2>4, <2>6, SpareAll
  <2>8. clean' => g \in HandleRec /\ g.inode = fds[d].file.inode /\ g.is_dir = fds[d].file.is_dir
    BY <2>1, <2>4, <2>5
  <2> QED
    BY <1>2, <2>6, <2>7, <2>8, MovesHandle
<1> QED
  BY <1>1, <1>2 DEF fs_write_fd

LEMMA MkdirKeeps ==
    ASSUME Consistent, NEW path \in Paths, handle_mkdirat(path)
    PROVE  Consistent'
<1>1. ASSUME NEW e, Refuse(e) PROVE Consistent'
  BY <1>1, Refused
<1>2. CASE /\ vol' = trashfs_mkdir(vol, Tail(path)).vol
           /\ UNCHANGED <<fds, mounts, handles, stale, clean>>
  <2>1. PICK t : t = trashfs_mkdir(vol, Tail(path))
    OBVIOUS
  <2>2. ASSUME clean PROVE Whole(t.vol) /\ KeepsFiles(vol, t.vol)
    BY <2>1, <2>2, Inside, MkdirWhole DEF Consistent, FilesFollow
  <2>3. vol' = t.vol
    BY <1>2, <2>1
  <2>4. clean' => Survive({})
    BY <1>2, <2>2, <2>3, SpareAll
  <2> QED
    BY <1>2, <2>4, SameFds
<1> QED
  BY <1>1, <1>2 DEF handle_mkdirat

LEMMA UnlinkKeeps ==
    ASSUME Consistent, NEW path \in Paths, NEW removedir \in BOOLEAN, handle_unlinkat(path, removedir)
    PROVE  Consistent'
<1>1. ASSUME NEW e, Refuse(e) PROVE Consistent'
  BY <1>1, Refused
<1>2. ASSUME NEW t, removedir => t = trashfs_rmdir(vol, Tail(path)),
             ~removedir => t = trashfs_unlink(vol, Tail(path)),
             vol' = t.vol, stale' = stale \cup UNION {Opened(i) : i \in t.gone},
             UNCHANGED <<fds, mounts, handles, clean>>
      PROVE  Consistent'
  <2>1. ASSUME clean PROVE Whole(t.vol) /\ Spares(vol, t.vol, t.gone)
    <3>1. Whole(vol) /\ Tail(path) \in Seq(STRING)
      BY <2>1, Inside DEF Consistent, FilesFollow
    <3>2. CASE removedir
      BY <1>2, <3>1, <3>2, RmdirWhole
    <3>3. CASE ~removedir
      BY <1>2, <3>1, <3>3, UnlinkWhole
    <3> QED
      BY <3>2, <3>3
  <2>2. \A i \in t.gone : Opened(i) \subseteq stale'
    BY <1>2
  <2>3. clean' => Survive(t.gone)
    BY <1>2, <2>1, <2>2 DEF Survive
  <2> QED
    BY <1>2, <2>3, SameFds
<1> QED
  BY <1>1, <1>2 DEF handle_unlinkat

LEMMA ReaddirKeeps ==
    ASSUME Consistent, NEW d \in Fds, ReaddirRoot(d) \/ ReaddirTrash(d) \/ ReaddirOther(d)
    PROVE  Consistent'
<1>1. ASSUME NEW e, Refuse(e) PROVE Consistent'
  BY <1>1, Refused
<1>2. PICK x : x = fds[d]
  OBVIOUS
<1>3. Descriptor(x)
  BY <1>2 DEF Consistent, Descriptors
<1>4. ASSUME NEW r, Descriptor(r), r.kind = x.kind, r.kind \in {"ROOT", "TRASH_DIR"},
             fds' = [fds EXCEPT ![d] = r], UNCHANGED <<vol, mounts, handles, stale, clean>>
      PROVE  Consistent'
  <2>1. Replaces(d, r)
    BY <1>2, <1>4 DEF Replaces, HostKinds
  <2> QED
    BY <1>4, <2>1, OtherFd
<1>5. CASE ReaddirRoot(d)
  <2>1. PICK c : fds' = [fds EXCEPT ![d].cursor = c]
    BY <1>5 DEF ReaddirRoot
  <2>2. PICK r : r = [x EXCEPT !.cursor = c]
    OBVIOUS
  <2>3. Descriptor(r) /\ r.kind = x.kind /\ r.kind = "ROOT"
    BY <1>2, <1>3, <1>5, <2>2, MovedDescriptors DEF ReaddirRoot
  <2> QED
    BY <1>2, <1>4, <1>5, <2>1, <2>2, <2>3 DEF ReaddirRoot
<1>6. CASE ReaddirTrash(d)
  <2>1. PICK y : fds' = [fds EXCEPT ![d].dir = y]
    BY <1>6 DEF ReaddirTrash
  <2>2. PICK r : r = [x EXCEPT !.dir = y]
    OBVIOUS
  <2>3. Descriptor(r) /\ r.kind = x.kind /\ r.kind = "TRASH_DIR"
    BY <1>2, <1>3, <1>6, <2>2, MovedDescriptors DEF ReaddirTrash
  <2> QED
    BY <1>2, <1>4, <1>6, <2>1, <2>2, <2>3 DEF ReaddirTrash
<1>7. CASE ReaddirOther(d)
  BY <1>1, <1>7 DEF ReaddirOther
<1> QED
  BY <1>5, <1>6, <1>7

LEMMA ResetKeeps ==
    ASSUME Consistent, vm_host_fs_reset
    PROVE  Consistent'
<1>1. fds' = [d \in Fds |-> FreeSlot] /\ vol' = vol /\ clean' = clean
  BY DEF vm_host_fs_reset
<1>2. fds' = [d \in Fds |-> fds'[d]] /\ \A d \in Fds : Descriptor(fds'[d]) /\ fds'[d].kind = "FREE"
  BY <1>1, NewDescriptors
<1>3. handles' = 0
  <2>1. handles = Cardinality(HostFds) /\ Cardinality(HostFds) \in Nat
    BY FdFacts, FS_CardinalityType DEF Consistent, Descriptors, HandlesAreOwned, HostFds, HostKinds
  <2>2. handles' = handles - Cardinality(HostFds)
    BY DEF vm_host_fs_reset, HostFds, HostKinds
  <2> QED
    BY <2>1, <2>2
<1>4. HandlesAreOwned'
  <2>1. {d \in Fds : fds'[d].kind \in {"HOST_FILE", "HOST_DIR"}} = {}
    BY <1>2
  <2> QED
    BY <1>3, <2>1, FS_EmptySet DEF HandlesAreOwned
<1>5. FilesFollow'
  BY <1>1, <1>2, StillWhole DEF FilesFollow, Follows, Survive
<1> QED
  BY <1>1, <1>2, <1>4, <1>5 DEF Consistent, Descriptors

LEMMA FsStarts ==
    ASSUME FsInit
    PROVE  Consistent
<1>1. Whole(vol)
  BY FormatWhole DEF FsInit
<1>2. \A d \in Fds : Descriptor(fds[d]) /\ fds[d].kind = "FREE"
  BY NewDescriptors DEF FsInit
<1>3. HandlesAreOwned
  <2>1. {d \in Fds : fds[d].kind \in {"HOST_FILE", "HOST_DIR"}} = {}
    BY <1>2
  <2> QED
    BY <2>1, FS_EmptySet DEF HandlesAreOwned, FsInit
<1>4. fds = [d \in Fds |-> fds[d]]
  BY DEF FsInit
<1> QED
  BY <1>1, <1>2, <1>3, <1>4 DEF Consistent, Descriptors, FilesFollow, Follows

LEMMA FsSteps ==
    ASSUME Consistent, FsNext
    PROVE  Consistent'
<1>1. ASSUME NEW name \in MountNames,
             \/ vm_host_fs_mount_trashfs(name) \/ \E w \in BOOLEAN : vm_host_fs_mount_host(name, w)
             \/ vm_host_fs_unmount(name)
      PROVE  Consistent'
  <2>1. fds' = fds /\ handles' = handles /\ stale' = stale /\ vol' = vol /\ clean' = clean
    BY <1>1 DEF vm_host_fs_mount_trashfs, vm_host_fs_mount_host, vm_host_fs_unmount, MountAt
  <2> QED
    BY <2>1, StillWhole, SameFds
<1>2. CASE vm_host_fs_reset
  BY <1>2, ResetKeeps
<1>3. ASSUME NEW flags \in FlagSets, OpenRoot(flags) PROVE Consistent'
  BY <1>3, OpenRootKeeps
<1>4. ASSUME NEW flags \in FlagSets, NEW path \in Paths,
             \/ OpenRefused(path, flags) \/ OpenHostDir(path, flags) \/ OpenHostFile(path, flags)
             \/ OpenTrashDir(path, flags) \/ OpenTrashFile(path, flags)
      PROVE  Consistent'
  <2>1. ASSUME NEW e, Refuse(e) PROVE Consistent'
    BY <2>1, Refused
  <2>2. CASE OpenRefused(path, flags)
    BY <2>1, <2>2 DEF OpenRefused
  <2> QED
    BY <1>4, <2>2, OpenHostKeeps, OpenTrashDirKeeps, OpenTrashFileKeeps
<1>5. ASSUME NEW path \in Paths, handle_mkdirat(path) \/ \E removedir \in BOOLEAN : handle_unlinkat(path, removedir)
      PROVE  Consistent'
  BY <1>5, MkdirKeeps, UnlinkKeeps
<1>6. ASSUME NEW d \in Fds, fs_close_fd(d) \/ ReaddirRoot(d) \/ ReaddirTrash(d) \/ ReaddirOther(d)
      PROVE  Consistent'
  BY <1>6, CloseKeeps, ReaddirKeeps
<1>7. ASSUME NEW d \in Fds, NEW n \in Counts, fs_read_fd(d, n) \/ fs_write_fd(d, n) PROVE Consistent'
  BY <1>7, ReadKeeps, WriteKeeps, HostFsAssumption
<1>8. ASSUME NEW d \in Fds, NEW s \in Seeks, handle_lseek(d, s[1], s[2]) PROVE Consistent'
  <2>1. s[1] \in Int /\ s[2] \in {"SET", "CUR", "END"}
    BY HostFsAssumption
  <2> QED
    BY <1>8, <2>1, LseekKeeps
<1> QED
  BY <1>1, <1>2, <1>3, <1>4, <1>5, <1>6, <1>7, <1>8 DEF FsNext

-----------------------------------------------------------------------------
(* A call that fails *)

\* Writing back what is there changes nothing.
LEMMA WroteBack ==
    ASSUME Descriptors, NEW d \in Fds
    PROVE  /\ \A r : r = fds[d] => [fds EXCEPT ![d] = r] = fds
           /\ \A f : fds[d].kind = "TRASH_FILE" /\ f = fds[d].file => [fds EXCEPT ![d].file = f] = fds
<1>1. fds = [x \in Fds |-> fds[x]]
  BY DEF Descriptors
<1>2. ASSUME NEW r, r = fds[d] PROVE [fds EXCEPT ![d] = r] = fds
  BY <1>1, <1>2
<1>3. ASSUME NEW f, fds[d].kind = "TRASH_FILE", f = fds[d].file PROVE [fds EXCEPT ![d].file = f] = fds
  <2>1. PICK x : x = fds[d]
    OBVIOUS
  <2>2. x = [kind |-> "TRASH_FILE", file |-> f]
    BY <1>3, <2>1 DEF Descriptors, Descriptor
  <2>3. [x EXCEPT !.file = f] = x
    BY <2>2
  <2>4. [fds EXCEPT ![d].file = f] = [fds EXCEPT ![d] = x]
    BY <2>1, <2>3
  <2> QED
    BY <1>2, <2>1, <2>4
<1> QED
  BY <1>2, <1>3

\* The names are those that the directories show.
LEMMA NamesShown ==
    ASSUME Whole(vol), Whole(vol'), Shows(vol, vol')
    PROVE  Names' = Names
<1>1. vol \in Volume /\ Namespace(vol) /\ vol' \in Volume
  BY WholeParts
<1>2. PICK at \in [Blocks -> Seq(Nat)] : Forest(vol, at)
  BY WholeParts
<1>3. PICK w : w = vol'
  OBVIOUS
<1>4. /\ Dirs(w) = Dirs(vol)
      /\ \A i \in Dirs(vol) : Live(w, i) = Live(vol, i) /\ \A o \in Live(vol, i) : EntryAt(w, i, o) = EntryAt(vol, i, o)
  BY <1>1, <1>2, <1>3, SameNamespace
<1>5. \A i \in Dirs(vol) : {EntryAt(w, i, o) : o \in Live(w, i)} = {EntryAt(vol, i, o) : o \in Live(vol, i)}
  BY <1>4
<1>6. Names = [i \in Dirs(vol) |-> {EntryAt(vol, i, o) : o \in Live(vol, i)}]
  BY DEF Names, Dirs
<1>7. Names' = [i \in Dirs(w) |-> {EntryAt(w, i, o) : o \in Live(w, i)}]
  BY <1>3 DEF Names, Dirs
<1> QED
  BY <1>4, <1>5, <1>6, <1>7

LEMMA NothingElse ==
    ASSUME UNCHANGED <<fds, mounts, handles>>, Whole(vol), Whole(vol'), Shows(vol, vol') \/ vol' = vol
    PROVE  FailedCall
  BY NamesShown DEF FailedCall

LEMMA RefusedCall ==
    ASSUME NEW e, Refuse(e)
    PROVE  FailedCall
  BY DEF Refuse, FailedCall

\* What a result becomes in a0: the result of a call that failed was not "ok".
LEMMA ErrnoFacts == \A known : Errno("ok", known) = "ok"
  BY DEF Errno

LEMMA OpenFails ==
    ASSUME Consistent, clean', NEW path \in Paths, NEW flags,
           \/ OpenRoot(flags) \/ OpenRefused(path, flags) \/ OpenHostDir(path, flags)
           \/ OpenHostFile(path, flags) \/ OpenTrashDir(path, flags) \/ OpenTrashFile(path, flags)
    PROVE  FailedCall
<1>1. ASSUME NEW e, Refuse(e) PROVE FailedCall
  BY <1>1, RefusedCall
<1>2. CASE OpenRoot(flags)
  BY <1>1, <1>2 DEF OpenRoot, FailedCall
<1>3. CASE OpenRefused(path, flags)
  BY <1>1, <1>3 DEF OpenRefused
<1>4. CASE OpenHostDir(path, flags)
  BY <1>1, <1>4 DEF OpenHostDir, FailedCall
<1>5. CASE OpenHostFile(path, flags)
  BY <1>1, <1>5 DEF OpenHostFile, FailedCall
<1>6. CASE OpenTrashDir(path, flags)
  BY <1>1, <1>6 DEF OpenTrashDir, FailedCall
<1>7. CASE OpenTrashFile(path, flags)
  <2>1. CASE FreeFds = {}
    BY <1>1, <1>7, <2>1 DEF OpenTrashFile
  <2>2. CASE FreeFds # {}
    <3>1. PICK t : t = trashfs_open(vol, Tail(path), flags)
      OBVIOUS
    <3>2. /\ vol' = t.vol /\ ret' = Errno(t.res, {"NOT_FOUND", "NO_SPACE", "INVALID_ARG"})
          /\ t.res # "ok" => fds' = fds
          /\ UNCHANGED <<mounts, handles, stale, clean>>
      BY <1>7, <2>2, <3>1 DEF OpenTrashFile
    <3>3. Whole(vol) /\ Tail(path) \in Seq(STRING)
      BY <3>2, Inside DEF Consistent, FilesFollow
    <3>4. Opening(vol, t)
      BY <3>1, <3>3, OpenWhole
    <3>5. CASE t.res = "ok"
      BY <3>2, <3>5, ErrnoFacts DEF FailedCall
    <3>6. CASE t.res # "ok"
      BY <3>2, <3>3, <3>4, <3>6, NothingElse DEF Opening
    <3> QED
      BY <3>5, <3>6
  <2> QED
    BY <2>1, <2>2
<1> QED
  BY <1>2, <1>3, <1>4, <1>5, <1>6, <1>7

LEMMA NameFails ==
    ASSUME Consistent, clean', NEW path \in Paths, NEW removedir \in BOOLEAN,
           handle_mkdirat(path) \/ handle_unlinkat(path, removedir)
    PROVE  FailedCall
<1>1. ASSUME NEW e, Refuse(e) PROVE FailedCall
  BY <1>1, RefusedCall
<1>2. Tail(path) \in Seq(STRING) /\ (clean => Whole(vol))
  BY Inside DEF Consistent, FilesFollow
<1>3. ASSUME NEW t, NEW known, vol' = t.vol, ret' = Errno(t.res, known), Whole(vol), Whole(t.vol),
             t.res # "ok" => Shows(vol, t.vol) \/ t.vol = vol, UNCHANGED <<fds, mounts, handles>>
      PROVE  FailedCall
  <2>1. CASE t.res = "ok"
    BY <1>3, <2>1, ErrnoFacts DEF FailedCall
  <2>2. CASE t.res # "ok"
    BY <1>3, <2>2, NothingElse
  <2> QED
    BY <2>1, <2>2
<1>4. CASE handle_mkdirat(path)
  <2>1. CASE \E e : Refuse(e)
    BY <1>1, <2>1
  <2>2. CASE /\ vol' = trashfs_mkdir(vol, Tail(path)).vol
             /\ ret' = Errno(trashfs_mkdir(vol, Tail(path)).res,
                             {"EXISTS", "NOT_FOUND", "NOT_DIR", "NO_SPACE", "INVALID_ARG"})
             /\ UNCHANGED <<fds, mounts, handles, stale, clean>>
    <3>1. PICK t : t = trashfs_mkdir(vol, Tail(path))
      OBVIOUS
    <3>2. Whole(vol)
      BY <1>2, <2>2
    <3>3. Whole(t.vol) /\ (t.res # "ok" => Shows(vol, t.vol))
      BY <1>2, <3>1, <3>2, MkdirWhole
    <3>4. PICK known : known = {"EXISTS", "NOT_FOUND", "NOT_DIR", "NO_SPACE", "INVALID_ARG"}
      OBVIOUS
    <3>5. vol' = t.vol /\ ret' = Errno(t.res, known)
      BY <2>2, <3>1, <3>4
    <3> QED
      BY <1>3, <2>2, <3>2, <3>3, <3>5
  <2> QED
    BY <1>4, <2>1, <2>2 DEF handle_mkdirat
<1>5. CASE handle_unlinkat(path, removedir)
  <2>1. CASE \E e : Refuse(e)
    BY <1>1, <2>1
  <2>2. ASSUME NEW t, removedir => t = trashfs_rmdir(vol, Tail(path)),
               ~removedir => t = trashfs_unlink(vol, Tail(path)), vol' = t.vol,
               ret' = Errno(t.res, {"NOT_FOUND", "NOT_DIR", "NOT_EMPTY", "INVALID_ARG"}),
               UNCHANGED <<fds, mounts, handles, clean>>
        PROVE  FailedCall
    <3>1. Whole(vol)
      BY <1>2, <2>2
    <3>2. Whole(t.vol) /\ (t.res # "ok" => t.vol = vol)
      <4>1. CASE removedir
        BY <1>2, <2>2, <3>1, <4>1, RmdirWhole
      <4>2. CASE ~removedir
        BY <1>2, <2>2, <3>1, <4>2, UnlinkWhole
      <4> QED
        BY <4>1, <4>2
    <3>3. PICK known : known = {"NOT_FOUND", "NOT_DIR", "NOT_EMPTY", "INVALID_ARG"}
      OBVIOUS
    <3>4. ret' = Errno(t.res, known)
      BY <2>2, <3>3
    <3> QED
      BY <1>3, <2>2, <3>1, <3>2, <3>4
  <2> QED
    BY <1>5, <2>1, <2>2 DEF handle_unlinkat
<1> QED
  BY <1>4, <1>5

\* Calls on a descriptor; one that fails leaves the handle as it was.
LEMMA DescriptorFails ==
    ASSUME Consistent, clean', NEW d \in Fds, NEW n \in Nat, NEW off \in Int,
           NEW whence \in {"SET", "CUR", "END"},
           \/ fs_close_fd(d) \/ ReaddirRoot(d) \/ ReaddirTrash(d) \/ ReaddirOther(d)
           \/ fs_read_fd(d, n) \/ fs_write_fd(d, n) \/ handle_lseek(d, off, whence)
    PROVE  FailedCall
<1>1. ASSUME NEW e, Refuse(e) PROVE FailedCall
  BY <1>1, RefusedCall
<1>2. Descriptors /\ Descriptor(fds[d])
  BY DEF Consistent, Descriptors
<1>3. CASE fs_close_fd(d)
  <2>1. CASE fds[d].kind = "FREE"
    <3>1. PICK r : r = FreeSlot
      OBVIOUS
    <3>2. r = fds[d] /\ fds' = [fds EXCEPT ![d] = r]
      BY <1>2, <1>3, <2>1, <3>1 DEF Descriptor, fs_close_fd
    <3>3. fds' = fds
      BY <1>2, <3>2, WroteBack
    <3> QED
      BY <1>3, <2>1, <3>3 DEF fs_close_fd, FailedCall
  <2>2. CASE fds[d].kind # "FREE"
    BY <1>3, <2>2 DEF fs_close_fd, FailedCall
  <2> QED
    BY <2>1, <2>2
<1>4. CASE ReaddirRoot(d) \/ ReaddirTrash(d)
  BY <1>4 DEF ReaddirRoot, ReaddirTrash, FailedCall
<1>5. CASE ReaddirOther(d)
  BY <1>1, <1>5 DEF ReaddirOther
<1>6. CASE fs_read_fd(d, n)
  BY <1>1, <1>6 DEF fs_read_fd, FailedCall
<1>7. CASE fs_write_fd(d, n)
  <2>1. CASE \E e : Refuse(e)
    BY <1>1, <2>1
  <2>2. CASE /\ fds[d].kind = "TRASH_FILE"
             /\ vol' = trashfs_write(vol, fds[d].file, n).vol
             /\ fds' = [fds EXCEPT ![d].file = trashfs_write(vol, fds[d].file, n).file]
             /\ ret' = Errno(trashfs_write(vol, fds[d].file, n).res, {"NO_SPACE"})
             /\ clean' = (clean /\ d \notin stale)
             /\ UNCHANGED <<mounts, handles, stale>>
    <3>1. PICK f : f = fds[d].file
      OBVIOUS
    <3>2. PICK w : w = trashfs_write(vol, f, n)
      OBVIOUS
    <3>3. clean /\ d \notin stale
      BY <2>2
    <3>4. Whole(vol) /\ Follows(vol, fds[d], d, stale)
      BY <3>3 DEF Consistent, FilesFollow
    <3>5. f \in HandleRec /\ (~f.is_dir => vol.inode[f.inode].mode = "file")
      BY <2>2, <3>1, <3>3, <3>4 DEF Follows
    <3>6. Whole(w.vol) /\ (w.res # "ok" => Shows(vol, w.vol) /\ w.file = f)
      BY <3>2, <3>4, <3>5, WriteWhole
    <3>7. PICK g : g = w.file
      OBVIOUS
    <3>8. vol' = w.vol /\ fds' = [fds EXCEPT ![d].file = g] /\ ret' = Errno(w.res, {"NO_SPACE"})
      BY <2>2, <3>1, <3>2, <3>7
    <3>9. CASE w.res = "ok"
      BY <3>8, <3>9, ErrnoFacts DEF FailedCall
    <3>10. CASE w.res # "ok"
      <4>1. fds' = fds
        BY <1>2, <2>2, <3>1, <3>6, <3>7, <3>8, <3>10, WroteBack
      <4> QED
        BY <2>2, <3>4, <3>6, <3>8, <3>10, <4>1, NothingElse
    <3> QED
      BY <3>9, <3>10
  <2> QED
    BY <1>7, <2>1, <2>2 DEF fs_write_fd
<1>8. CASE handle_lseek(d, off, whence)
  <2>1. CASE \E e : Refuse(e)
    BY <1>1, <2>1
  <2>2. CASE /\ fds[d].kind = "TRASH_FILE"
             /\ fds' = [fds EXCEPT ![d].file = trashfs_lseek(fds[d].file, off, whence).file]
             /\ ret' = Errno(trashfs_lseek(fds[d].file, off, whence).res, {"INVALID_ARG"})
             /\ UNCHANGED <<vol, mounts, handles, stale, clean>>
    <3>1. PICK f : f = fds[d].file
      OBVIOUS
    <3>2. PICK s : s = trashfs_lseek(f, off, whence)
      OBVIOUS
    <3>3. s.res = "ok" \/ s.file = f
      BY <3>2 DEF trashfs_lseek
    <3>4. PICK g : g = s.file
      OBVIOUS
    <3>5. fds' = [fds EXCEPT ![d].file = g] /\ ret' = Errno(s.res, {"INVALID_ARG"})
      BY <2>2, <3>1, <3>2, <3>4
    <3>6. CASE s.res = "ok"
      BY <3>5, <3>6, ErrnoFacts DEF FailedCall
    <3>7. CASE s.file = f
      <4>1. fds' = fds
        BY <1>2, <2>2, <3>1, <3>4, <3>5, <3>7, WroteBack
      <4> QED
        BY <2>2, <4>1 DEF FailedCall
    <3> QED
      BY <3>3, <3>6, <3>7
  <2> QED
    BY <1>8, <2>1, <2>2 DEF handle_lseek
<1> QED
  BY <1>3, <1>4, <1>5, <1>6, <1>7, <1>8

LEMMA CallFails ==
    ASSUME Consistent, clean', FsNext
    PROVE  FailedCall
<1>1. ASSUME NEW name \in MountNames,
             \/ vm_host_fs_mount_trashfs(name) \/ \E w \in BOOLEAN : vm_host_fs_mount_host(name, w)
             \/ vm_host_fs_unmount(name)
      PROVE  FailedCall
  BY <1>1 DEF vm_host_fs_mount_trashfs, vm_host_fs_mount_host, vm_host_fs_unmount, MountAt, FailedCall
<1>2. CASE vm_host_fs_reset
  BY <1>2 DEF vm_host_fs_reset, FailedCall
<1>3. ASSUME NEW flags \in FlagSets, OpenRoot(flags) PROVE FailedCall
  <2>1. ASSUME NEW e, Refuse(e) PROVE FailedCall
    BY <2>1, RefusedCall
  <2> QED
    BY <1>3, <2>1 DEF OpenRoot, FailedCall
<1>4. ASSUME NEW flags \in FlagSets, NEW path \in Paths,
             \/ OpenRefused(path, flags) \/ OpenHostDir(path, flags) \/ OpenHostFile(path, flags)
             \/ OpenTrashDir(path, flags) \/ OpenTrashFile(path, flags)
      PROVE  FailedCall
  BY <1>4, OpenFails
<1>5. ASSUME NEW path \in Paths, handle_mkdirat(path) \/ \E removedir \in BOOLEAN : handle_unlinkat(path, removedir)
      PROVE  FailedCall
  BY <1>5, NameFails
<1>6. ASSUME NEW d \in Fds, fs_close_fd(d) \/ ReaddirRoot(d) \/ ReaddirTrash(d) \/ ReaddirOther(d)
      PROVE  FailedCall
  <2>1. 0 \in Nat /\ 0 \in Int /\ "SET" \in {"SET", "CUR", "END"}
    OBVIOUS
  <2> QED
    BY <1>6, <2>1, DescriptorFails
<1>7. ASSUME NEW d \in Fds, NEW n \in Counts, fs_read_fd(d, n) \/ fs_write_fd(d, n) PROVE FailedCall
  <2>1. n \in Nat /\ 0 \in Int /\ "SET" \in {"SET", "CUR", "END"}
    BY HostFsAssumption
  <2> QED
    BY <1>7, <2>1, DescriptorFails
<1>8. ASSUME NEW d \in Fds, NEW s \in Seeks, handle_lseek(d, s[1], s[2]) PROVE FailedCall
  <2>1. s[1] \in Int /\ s[2] \in {"SET", "CUR", "END"} /\ 0 \in Nat
    BY HostFsAssumption
  <2> QED
    BY <1>8, <2>1, DescriptorFails
<1> QED
  BY <1>1, <1>2, <1>3, <1>4, <1>5, <1>6, <1>7, <1>8 DEF FsNext

-----------------------------------------------------------------------------
(* The theorems *)

\* The inductive invariant of the file calls: descriptors and the host's handles agree and, as
\* long as no write went through a handle whose file had been removed, the volume is whole and
\* every handle of a file that is still there has the inode of a file (vm_host_fs.c, trashfs.c).
THEOREM StaysConsistent == FsSpec => []Consistent
<1>1. FsInit => Consistent
  BY FsStarts
<1>2. Consistent /\ [FsNext]_fsVars => Consistent'
  <2> SUFFICES ASSUME Consistent, [FsNext]_fsVars PROVE Consistent'
    OBVIOUS
  <2>1. CASE UNCHANGED fsVars
    <3>1. fds' = fds /\ handles' = handles /\ stale' = stale /\ vol' = vol /\ clean' = clean
      BY <2>1 DEF fsVars
    <3> QED
      BY <3>1, StillWhole, SameFds
  <2> QED
    BY <2>1, FsSteps
<1> QED
  BY <1>1, <1>2, PTL DEF FsSpec

\* After every call, those that fail halfway on a full volume included, each block in use is
\* reached by one pointer, each inode in use has its name and the counters of the mounted handle
\* are what a mount would count, until a write goes through a handle whose file was removed; trashfs.c
\* does nothing against that, and what it leaves behind is not claimed.
THEOREM VolumeStaysConsistent == FsSpec => [](clean => VolumeConsistent)
<1>1. Consistent => (clean => VolumeConsistent)
  <2> SUFFICES ASSUME Consistent, clean PROVE VolumeConsistent
    OBVIOUS
  <2>1. Whole(vol) /\ HandlesAreOwned
    BY DEF Consistent, FilesFollow, Descriptors
  <2>2. BlocksReachableOnce
    BY <2>1, WholeParts, ReachedOnce
  <2> QED
    BY <2>1, <2>2, WholeTree, WholeCached DEF VolumeConsistent
<1> QED
  BY <1>1, StaysConsistent, PTL

\* Every FILE* and DIR* that vm_host_fs.c has the host open is held by one descriptor, whatever
\* is opened, closed, refused or reset, and however the mounts change meanwhile.
THEOREM HandlesStayOwned == FsSpec => []HandlesAreOwned
<1>1. Consistent => HandlesAreOwned
  BY DEF Consistent, Descriptors
<1> QED
  BY <1>1, StaysConsistent, PTL

\* A call that reports an error has changed no name, no descriptor and no host handle, whichever
\* of its steps failed: path, mount, descriptor, inode, block (vm_host_fs.c, trashfs.c).  It is
\* claimed of the calls up to the first write through a handle whose file was removed.
THEOREM FailuresChangeNothing == FsSpec => [][clean' => FailedCall]_fsVars
<1>1. Consistent /\ [FsNext]_fsVars => [clean' => FailedCall]_fsVars
  BY CallFails
<1> QED
  BY <1>1, StaysConsistent, PTL DEF FsSpec

\* FailedCallChangesNothing, of the behaviours without such a write.
THEOREM FailedCallsAreHarmless == FsSpec /\ []clean => FailedCallChangesNothing
<1>1. clean' /\ [clean' => FailedCall]_fsVars => [FailedCall]_fsVars
  OBVIOUS
<1> QED
  BY <1>1, FailuresChangeNothing, PTL DEF FailedCallChangesNothing

=============================================================================
