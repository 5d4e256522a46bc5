----------------------------- MODULE MCStructures -----------------------------
(***************************************************************************)
(* The search tree, the containers, the two heaps and the file volumes     *)
(* with the file calls of guests, a part at a time.                        *)
(***************************************************************************)
EXTENDS Containers, L2Heap, SlabHeap, HostFs

VARIABLE part

vars == <<treevars, convars, l2vars, slabvars, fsVars, part>>

\* Twelve keys: the smallest AVL tree in which one removal rotates at two levels. A pool
\* smaller than the key set, shared by two buckets, is exhausted and refilled.
MCShapes ==
    {[disc |-> "AVL", buckets |-> 1, cap |-> 12, keys |-> 1 .. 12],
     [disc |-> "AVL", buckets |-> 2, cap |-> 5, keys |-> 1 .. 7],
     [disc |-> "BST", buckets |-> 1, cap |-> 5, keys |-> 1 .. 6]}

MCHash(k) == k * 3
MCBucket == [i \in 0 .. 2 |-> IF i = 2 THEN 1 ELSE 2]

Init ==
    /\ part \in {"tree", "containers", "l2", "slab", "files"}
    /\ IF part = "tree" THEN TreeInit ELSE tree = tree_init(CHOOSE s \in Shapes : TRUE) /\ held = {}
    /\ IF part = "containers" THEN ConInit ELSE kind = "stack" /\ con = <<>> /\ ref = <<>>
    /\ L2Init
    /\ FsInit
    /\ SlabInit /\ bump = NoBump /\ spans = {}

Next ==
    /\ UNCHANGED part
    /\ \/ part = "tree" /\ TreeNext /\ UNCHANGED <<convars, l2vars, slabvars, fsVars>>
       \/ part = "containers" /\ ConNext /\ UNCHANGED <<treevars, l2vars, slabvars, fsVars>>
       \/ part = "l2" /\ L2Next /\ UNCHANGED <<treevars, convars, slabvars, fsVars>>
       \/ part = "files" /\ FsNext /\ UNCHANGED <<treevars, convars, l2vars, slabvars>>
       \/ part = "slab" /\ SlabNext /\ UNCHANGED <<treevars, convars, l2vars, fsVars>>

Spec == Init /\ [][Next]_vars

\* The search trees hold what their calls left in them, in order and in balance, and the
\* pool containers answer as what they stand for (avl_core.c, the containers' files).
ContainersExact == TreeExact /\ (part = "containers" => ContainersMatch)

-----------------------------------------------------------------------------
\* A file, a directory, a file in it by two ways, and the root of the volume.
MCPaths == {<<"t">>, <<"t", "a">>, <<"t", "d">>, <<"t", "d", "a">>, <<"t", "d", "..", "a">>}
MCFlagSets == {{}, {"DIRECTORY"}, {"WR", "CREAT", "TRUNC"}}
MCSeeks == {<<4, "SET">>, <<-2, "END">>}

\* Where TLC stops: after a write through a stale descriptor; with a host
\* mount over a volume in use; with two descriptors open on a volume that
\* holds more than one file.
FsBound ==
    /\ clean
    /\ \A m \in DOMAIN mounts : mounts[m].kind = "HOST" => UsedInodes = {RootInode}
    /\ \/ Cardinality(Fds \ FreeFds) <= 1
       \/ Cardinality(UsedInodes) <= 2 /\ \A d \in Fds \ FreeFds : fds[d].kind = "TRASH_FILE"

\* Trees of more than six keys are followed when they have the upper two levels of the
\* twelve-key tree in which a removal rotates twice.
TreeBound == Cardinality(held) <= 6 \/ {3, 5, 8, 10, 11} \subseteq held

Followed == TreeBound /\ FsBound

\* States that differ only in values the code never reads again.
View == <<part, TreeView, convars, L2View, l2 = NoHeap, SlabView,
          vol, fds, mounts, handles, stale, clean>>
=============================================================================
