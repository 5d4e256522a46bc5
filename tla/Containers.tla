------------------------------ MODULE Containers ------------------------------
(***************************************************************************)
(* The pool and array containers: dlist.c, slist.c, ring_buffer.c,         *)
(* fifo_queue.c, stack.c, bitset.c and hashtable.c. One container of each  *)
(* kind; `con` holds the code's representation, `ref` what a caller        *)
(* expects of it.                                                          *)
(***************************************************************************)
EXTENDS Integers, Sequences, FiniteSets, FiniteSetsExt, SequencesExt

CONSTANTS
    Kinds,         \* the kinds checked
    Cap,           \* capacity of the lists, the rings and the stack
    Vals,          \* elements
    NBits,         \* bits of the bitset
    WordBits,      \* bits of a word of it: 32
    HKeys,         \* keys of the hash table
    Hash(_),       \* their hash
    InitBuckets    \* initial_buckets, a power of two

VARIABLES kind, con, ref

convars == <<kind, con, ref>>

None == -1
Idx == 0 .. Cap - 1

-----------------------------------------------------------------------------
\* dlist.c and slist.c: nodes of a pool linked by index; a free node's next is the free
\* list's link. A list of kind "slist" leaves prev alone.

list_clear ==
    [node |-> [i \in Idx |-> [next |-> IF i + 1 < Cap THEN i + 1 ELSE None, prev |-> None, val |-> None]],
     head |-> None, tail |-> None, free |-> IF Cap > 0 THEN 0 ELSE None, count |-> 0]

\* alloc_node and the copy of the element.
Taken(l, v) == [l EXCEPT !.free = l.node[l.free].next, !.node[l.free].val = v, !.count = @ + 1]
\* free_node.
Given(l, n) == [l EXCEPT !.node[n].next = l.free, !.free = n, !.count = @ - 1]

dlist_push_front(l, v) ==
    LET n == l.free
        l1 == [Taken(l, v) EXCEPT !.node[n].prev = None, !.node[n].next = l.head, !.head = n]
    IN IF l.head # None THEN [l1 EXCEPT !.node[l.head].prev = n] ELSE [l1 EXCEPT !.tail = n]

dlist_push_back(l, v) ==
    LET n == l.free
        l1 == [Taken(l, v) EXCEPT !.node[n].next = None, !.node[n].prev = l.tail, !.tail = n]
    IN IF l.tail # None THEN [l1 EXCEPT !.node[l.tail].next = n] ELSE [l1 EXCEPT !.head = n]

dlist_pop_front(l) ==
    LET n == l.head
        h == l.node[n].next
        l1 == [l EXCEPT !.head = h]
    IN Given(IF h # None THEN [l1 EXCEPT !.node[h].prev = None] ELSE [l1 EXCEPT !.tail = None], n)

dlist_pop_back(l) ==
    LET n == l.tail
        t == l.node[n].prev
        l1 == [l EXCEPT !.tail = t]
    IN Given(IF t # None THEN [l1 EXCEPT !.node[t].next = None] ELSE [l1 EXCEPT !.head = None], n)

slist_push_front(l, v) ==
    LET n == l.free
        l1 == [Taken(l, v) EXCEPT !.node[n].next = l.head, !.head = n]
    IN IF l.tail = None THEN [l1 EXCEPT !.tail = n] ELSE l1

slist_push_back(l, v) ==
    LET n == l.free
        l1 == [Taken(l, v) EXCEPT !.node[n].next = None, !.tail = n]
    IN IF l.tail # None THEN [l1 EXCEPT !.node[l.tail].next = n] ELSE [l1 EXCEPT !.head = n]

slist_pop_front(l) ==
    LET n == l.head
        l1 == [l EXCEPT !.head = l.node[n].next]
    IN Given(IF l1.head = None THEN [l1 EXCEPT !.tail = None] ELSE l1, n)

RECURSIVE Before(_, _, _)
Before(l, p, n) == IF l.node[p].next = n THEN p ELSE Before(l, l.node[p].next, n)

slist_pop_back(l) ==
    LET n == l.tail
        p == Before(l, l.head, n)
    IN Given(IF l.head = l.tail THEN [l EXCEPT !.head = None, !.tail = None]
             ELSE [l EXCEPT !.node[p].next = None, !.tail = p], n)

\* The four list calls: a push needs a free node, a pop an element.
ListStep ==
    \/ \E v \in Vals :
         /\ con.free # None
         /\ \/ /\ con' = IF kind = "dlist" THEN dlist_push_front(con, v) ELSE slist_push_front(con, v)
               /\ ref' = <<v>> \o ref
            \/ /\ con' = IF kind = "dlist" THEN dlist_push_back(con, v) ELSE slist_push_back(con, v)
               /\ ref' = Append(ref, v)
    \/ /\ con.head # None
       /\ \/ /\ con' = IF kind = "dlist" THEN dlist_pop_front(con) ELSE slist_pop_front(con)
             /\ ref' = Tail(ref)
          \/ /\ con' = IF kind = "dlist" THEN dlist_pop_back(con) ELSE slist_pop_back(con)
             /\ ref' = Front(ref)
    \/ con' = list_clear /\ ref' = <<>>

RECURSIVE Links(_, _, _, _)
Links(l, n, link, left) ==
    IF n = None \/ left = 0 THEN <<>> ELSE <<n>> \o Links(l, l.node[n][link], link, left - 1)

ListMatches ==
    LET w == Links(con, con.head, "next", Cap + 1)
        f == Links(con, con.free, "next", Cap + 1)
    IN /\ [i \in DOMAIN w |-> con.node[w[i]].val] = ref
       /\ con.tail = IF w = <<>> THEN None ELSE Last(w)
       /\ kind = "dlist" => Links(con, con.tail, "prev", Cap + 1) = Reverse(w)
       /\ con.count = Len(ref) /\ Len(w) + Len(f) = Cap
       /\ ToSet(w) \cap ToSet(f) = {} /\ ToSet(w) \cup ToSet(f) = Idx

-----------------------------------------------------------------------------
\* ring_buffer.c (a push on a full buffer drops the oldest), fifo_queue.c (it is refused)
\* and stack.c.

rb_init == [slot |-> [i \in Idx |-> None], head |-> 0, tail |-> 0, count |-> 0]

rb_push(r, v) ==
    LET r1 == [r EXCEPT !.slot[r.head] = v, !.head = (@ + 1) % Cap]
    IN IF r.count = Cap THEN [r1 EXCEPT !.tail = (@ + 1) % Cap] ELSE [r1 EXCEPT !.count = @ + 1]

rb_pop(r) == [r EXCEPT !.tail = (@ + 1) % Cap, !.count = @ - 1]
rb_peek_at(r, o) == r.slot[(r.tail + o) % Cap]

RingStep ==
    \/ \E v \in Vals :
         /\ kind = "fifo" => con.count # Cap
         /\ con' = rb_push(con, v)
         /\ ref' = IF Len(ref) = Cap THEN Append(Tail(ref), v) ELSE Append(ref, v)
    \/ con.count # 0 /\ con' = rb_pop(con) /\ ref' = Tail(ref)
    \/ con' = [con EXCEPT !.head = 0, !.tail = 0, !.count = 0] /\ ref' = <<>>     \* rb_reset

RingMatches == con.count = Len(ref) /\ \A o \in 0 .. con.count - 1 : rb_peek_at(con, o) = ref[o + 1]

stack_push(s, v) == [s EXCEPT !.slot[s.top] = v, !.top = @ + 1]
stack_pop(s) == [s EXCEPT !.top = @ - 1]
stack_peek(s) == s.slot[s.top - 1]

StackStep ==
    \/ \E v \in Vals : con.top # Cap /\ con' = stack_push(con, v) /\ ref' = Append(ref, v)
    \/ con.top # 0 /\ con' = stack_pop(con) /\ ref' = Front(ref)
    \/ con' = [con EXCEPT !.top = 0] /\ ref' = <<>>

StackMatches == con.top = Len(ref) /\ (ref # <<>> => stack_peek(con) = Last(ref))

-----------------------------------------------------------------------------
\* bitset.c: words of WordBits bits, each the set of its 1 bits, and the rolling hint of
\* find_first_clear. The last word has bits beyond NBits.

NWords == (NBits + WordBits - 1) \div WordBits
Ones == 0 .. WordBits - 1
tail_mask == IF NBits % WordBits = 0 THEN Ones ELSE 0 .. (NBits % WordBits) - 1
Valid(w) == IF w = NWords - 1 THEN tail_mask ELSE Ones

bitset_clear_all == [words |-> [w \in 0 .. NWords - 1 |-> {}], hint |-> 0]
bitset_set_all(s) == [s EXCEPT !.words = [w \in 0 .. NWords - 1 |-> Valid(w)], !.hint = 0]
bitset_set(s, i) == [s EXCEPT !.words[i \div WordBits] = @ \cup {i % WordBits}]
bitset_clear(s, i) ==
    [s EXCEPT !.words[i \div WordBits] = @ \ {i % WordBits}, !.hint = Min({@, i \div WordBits})]
bitset_find_first_set(s) ==
    LET w == {x \in 0 .. NWords - 1 : s.words[x] # {}}
    IN IF w = {} THEN None ELSE Min(w) * WordBits + Min(s.words[Min(w)])

\* <<the index or None, the bitset>>: words from the hint on, then those before it.
bitset_find_first_clear(s) ==
    LET inv(w) == Valid(w) \ s.words[w]
        free == {w \in 0 .. NWords - 1 : inv(w) # {}}
        w == IF \E x \in free : x >= s.hint THEN Min({x \in free : x >= s.hint}) ELSE Min(free)
    IN IF free = {} THEN <<None, s>> ELSE <<w * WordBits + Min(inv(w)), [s EXCEPT !.hint = w]>>

BitsetStep ==
    \/ \E i \in 0 .. NBits - 1 :
         \/ con' = bitset_set(con, i) /\ ref' = ref \cup {i}
         \/ con' = bitset_clear(con, i) /\ ref' = ref \ {i}
    \/ LET r == bitset_find_first_clear(con)
       IN con' = r[2] /\ UNCHANGED ref
    \/ con' = bitset_clear_all /\ ref' = {}
    \/ con' = bitset_set_all(con) /\ ref' = 0 .. NBits - 1

\* Allocation through the bitset finds the lowest free index, wherever the hint is.
BitsetMatches ==
    /\ UNION {{w * WordBits + b : b \in con.words[w]} : w \in 0 .. NWords - 1} = ref
    /\ LET clear == (0 .. NBits - 1) \ ref
       IN bitset_find_first_clear(con)[1] = IF clear = {} THEN None ELSE Min(clear)
    /\ bitset_find_first_set(con) = IF ref = {} THEN None ELSE Min(ref)

-----------------------------------------------------------------------------
\* hashtable.c: chains of <<key, value>>. `ok` is what the allocator answers to the three
\* requests of an insert: bucket array, entry, key copy.

BucketOf(n, k) == Hash(k) % n
ht_create == [buckets |-> [b \in 0 .. InitBuckets - 1 |-> <<>>], n |-> InitBuckets, items |-> 0]
ht_find_slot(h, k) == {i \in DOMAIN h.buckets[BucketOf(h.n, k)] : h.buckets[BucketOf(h.n, k)][i][1] = k}
ht_get(h, k) == IF ht_find_slot(h, k) = {} THEN None
                ELSE h.buckets[BucketOf(h.n, k)][Min(ht_find_slot(h, k))][2]

\* Entries are pushed to the front of their new chain, old bucket by old bucket.
ht_resize(h, m) ==
    LET all == FlattenSeq([b \in 1 .. h.n |-> h.buckets[b - 1]])
    IN [h EXCEPT !.n = m,
                 !.buckets = [b \in 0 .. m - 1 |-> Reverse(SelectSeq(all, LAMBDA e : BucketOf(m, e[1]) = b))]]

ht_needs_grow(h) == (h.items + 1) * 4 > h.n * 3

\* <<the table, TRUE if 0 was returned>>.
ht_set(h, k, v, ok) ==
    LET b == BucketOf(h.n, k)
        grown == IF ht_needs_grow(h) THEN ht_resize(h, h.n * 2) ELSE h
        c == BucketOf(grown.n, k)
    IN CASE ht_find_slot(h, k) # {} -> <<[h EXCEPT !.buckets[b][Min(ht_find_slot(h, k))] = <<k, v>>], TRUE>>
         [] ht_find_slot(h, k) = {} /\ ht_needs_grow(h) /\ ~ok[1] -> <<h, FALSE>>
         [] ht_find_slot(h, k) = {} /\ (ok[1] \/ ~ht_needs_grow(h)) /\ ~(ok[2] /\ ok[3]) -> <<grown, FALSE>>
         [] OTHER -> <<[grown EXCEPT !.buckets[c] = <<<<k, v>>>> \o @, !.items = @ + 1], TRUE>>

ht_delete(h, k) ==
    LET b == BucketOf(h.n, k)
    IN IF ht_find_slot(h, k) = {} THEN h
       ELSE [h EXCEPT !.buckets[b] = RemoveAt(@, Min(ht_find_slot(h, k))), !.items = @ - 1]

HashStep ==
    \/ \E k \in HKeys, v \in Vals, ok \in [1 .. 3 -> BOOLEAN] :
         LET r == ht_set(con, k, v, ok)
         IN con' = r[1] /\ ref' = IF r[2] THEN [ref EXCEPT ![k] = v] ELSE ref
    \/ \E k \in HKeys : con' = ht_delete(con, k) /\ ref' = [ref EXCEPT ![k] = None]

HashMatches ==
    /\ \A k \in HKeys : ht_get(con, k) = ref[k] /\ Cardinality(ht_find_slot(con, k)) <= 1
    /\ con.items = Cardinality({k \in HKeys : ref[k] # None})
    /\ con.items * 4 <= con.n * 3
    /\ \A b \in DOMAIN con.buckets : \A e \in ToSet(con.buckets[b]) : BucketOf(con.n, e[1]) = b

-----------------------------------------------------------------------------
ConInit ==
    /\ kind \in Kinds
    /\ con = CASE kind \in {"dlist", "slist"} -> list_clear
               [] kind \in {"ring", "fifo"} -> rb_init
               [] kind = "stack" -> [slot |-> [i \in Idx |-> None], top |-> 0]
               [] kind = "bitset" -> bitset_clear_all
               [] kind = "hash" -> ht_create
    /\ ref = CASE kind = "bitset" -> {}
               [] kind = "hash" -> [k \in HKeys |-> None]
               [] OTHER -> <<>>

ConNext ==
    /\ UNCHANGED kind
    /\ \/ kind \in {"dlist", "slist"} /\ ListStep
       \/ kind \in {"ring", "fifo"} /\ RingStep
       \/ kind = "stack" /\ StackStep
       \/ kind = "bitset" /\ BitsetStep
       \/ kind = "hash" /\ HashStep

\* Each container holds what its calls put there and did not take out, in order, through
\* wrap-around, exhaustion of the pool, rehashing and allocation failures; its links, counts
\* and free list agree (dlist.c, slist.c, ring_buffer.c, stack.c, bitset.c, hashtable.c).
ContainersMatch ==
    CASE kind \in {"dlist", "slist"} -> ListMatches
      [] kind \in {"ring", "fifo"} -> RingMatches
      [] kind = "stack" -> StackMatches
      [] kind = "bitset" -> BitsetMatches
      [] kind = "hash" -> HashMatches

-----------------------------------------------------------------------------
(***************************************************************************)
(* The pool-backed search tree of avl_core.c with its two owners: Tree     *)
(* (tree.c: one root, BST or AVL discipline) and AvlHash (avlhash.c: one   *)
(* AVL root per bucket, all drawing nodes from one pool).                  *)
(*                                                                         *)
(* A Tree is the case of one bucket. A node is [left, right, parent, bal,  *)
(* key]; a free node's left is the free-list link and its other fields are *)
(* stale, as in the code.                                                  *)
(***************************************************************************)

CONSTANT
    Shapes         \* the owners checked: [disc |-> "AVL" or "BST", buckets |-> number of roots,
                   \* cap |-> nodes of the pool, keys |-> elements, ordered as integers]

VARIABLES
    tree,          \* [node, root, free, count, shape]
    held           \* ghost: the keys the calls so far should have left in it

treevars == <<tree, held>>

NIL == -1
NodesOf(t) == 0 .. t.shape.cap - 1
Buckets(t) == 0 .. t.shape.buckets - 1
bucket_of(t, k) == k % t.shape.buckets

L(t, i) == t.node[i].left
R(t, i) == t.node[i].right
P(t, i) == t.node[i].parent
B(t, i) == t.node[i].bal

SetL(t, i, v) == [t EXCEPT !.node[i].left = v]
SetR(t, i, v) == [t EXCEPT !.node[i].right = v]
SetP(t, i, v) == IF i = NIL THEN t ELSE [t EXCEPT !.node[i].parent = v]
SetB(t, i, v) == [t EXCEPT !.node[i].bal = v]

avl_core_build_freelist(t) ==
    [t EXCEPT !.free = IF t.shape.cap > 0 THEN 0 ELSE NIL,
              !.node = [i \in NodesOf(t) |-> [t.node[i] EXCEPT !.left = IF i + 1 < t.shape.cap THEN i + 1 ELSE NIL]]]

tree_clear(t) ==
    avl_core_build_freelist([t EXCEPT !.count = 0, !.root = [b \in Buckets(t) |-> NIL]])

-----------------------------------------------------------------------------
\* Search and walk.

RECURSIVE SearchDown(_, _, _)
SearchDown(t, cur, k) ==
    IF cur = NIL \/ t.node[cur].key = k THEN cur
    ELSE SearchDown(t, IF k < t.node[cur].key THEN L(t, cur) ELSE R(t, cur), k)

avl_core_find(t, b, k) == SearchDown(t, t.root[b], k)

RECURSIVE subtree_min(_, _)
subtree_min(t, n) == IF n = NIL \/ L(t, n) = NIL THEN n ELSE subtree_min(t, L(t, n))

RECURSIVE subtree_max(_, _)
subtree_max(t, n) == IF n = NIL \/ R(t, n) = NIL THEN n ELSE subtree_max(t, R(t, n))

\* Climb while the walk comes from the given side.
RECURSIVE ClimbRight(_, _, _)
ClimbRight(t, p, cur) == IF p = NIL \/ cur # R(t, p) THEN p ELSE ClimbRight(t, P(t, p), p)
RECURSIVE ClimbLeft(_, _, _)
ClimbLeft(t, p, cur) == IF p = NIL \/ cur # L(t, p) THEN p ELSE ClimbLeft(t, P(t, p), p)

avl_core_next(t, cur) ==
    IF R(t, cur) # NIL THEN subtree_min(t, R(t, cur)) ELSE ClimbRight(t, P(t, cur), cur)
avl_core_prev(t, cur) ==
    IF L(t, cur) # NIL THEN subtree_max(t, L(t, cur)) ELSE ClimbLeft(t, P(t, cur), cur)

-----------------------------------------------------------------------------
\* Rotations. balance(n) = height(right) - height(left).

replace_child(t, b, parent, old, neu) ==
    SetP(CASE parent = NIL -> [t EXCEPT !.root[b] = neu]
           [] parent # NIL /\ L(t, parent) = old -> SetL(t, parent, neu)
           [] OTHER -> SetR(t, parent, neu),
         neu, parent)

rotate_left(t, b, x) ==
    LET y == R(t, x)
        p == P(t, x)
        c == L(t, y)
        t1 == SetP(SetL(SetP(SetR(t, x, c), c, x), y, x), x, y)
        t2 == replace_child(t1, b, p, x, y)
        level == B(t, y) = 0
    IN SetB(SetB(t2, x, IF level THEN 1 ELSE 0), y, IF level THEN -1 ELSE 0)

rotate_right(t, b, x) ==
    LET y == L(t, x)
        p == P(t, x)
        c == R(t, y)
        t1 == SetP(SetR(SetP(SetL(t, x, c), c, x), y, x), x, y)
        t2 == replace_child(t1, b, p, x, y)
        level == B(t, y) = 0
    IN SetB(SetB(t2, x, IF level THEN -1 ELSE 0), y, IF level THEN 1 ELSE 0)

rotate_left_right(t, b, x) ==
    LET z == L(t, x)
        y == R(t, z)
        yb == B(t, y)
        t1 == rotate_right(rotate_left(t, b, z), b, x)
    IN SetB(SetB(SetB(t1, z, IF yb > 0 THEN -1 ELSE 0), x, IF yb < 0 THEN 1 ELSE 0), y, 0)

\* A mutant: the two cases of the middle node's balance are swapped.
rotate_right_left_Swapped(t, b, x) ==
    LET z == R(t, x)
        y == L(t, z)
        yb == B(t, y)
        t1 == rotate_left(rotate_right(t, b, z), b, x)
    IN SetB(SetB(SetB(t1, z, IF yb > 0 THEN 1 ELSE 0), x, IF yb < 0 THEN -1 ELSE 0), y, 0)

rotate_right_left(t, b, x) ==
    LET z == R(t, x)
        y == L(t, z)
        yb == B(t, y)
        t1 == rotate_left(rotate_right(t, b, z), b, x)
    IN SetB(SetB(SetB(t1, z, IF yb < 0 THEN 1 ELSE 0), x, IF yb > 0 THEN -1 ELSE 0), y, 0)

-----------------------------------------------------------------------------
\* Retracing. `side` is +1 when the right subtree of p changed, -1 for the left one.

RECURSIVE avl_retrace_insert(_, _, _)
avl_retrace_insert(t, b, child) ==
    LET p == P(t, child)
        side == IF child = R(t, p) THEN 1 ELSE -1
    IN CASE p = NIL -> t
         [] p # NIL /\ B(t, p) = side ->
              IF side = 1
              THEN IF B(t, child) < 0 THEN rotate_right_left(t, b, p) ELSE rotate_left(t, b, p)
              ELSE IF B(t, child) > 0 THEN rotate_left_right(t, b, p) ELSE rotate_right(t, b, p)
         [] p # NIL /\ B(t, p) = -side -> SetB(t, p, 0)
         [] p # NIL /\ B(t, p) = 0 -> avl_retrace_insert(SetB(t, p, side), b, p)

RECURSIVE avl_retrace_remove(_, _, _, _)
avl_retrace_remove(t, b, p, lost_left) ==
    IF p = NIL THEN t
    ELSE
    LET up == P(t, p)
        up_left == IF up # NIL THEN L(t, up) = p ELSE lost_left
        heavy == IF lost_left THEN 1 ELSE -1
        sib == IF lost_left THEN R(t, p) ELSE L(t, p)
        rotated == IF lost_left
                   THEN IF B(t, sib) < 0 THEN rotate_right_left(t, b, p) ELSE rotate_left(t, b, p)
                   ELSE IF B(t, sib) > 0 THEN rotate_left_right(t, b, p) ELSE rotate_right(t, b, p)
    IN CASE B(t, p) = heavy ->
              IF B(t, sib) = 0 THEN rotated ELSE avl_retrace_remove(rotated, b, up, up_left)
         [] B(t, p) = 0 -> SetB(t, p, heavy)
         [] B(t, p) = -heavy -> avl_retrace_remove(SetB(t, p, 0), b, up, up_left)

-----------------------------------------------------------------------------
\* Insert and remove: [t |-> the tree after, ok |-> the return value].

RECURSIVE LastOnPath(_, _, _, _)
LastOnPath(t, cur, parent, k) ==
    IF cur = NIL THEN parent
    ELSE LastOnPath(t, IF k < t.node[cur].key THEN L(t, cur) ELSE R(t, cur), cur, k)

avl_core_insert(t, b, k) ==
    LET n == t.free
        parent == LastOnPath(t, t.root[b], NIL, k)
        t1 == [t EXCEPT !.free = L(t, n), !.count = @ + 1,
                        !.node[n] = [left |-> NIL, right |-> NIL, parent |-> parent, bal |-> 0, key |-> k]]
        t2 == CASE parent = NIL -> [t1 EXCEPT !.root[b] = n]
                [] parent # NIL /\ k < t.node[parent].key -> SetL(t1, parent, n)
                [] OTHER -> SetR(t1, parent, n)
    IN CASE avl_core_find(t, b, k) # NIL -> [t |-> t, ok |-> FALSE]           \* set semantics
         [] avl_core_find(t, b, k) = NIL /\ n = NIL -> [t |-> t, ok |-> FALSE]  \* pool exhausted
         [] OTHER -> [t |-> IF t.shape.disc = "AVL" THEN avl_retrace_insert(t2, b, n) ELSE t2, ok |-> TRUE]

avl_core_remove(t, b, k) ==
    LET z == avl_core_find(t, b, k)
        two == L(t, z) # NIL /\ R(t, z) # NIL
        target == IF two THEN subtree_min(t, R(t, z)) ELSE z
        t1 == IF two THEN [t EXCEPT !.node[z].key = t.node[target].key] ELSE t
        child == IF L(t, target) # NIL THEN L(t, target) ELSE R(t, target)
        parent == P(t, target)
        lost_left == parent # NIL /\ L(t, parent) = target
        t2 == replace_child(t1, b, parent, target, child)
        t3 == IF t.shape.disc = "AVL" /\ parent # NIL THEN avl_retrace_remove(t2, b, parent, lost_left) ELSE t2
    IN IF z = NIL THEN [t |-> t, ok |-> FALSE]
       ELSE [t |-> [SetL(t3, target, t3.free) EXCEPT !.free = target, !.count = @ - 1], ok |-> TRUE]

-----------------------------------------------------------------------------
StaleNode == [left |-> NIL, right |-> NIL, parent |-> NIL, bal |-> 0, key |-> 0]

tree_init(s) ==
    tree_clear([shape |-> s, node |-> [i \in 0 .. s.cap - 1 |-> StaleNode],
                root |-> [b \in 0 .. s.buckets - 1 |-> NIL], free |-> NIL, count |-> 0])

TreeInit == held = {} /\ \E s \in Shapes : tree = tree_init(s)

tree_insert(k) ==
    LET r == avl_core_insert(tree, bucket_of(tree, k), k)
    IN tree' = r.t /\ held' = IF r.ok THEN held \cup {k} ELSE held

tree_remove(k) ==
    LET r == avl_core_remove(tree, bucket_of(tree, k), k)
    IN tree' = r.t /\ held' = IF r.ok THEN held \ {k} ELSE held

TreeClear == tree' = tree_clear(tree) /\ held' = {}

TreeNext == TreeClear \/ \E k \in tree.shape.keys : tree_insert(k) \/ tree_remove(k)

-----------------------------------------------------------------------------
RECURSIVE Height(_)
Height(n) == IF n = NIL THEN 0
             ELSE LET l == Height(L(tree, n)) r == Height(R(tree, n)) IN 1 + IF l > r THEN l ELSE r

\* Walks give up one node after the pool's size.
TooLong == tree.shape.cap + 1
RECURSIVE WalkFrom(_, _)
WalkFrom(n, left) == IF n = NIL \/ left = 0 THEN <<>>
                     ELSE <<n>> \o WalkFrom(avl_core_next(tree, n), left - 1)
RECURSIVE WalkBack(_, _)
WalkBack(n, left) == IF n = NIL \/ left = 0 THEN <<>>
                     ELSE <<n>> \o WalkBack(avl_core_prev(tree, n), left - 1)
RECURSIVE FreeList(_, _)
FreeList(n, left) == IF n = NIL \/ left = 0 THEN <<>> ELSE <<n>> \o FreeList(L(tree, n), left - 1)

Walk(b) == WalkFrom(subtree_min(tree, tree.root[b]), TooLong)
InTree == UNION {ToSet(Walk(b)) : b \in Buckets(tree)}

\* After any sequence of inserts, removes and clears (avl_core_insert, avl_core_remove,
\* tree_clear): each bucket's forward walk is strictly increasing and visits exactly the keys
\* the calls left in that bucket, the backward walk is its reverse, every stored balance is
\* the difference of the subtree heights and within one under the AVL discipline, and the
\* pool is the tree nodes and the free list, each node once.
TreeExact ==
    LET free == FreeList(tree.free, TooLong)
    IN /\ \A b \in Buckets(tree) :
            LET w == Walk(b) IN
            /\ {tree.node[w[i]].key : i \in DOMAIN w} = {k \in held : bucket_of(tree, k) = b}
            /\ \A i \in 1 .. Len(w) - 1 : tree.node[w[i]].key < tree.node[w[i + 1]].key
            /\ WalkBack(subtree_max(tree, tree.root[b]), TooLong) = Reverse(w)
       /\ tree.shape.disc = "AVL" => \A n \in InTree :
            /\ B(tree, n) = Height(R(tree, n)) - Height(L(tree, n))
            /\ B(tree, n) \in -1 .. 1
       /\ Cardinality(ToSet(free)) = Len(free)
       /\ InTree \cap ToSet(free) = {} /\ InTree \cup ToSet(free) = NodesOf(tree)
       /\ tree.count = Cardinality(held)

\* The tree with its nodes named by their keys: states that differ only in which pool slot
\* holds which key, in the order of the free list and in the stale fields of free nodes
\* behave alike.
TreeView ==
    LET key(n) == IF n = NIL THEN 0 ELSE tree.node[n].key
    IN <<held, tree.shape, tree.count, Len(FreeList(tree.free, TooLong)),
         {<<key(n), key(L(tree, n)), key(R(tree, n)), key(P(tree, n)), B(tree, n)>> : n \in InTree}>>
=============================================================================
