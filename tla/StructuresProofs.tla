-------------------------- MODULE StructuresProofs --------------------------
(***************************************************************************)
(* Proofs about SpscRing, for every capacity of at least two slots, about  *)
(* SlabHeap, for every number and size of bins, and about L2Heap, for      *)
(* every size of the region.                                               *)
(***************************************************************************)
EXTENDS SpscRing, SlabHeap, L2Heap, FiniteSetTheorems, WellFoundedInduction,
        NaturalsInduction, SequenceTheorems, TLAPS

\* What each side may rely on between two of its atomic accesses.
ProducerInv ==
    /\ ppc # "idle" => phead = head
    /\ ppc \in {"copy", "publish"} => Succ(head) # tail
    /\ ppc = "publish" => storage[head] = element

ConsumerInv ==
    /\ cpc \in {"loadHead", "copy", "retire"} => ctail = tail
    /\ cpc \in {"copy", "retire"} => head # tail
    /\ cpc = "retire" => out = storage[tail]
    /\ cpc = "empty" /\ chead # tail => head # tail

IInv ==
    /\ TypeOK
    /\ ProducerInv
    /\ ConsumerInv
    /\ RoomIsStable
    /\ DataIsStable

-----------------------------------------------------------------------------
\* The masked increment stays in the array and never stands still.
LEMMA SuccFacts ==
    /\ 0 \in Slot
    /\ \A i \in Slot : /\ Succ(i) \in Slot
                       /\ Succ(i) # i
                       /\ \A j \in Slot : Succ(i) = Succ(j) => i = j
BY CapacityAssumption DEF Succ, Slot

\* The ring starts consistent.
LEMMA InitIInv == Init => IInv
BY SuccFacts
DEF Init, IInv, TypeOK, ProducerInv, ConsumerInv, RoomIsStable, DataIsStable,
    Content

\* A step of the producer keeps the invariant: it only ever writes the slot
\* at head, which is not live.
LEMMA ProducerStep == IInv /\ Producer => IInv'
<1> SUFFICES ASSUME IInv, Producer PROVE IInv'
  OBVIOUS
<1> USE SuccFacts DEF IInv, pvars, cvars
<1>1. CASE \E e \in Element : PushLoadHead(e)
  BY <1>1 DEF PushLoadHead, TypeOK, ProducerInv, ConsumerInv, RoomIsStable, DataIsStable, Content
<1>2. CASE PushReject
  BY <1>2 DEF PushReject, TypeOK, ProducerInv, ConsumerInv, RoomIsStable, DataIsStable
<1>3. CASE PushAdmit
  BY <1>3 DEF PushAdmit, TypeOK, ProducerInv, ConsumerInv, RoomIsStable, DataIsStable
<1>4. CASE PushCopy
  BY <1>4 DEF PushCopy, TypeOK, ProducerInv, ConsumerInv, RoomIsStable, DataIsStable, Content
<1>5. CASE PushPublish
  BY <1>5 DEF PushPublish, TypeOK, ProducerInv, ConsumerInv, RoomIsStable, DataIsStable
<1>6. CASE FullLoadHead
  BY <1>6 DEF FullLoadHead, TypeOK, ProducerInv, ConsumerInv, RoomIsStable, DataIsStable
<1>7. CASE FullLoadTail
  BY <1>7 DEF FullLoadTail, TypeOK, ProducerInv, ConsumerInv, RoomIsStable, DataIsStable
<1> QED
  BY <1>1, <1>2, <1>3, <1>4, <1>5, <1>6, <1>7 DEF Producer

\* A step of the consumer keeps it: it only ever frees the slot at tail.
LEMMA ConsumerStep == IInv /\ Consumer => IInv'
<1> SUFFICES ASSUME IInv, Consumer PROVE IInv'
  OBVIOUS
<1> USE SuccFacts DEF IInv, pvars, cvars
<1>1. CASE PopLoadTail
  BY <1>1 DEF PopLoadTail, TypeOK, ProducerInv, ConsumerInv, RoomIsStable, DataIsStable
<1>2. CASE PopReject
  BY <1>2 DEF PopReject, TypeOK, ProducerInv, ConsumerInv, RoomIsStable, DataIsStable
<1>3. CASE PopAdmit
  BY <1>3 DEF PopAdmit, TypeOK, ProducerInv, ConsumerInv, RoomIsStable, DataIsStable
<1>4. CASE PopCopy
  BY <1>4 DEF PopCopy, TypeOK, ProducerInv, ConsumerInv, RoomIsStable, DataIsStable
<1>5. CASE PopRetire
  BY <1>5 DEF PopRetire, TypeOK, ProducerInv, ConsumerInv, RoomIsStable, DataIsStable
<1>6. CASE EmptyLoadHead
  BY <1>6 DEF EmptyLoadHead, TypeOK, ProducerInv, ConsumerInv, RoomIsStable, DataIsStable
<1>7. CASE EmptyLoadTail
  BY <1>7 DEF EmptyLoadTail, TypeOK, ProducerInv, ConsumerInv, RoomIsStable, DataIsStable
<1> QED
  BY <1>1, <1>2, <1>3, <1>4, <1>5, <1>6, <1>7 DEF Consumer

\* A reset empties the ring while both sides are idle.
LEMMA ResetStep == IInv /\ Reset => IInv'
BY SuccFacts
DEF IInv, Reset, pvars, cvars, TypeOK, ProducerInv, ConsumerInv, RoomIsStable,
    DataIsStable

\* IInv is inductive.
LEMMA NextIInv == IInv /\ [Next]_vars => IInv'
<1>1. IInv /\ UNCHANGED vars => IInv'
  BY DEF IInv, vars, pvars, cvars, TypeOK, ProducerInv, ConsumerInv,
         RoomIsStable, DataIsStable
<1> QED
  BY <1>1, ProducerStep, ConsumerStep, ResetStep DEF Next

\* The inductive invariant holds in every reachable state of the ring.
THEOREM Invariance == Spec => []IInv
BY InitIInv, NextIInv, PTL DEF Spec

\* Every variable keeps its type: no index leaves the storage array.
THEOREM TypeCorrect == Spec => []TypeOK
<1>1. IInv => TypeOK
  BY DEF IInv
<1> QED
  BY <1>1, Invariance, PTL

\* The producer's copy and the consumer's copy never meet in a slot.
THEOREM SlotsNeverRace == Spec => []NoSlotRace
<1>1. IInv => NoSlotRace
  BY DEF IInv, ProducerInv, ConsumerInv, NoSlotRace
<1> QED
  BY <1>1, Invariance, PTL

\* Room or data that one side has seen stays until that side uses it.
THEOREM ObservationsAreStable == Spec => [](RoomIsStable /\ DataIsStable)
<1>1. IInv => RoomIsStable /\ DataIsStable
  BY DEF IInv
<1> QED
  BY <1>1, Invariance, PTL

-----------------------------------------------------------------------------
(* The refinement *)

\* Index arithmetic: the live slots are distinct from the slot at head, a
\* publication of head adds one slot at the end, and one of tail removes
\* the first.
LEMMA SlotFacts ==
    ASSUME NEW h \in Slot, NEW t \in Slot
    PROVE  /\ Distance(h, t) \in 0 .. Capacity - 1
           /\ Distance(h, t) = 0 <=> h = t
           /\ Distance(h, t) = Capacity - 1 <=> Succ(h) = t
           /\ \A i \in 1 .. Distance(h, t) : SlotAt(t, i) \in Slot \ {h}
           /\ Succ(h) # t => /\ Distance(Succ(h), t) = Distance(h, t) + 1
                             /\ SlotAt(t, Distance(h, t) + 1) = h
           /\ h # t => /\ Distance(h, Succ(t)) = Distance(h, t) - 1
                       /\ SlotAt(t, 1) = t
                       /\ \A i \in 1 .. Distance(h, t) - 1 :
                             SlotAt(Succ(t), i) = SlotAt(t, i + 1)
BY CapacityAssumption DEF Slot, Distance, SlotAt, Succ

\* The queue is a sequence as long as the ring's count.
LEMMA QueueFacts ==
    ASSUME TypeOK
    PROVE  /\ Queue \in Seq(Content)
           /\ Len(Queue) = Distance(head, tail)
<1>1. /\ Distance(head, tail) \in Nat
      /\ \A i \in 1 .. Distance(head, tail) : SlotAt(tail, i) \in Slot
  BY SlotFacts, CapacityAssumption DEF TypeOK
<1>2. \A i \in 1 .. Distance(head, tail) : storage[SlotAt(tail, i)] \in Content
  BY <1>1 DEF TypeOK
<1> QED
  BY <1>1, <1>2 DEF Queue, spsc_ring_count

\* A step that moves no index and writes no live slot leaves the queue alone.
LEMMA QueueUnchanged ==
    ASSUME TypeOK, UNCHANGED <<head, tail>>,
           \A s \in Slot \ {head} : storage'[s] = storage[s]
    PROVE  Queue' = Queue
<1>1. \A i \in 1 .. Distance(head, tail) : SlotAt(tail, i) \in Slot \ {head}
  BY SlotFacts DEF TypeOK
<1>2. \A i \in 1 .. Distance(head, tail) :
        storage'[SlotAt(tail, i)] = storage[SlotAt(tail, i)]
  BY <1>1
<1>3. Queue' = [i \in 1 .. Distance(head, tail) |-> storage'[SlotAt(tail, i)]]
  BY DEF Queue, spsc_ring_count, SlotAt, Distance
<1> QED
  BY <1>2, <1>3 DEF Queue, spsc_ring_count

\* The store of head appends the copied element.
LEMMA PublishPushes == IInv /\ PushPublish => Fifo!Push(element)
<1> SUFFICES ASSUME IInv, PushPublish PROVE Fifo!Push(element)
  OBVIOUS
<1> DEFINE n == Distance(head, tail)
<1>1. /\ head \in Slot /\ tail \in Slot
      /\ Succ(head) # tail
      /\ head' = Succ(head)
      /\ storage[head] = element
      /\ UNCHANGED <<storage, tail, delivered>>
  BY DEF IInv, TypeOK, ProducerInv, PushPublish, cvars
<1>2. /\ n \in 0 .. Capacity - 1
      /\ n # Capacity - 1
      /\ Distance(Succ(head), tail) = n + 1
      /\ SlotAt(tail, n + 1) = head
  BY <1>1, SlotFacts
<1>3. Queue \in Seq(Content) /\ Len(Queue) = n
  BY QueueFacts DEF IInv
<1>4. Queue' = [i \in 1 .. n + 1 |-> storage[SlotAt(tail, i)]]
  BY <1>1, <1>2 DEF Queue, spsc_ring_count, SlotAt, Distance
<1>5. Queue' = Append(Queue, element)
  <2>1. \A i \in 1 .. n : Queue[i] = storage[SlotAt(tail, i)]
    BY DEF Queue, spsc_ring_count
  <2>2. element \in Content
    BY DEF IInv, TypeOK
  <2>3. Queue' \in Seq(Content) /\ Len(Queue') = n + 1
    <3>1. \A i \in 1 .. n : storage[SlotAt(tail, i)] \in Content
      BY <1>1, SlotFacts DEF IInv, TypeOK
    <3>2. \A i \in 1 .. n + 1 : storage[SlotAt(tail, i)] \in Content
      BY <1>1, <1>2, <2>2, <3>1
    <3> HIDE DEF n
    <3> QED
      BY <1>2, <1>4, <3>2
  <2>4. \A i \in 1 .. n + 1 : Queue'[i] = Append(Queue, element)[i]
    BY <1>1, <1>2, <1>3, <1>4, <2>1, <2>2, AppendProperties
  <2> HIDE DEF n
  <2> QED
    BY <1>2, <1>3, <2>2, <2>3, <2>4, AppendProperties, SeqEqual
<1>6. Len(Queue) < spsc_ring_capacity
  BY <1>2, <1>3, CapacityAssumption DEF spsc_ring_capacity
<1> QED
  BY <1>1, <1>4, <1>5, <1>6 DEF Fifo!Push

\* The store of tail removes the element that was copied out.
LEMMA RetirePops == IInv /\ PopRetire => Fifo!Pop
<1> SUFFICES ASSUME IInv, PopRetire PROVE Fifo!Pop
  OBVIOUS
<1> DEFINE n == Distance(head, tail)
<1>1. /\ head \in Slot /\ tail \in Slot
      /\ head # tail
      /\ tail' = Succ(tail)
      /\ delivered' = storage[tail]
      /\ UNCHANGED <<storage, head>>
  BY DEF IInv, TypeOK, ConsumerInv, PopRetire
<1>2. /\ n \in 1 .. Capacity - 1
      /\ Distance(head, Succ(tail)) = n - 1
      /\ SlotAt(tail, 1) = tail
      /\ \A i \in 1 .. n - 1 : SlotAt(Succ(tail), i) = SlotAt(tail, i + 1)
  BY <1>1, SlotFacts, CapacityAssumption
<1>3. Queue \in Seq(Content) /\ Len(Queue) = n
  BY QueueFacts DEF IInv
<1>4. \A i \in 1 .. n : Queue[i] = storage[SlotAt(tail, i)]
  BY DEF Queue, spsc_ring_count
<1>5. Queue' = [i \in 1 .. n - 1 |-> storage[SlotAt(tail, i + 1)]]
  <2>1. Queue' = [i \in 1 .. n - 1 |-> storage[SlotAt(Succ(tail), i)]]
    BY <1>1, <1>2 DEF Queue, spsc_ring_count, SlotAt, Distance
  <2> HIDE DEF n
  <2> QED
    BY <2>1, <1>2
<1> HIDE DEF n
<1>6. Queue # <<>> /\ Head(Queue) = storage[tail]
  BY <1>2, <1>3, <1>4
<1>7. /\ Tail(Queue) \in Seq(Content)
      /\ Len(Tail(Queue)) = n - 1
      /\ \A i \in 1 .. n - 1 : Tail(Queue)[i] = Queue[i + 1]
  BY <1>2, <1>3, <1>6, HeadTailProperties
<1>8. Tail(Queue) = Queue'
  <2>1. \A i \in 1 .. n - 1 : Queue[i + 1] = storage[SlotAt(tail, i + 1)]
    BY <1>2, <1>4
  <2>2. \A i \in 1 .. n - 1 : Queue[i + 1] \in Content
    BY <1>2, <1>3
  <2>3. Queue' \in Seq(Content) /\ Len(Queue') = n - 1
    BY <1>2, <1>5, <2>1, <2>2
  <2>4. \A i \in 1 .. n - 1 : Queue'[i] = Tail(Queue)[i]
    BY <1>5, <1>7, <2>1
  <2> QED
    BY <1>7, <2>3, <2>4, SeqEqual
<1> QED
  BY <1>1, <1>6, <1>8 DEF Fifo!Pop

\* Every step of the ring is a step of the queue or leaves it alone.
LEMMA StepRefines == IInv /\ [Next]_vars => [Fifo!Next]_(Fifo!vars)
<1> SUFFICES ASSUME IInv, [Next]_vars PROVE [Fifo!Next]_(Fifo!vars)
  OBVIOUS
<1> USE DEF IInv
<1>1. CASE PushPublish
  <2>1. element \in Element
    BY <1>1 DEF PushPublish, TypeOK
  <2> QED
    BY <1>1, <2>1, PublishPushes DEF Fifo!Next
<1>2. CASE PopRetire
  BY <1>2, RetirePops DEF Fifo!Next
<1>3. CASE PushCopy
  <2>1. \A s \in Slot \ {head} : storage'[s] = storage[s]
    BY <1>3 DEF PushCopy, TypeOK, ProducerInv
  <2>2. UNCHANGED <<head, tail, delivered>>
    BY <1>3 DEF PushCopy, cvars
  <2> QED
    BY <2>1, <2>2, QueueUnchanged DEF Fifo!vars
<1>4. CASE Reset
  <2>1. spsc_ring_count' = 0 /\ UNCHANGED delivered
    BY <1>4 DEF Reset, spsc_ring_count, Distance
  <2>2. Queue' = <<>>
    BY <2>1 DEF Queue
  <2> QED
    BY <2>1, <2>2 DEF Fifo!Next, Fifo!Clear
<1>5. CASE /\ UNCHANGED <<storage, head, tail, delivered>>
  BY <1>5, QueueUnchanged DEF Fifo!vars
<1>6. PushPublish \/ PopRetire \/ PushCopy \/ Reset
        \/ UNCHANGED <<storage, head, tail, delivered>>
  BY DEF Next, Producer, Consumer, vars, pvars, cvars, PushLoadHead, PushReject,
         PushAdmit, FullLoadHead, FullLoadTail, PopLoadTail, PopReject,
         PopAdmit, PopCopy, EmptyLoadHead, EmptyLoadTail
<1> QED
  BY <1>1, <1>2, <1>3, <1>4, <1>5, <1>6

\* spsc_ring implements the bounded FIFO for every capacity: elements leave
\* in the order they were published, once each, unchanged, and a push beyond
\* Capacity - 1 live elements never takes effect.
THEOREM RingImplementsFifo == Spec => ImplementsFifo
<1>1. Init => Fifo!Init
  <2> SUFFICES ASSUME Init PROVE Fifo!Init
    OBVIOUS
  <2>1. spsc_ring_count = 0
    BY DEF Init, spsc_ring_count, Distance
  <2>2. Queue = <<>>
    BY <2>1 DEF Queue
  <2> QED
    BY <2>2 DEF Init, Fifo!Init
<1> QED
  BY <1>1, StepRefines, Invariance, PTL DEF Spec, ImplementsFifo, Fifo!Spec

-----------------------------------------------------------------------------
\* The slab heap: sets of naturals and finite sets.
-----------------------------------------------------------------------------

\* A non-empty set of naturals has a least element.
LEMMA LeastNat ==
    ASSUME NEW S \in SUBSET Nat, S # {}
    PROVE  \E m \in S : \A k \in S : m <= k
<1> DEFINE Before == {ss \in Nat \X Nat : ss[1] < ss[2]}
<1>1. IsWellFoundedOn(Before, Nat)
  BY NatLessThanWellFounded DEF OpToRel
<1> HIDE DEF Before
<1>2. PICK m \in S : \A k \in S : ~(<<k, m>> \in Before)
  BY <1>1, WFMin
<1>3. ASSUME NEW k \in S
      PROVE  m <= k
  <2>1. <<k, m>> \in Nat \X Nat /\ ~(<<k, m>> \in Before)
    BY <1>2
  <2> QED
    BY <2>1 DEF Before
<1> QED
  BY <1>3

\* Induction over the naturals, about a set.
LEMMA SetOfAllNats ==
    ASSUME NEW Good \in SUBSET Nat, 0 \in Good, \A n \in Good : n + 1 \in Good
    PROVE  Good = Nat
<1> SUFFICES ASSUME Nat \ Good # {} PROVE FALSE
  OBVIOUS
<1>1. PICK m \in Nat \ Good : \A k \in Nat \ Good : m <= k
  BY LeastNat, Nat \ Good \in SUBSET Nat
<1>2. m # 0 /\ m - 1 \in Nat /\ m - 1 + 1 = m /\ ~(m <= m - 1)
  BY <1>1
<1>3. m - 1 \in Good
  BY <1>1, <1>2
<1> QED
  BY <1>1, <1>2, <1>3

\* Induction over the subsets of a finite set.
LEMMA SubsetInduction ==
    ASSUME NEW S, IsFiniteSet(S), NEW Good \in SUBSET (SUBSET S), {} \in Good,
           \A u \in SUBSET S : u # {} /\ (\A x \in u : u \ {x} \in Good) => u \in Good
    PROVE  \A u \in SUBSET S : u \in Good
<1> SUFFICES ASSUME NEW v \in SUBSET S, v \notin Good PROVE FALSE
  OBVIOUS
<1> DEFINE bad == {Cardinality(u) : u \in (SUBSET S) \ Good}
<1>1. ASSUME NEW u \in SUBSET S
      PROVE  IsFiniteSet(u) /\ Cardinality(u) \in Nat
  BY FS_Subset, FS_CardinalityType
<1>2. bad \in SUBSET Nat /\ bad # {}
  BY <1>1
<1>3. PICK m \in bad : \A k \in bad : m <= k
  BY <1>2, LeastNat
<1>4. PICK u \in (SUBSET S) \ Good : m = Cardinality(u)
  BY <1>3
<1>5. ASSUME NEW x \in u
      PROVE  u \ {x} \in Good
  <2>1. Cardinality(u \ {x}) = m - 1 /\ m \in Nat
    BY <1>1, <1>4, <1>5, FS_RemoveElement
  <2>2. u \ {x} \in SUBSET S /\ ~(m <= m - 1)
    BY <2>1
  <2> QED
    BY <1>3, <2>1, <2>2
<1>6. u # {}
  BY <1>4
<1> QED
  BY <1>4, <1>5, <1>6

\* The elements of a set in the order in which a fold takes them.
Pick(s) == CHOOSE x \in s : TRUE

LEMMA PickIn == ASSUME NEW s, s # {} PROVE Pick(s) \in s
  BY DEF Pick

IsFold(f, S, V, b, g) ==
    /\ f \in [SUBSET S -> V]
    /\ \A s \in SUBSET S : f[s] = IF s = {} THEN b ELSE g[<<Pick(s), f[s \ {Pick(s)}]>>]

LEMMA FoldExists ==
    ASSUME NEW S, IsFiniteSet(S), NEW V, NEW b \in V, NEW g \in [S \X V -> V]
    PROVE  \E f : IsFold(f, S, V, b, g)
<1> DEFINE Upto(n) == {s \in SUBSET S : Cardinality(s) <= n}
           Folds(f, n) == /\ f \in [Upto(n) -> V]
                          /\ \A s \in Upto(n) :
                                f[s] = IF s = {} THEN b ELSE g[<<Pick(s), f[s \ {Pick(s)}]>>]
           Good == {n \in Nat : \E f : Folds(f, n)}
<1>1. ASSUME NEW s \in SUBSET S, s # {}
      PROVE  /\ Pick(s) \in s /\ Pick(s) \in S /\ s \ {Pick(s)} \in SUBSET S
             /\ Cardinality(s) \in Nat /\ Cardinality(s \ {Pick(s)}) = Cardinality(s) - 1
             /\ Cardinality(s) # 0
  <2>1. IsFiniteSet(s) /\ Pick(s) \in s
    BY <1>1, PickIn, FS_Subset
  <2> QED
    BY <1>1, <2>1, FS_RemoveElement, FS_CardinalityType, FS_EmptySet
<1>2. Cardinality({}) = 0
  BY FS_EmptySet
<1>3. ASSUME NEW n \in Nat, NEW s \in Upto(n + 1), s # {}
      PROVE  s \ {Pick(s)} \in Upto(n)
  BY <1>1, <1>3
<1>4. ASSUME NEW n \in Nat, NEW s \in Upto(n), s # {}
      PROVE  s \ {Pick(s)} \in Upto(n)
  BY <1>1, <1>4
<1>5. ASSUME NEW n \in Nat
      PROVE  Upto(n) \subseteq Upto(n + 1)
  <2>1. ASSUME NEW s \in SUBSET S
        PROVE  Cardinality(s) \in Nat
    BY FS_Subset, FS_CardinalityType
  <2> QED
    BY <2>1
<1>6. 0 \in Good
  <2> DEFINE f == [s \in Upto(0) |-> b]
  <2>1. ASSUME NEW s \in Upto(0)
        PROVE  s = {}
    <3>1. s # {} => Cardinality(s) \in Nat /\ Cardinality(s) # 0
      BY <1>1
    <3> QED
      BY <3>1
  <2>2. Folds(f, 0)
    BY <2>1
  <2> QED
    BY <2>2
<1>7. ASSUME NEW n \in Good
      PROVE  n + 1 \in Good
  <2>1. PICK f : Folds(f, n)
    BY <1>7
  <2>2. n \in Nat
    BY <1>7
  <2> DEFINE h == [s \in Upto(n + 1) |-> IF s = {} THEN b ELSE g[<<Pick(s), f[s \ {Pick(s)}]>>]]
  <2> HIDE DEF Good
  <2>3. ASSUME NEW s \in Upto(n + 1), s # {}
        PROVE  s \ {Pick(s)} \in Upto(n) /\ Pick(s) \in S
    BY <1>1, <1>3, <2>2, <2>3
  <2>4. h \in [Upto(n + 1) -> V]
    <3>1. ASSUME NEW s \in Upto(n + 1), s # {}
          PROVE  g[<<Pick(s), f[s \ {Pick(s)}]>>] \in V
      <4>1. f[s \ {Pick(s)}] \in V
        BY <2>1, <2>3, <3>1
      <4> QED
        BY <2>3, <3>1, <4>1
    <3> QED
      BY <3>1
  <2>5. ASSUME NEW s \in Upto(n)
        PROVE  h[s] = f[s]
    BY <1>5, <2>1, <2>2, <2>5
  <2>6. ASSUME NEW s \in Upto(n + 1)
        PROVE  h[s] = IF s = {} THEN b ELSE g[<<Pick(s), h[s \ {Pick(s)}]>>]
    <3>1. CASE s = {}
      BY <2>6, <3>1
    <3>2. CASE s # {}
      <4>1. h[s \ {Pick(s)}] = f[s \ {Pick(s)}]
        BY <2>3, <2>5, <2>6, <3>2
      <4> QED
        BY <2>6, <3>2, <4>1
    <3> QED
      BY <3>1, <3>2
  <2> HIDE DEF h
  <2>7. Folds(h, n + 1)
    BY <2>4, <2>6
  <2> HIDE DEF Folds
  <2>8. \E x : Folds(x, n + 1)
    BY <2>7
  <2> QED
    BY <2>2, <2>8 DEF Good
<1>8. Good = Nat
  <2> HIDE DEF Good
  <2>1. Good \in SUBSET Nat
    BY DEF Good
  <2> QED
    BY <1>6, <1>7, <2>1, SetOfAllNats
<1>9. Cardinality(S) \in Nat
  BY FS_CardinalityType
<1>10. PICK f : Folds(f, Cardinality(S))
  BY <1>8, <1>9
<1>11. Upto(Cardinality(S)) = SUBSET S
  BY FS_Subset
<1>12. IsFold(f, S, V, b, g)
  BY <1>10, <1>11 DEF IsFold
<1> QED
  BY <1>12
\* Counting modulo a counter's range.
LEMMA ModUnique ==
    ASSUME NEW M \in Nat \ {0}, NEW a \in Int, NEW q \in Int, NEW r \in 0 .. M - 1, a = (M * q) + r
    PROVE  a % M = r
  BY SMTT(30)

LEMMA ModParts ==
    ASSUME NEW M \in Nat \ {0}, NEW a \in Int
    PROVE  /\ (a % M) \in 0 .. M - 1 /\ a \div M \in Int
           /\ a = (M * (a \div M)) + (a % M)
  BY SMTT(30)

LEMMA ModTurns ==
    ASSUME NEW M \in Nat \ {0}, NEW a \in Int, NEW k \in Int
    PROVE  (a + (M * k)) % M = a % M
<1> DEFINE q == a \div M
           r == a % M
<1>1. r \in 0 .. M - 1 /\ a = (M * q) + r /\ q \in Int
  BY ModParts
<1> HIDE DEF q, r
<1>2. a + (M * k) = (M * (q + k)) + r
  BY <1>1
<1>3. q + k \in Int /\ a + (M * k) \in Int
  BY <1>1
<1>4. (a + (M * k)) % M = r
  BY <1>1, <1>2, <1>3, ModUnique
<1> QED
  BY <1>4 DEF r

LEMMA ModShift ==
    ASSUME NEW M \in Nat \ {0}, NEW a \in Int, NEW b \in Int
    PROVE  /\ ((a % M) + b) % M = (a + b) % M
           /\ (b - (a % M)) % M = (b - a) % M
<1> DEFINE q == a \div M
           r == a % M
<1>1. r \in 0 .. M - 1 /\ a = (M * q) + r /\ q \in Int
  BY ModParts
<1> HIDE DEF q, r
<1>2. a + b = (r + b) + (M * q) /\ r + b \in Int
  BY <1>1
<1>3. b - r = (b - a) + (M * q) /\ b - a \in Int
  BY <1>1
<1>4. (r + b) % M = (a + b) % M
  BY <1>1, <1>2, ModTurns
<1>5. (b - r) % M = (b - a) % M
  BY <1>1, <1>3, ModTurns
<1> QED
  BY <1>4, <1>5 DEF r
-----------------------------------------------------------------------------
(* The slab allocator (slab_stack.c): sizes and bins. *)

LEMMA SlabConstants ==
    /\ SlabBits \in Nat /\ MinLog \in Nat /\ HeaderSize \in Nat
    /\ BinCount \in Nat \ {0} /\ SlabBins = 0 .. BinCount - 1 /\ IsFiniteSet(SlabBins)
    /\ \A i \in SlabBins : Bucket[i] \in Nat
<1>1. BinCount \in Nat
  BY SlabAssumption, FS_CardinalityType DEF BinCount, SlabBins
<1>2. SlabBins # {} /\ SlabBins = 0 .. BinCount - 1
  BY SlabAssumption DEF BinCount, SlabBins
<1>3. BinCount # 0
  BY <1>2
<1> QED
  BY <1>1, <1>2, <1>3, SlabAssumption DEF SlabBins

\* The powers of two that sizes are compared with.
LEMMA Powers ==
    /\ \A n \in 0 .. SlabBits + MinLog + BinCount : 2^n \in Nat \ {0}
    /\ \A m, n \in 0 .. SlabBits + MinLog + BinCount : m <= n => 2^m <= 2^n
  BY PowersAssumption DEF BinCount, SlabBins

LEMMA BinSizes == \A i \in SlabBins : BinSize(i) \in Nat \ {0}
<1> SUFFICES ASSUME NEW i \in SlabBins PROVE BinSize(i) \in Nat \ {0}
  OBVIOUS
<1>1. MinLog + i \in 0 .. SlabBits + MinLog + BinCount
  BY SlabConstants
<1> QED
  BY <1>1, Powers DEF BinSize

LEMMA BitLengthFacts ==
    ASSUME NEW v \in Nat, v < 2^SlabBits
    PROVE  /\ BitLength(v) \in 0 .. SlabBits /\ 2^BitLength(v) > v
           /\ \A m \in 0 .. BitLength(v) - 1 : 2^m <= v
<1> DEFINE above == {n \in 0 .. SlabBits : 2^n > v}
<1>1. above \in SUBSET Nat /\ SlabBits \in above
  BY SlabConstants
<1>2. PICK n \in above : \A k \in above : n <= k
  BY <1>1, LeastNat
<1>3. ASSUME NEW m \in 0 .. n - 1 PROVE 2^m <= v
  <2>1. m \in 0 .. SlabBits /\ m \notin above /\ m \in 0 .. SlabBits + MinLog + BinCount
    BY <1>2, SlabConstants
  <2>2. 2^m \in Nat /\ ~(2^m > v)
    BY <2>1, Powers
  <2> QED
    BY <2>2
<1>4. \E k \in 0 .. SlabBits : 2^k > v /\ \A m \in 0 .. k - 1 : 2^m <= v
  BY <1>2, <1>3
<1> QED
  BY <1>4 DEF BitLength

\* A block of the bin chosen holds what was asked for.
LEMMA BinIsLargeEnough ==
    ASSUME NEW n \in Nat, n > 0, n + HeaderSize <= 2^SlabBits, size_to_bin(n) < BinCount
    PROVE  size_to_bin(n) \in SlabBins /\ n <= BinSize(size_to_bin(n))
<1> DEFINE total == n + HeaderSize
           v == U32(total - 1)
           log == BitLength(v)
           bin == IF log < MinLog THEN 0 ELSE log - MinLog
<1>1. total \in Nat /\ total > 0 /\ total - 1 \in Nat /\ n <= total
  BY SlabConstants
<1>2. 2^SlabBits \in Nat \ {0} /\ 2^MinLog \in Nat \ {0}
  <2>1. SlabBits \in 0 .. SlabBits + MinLog + BinCount /\ MinLog \in 0 .. SlabBits + MinLog + BinCount
    BY SlabConstants
  <2> QED
    BY <2>1, Powers
<1>3. v = total - 1
  <2>1. total - 1 < 2^SlabBits
    BY <1>1, <1>2
  <2>2. \A M \in Nat \ {0} : total - 1 < M => (total - 1) % M = total - 1
    BY <1>1, SMTT(30)
  <2> QED
    BY <1>2, <2>1, <2>2 DEF U32
<1>4. v \in Nat /\ v < 2^SlabBits
  BY <1>1, <1>2, <1>3
<1> HIDE DEF v
<1>5. log \in 0 .. SlabBits /\ 2^log > v /\ \A m \in 0 .. log - 1 : 2^m <= v
  BY <1>4, BitLengthFacts
<1> HIDE DEF log
<1>6. size_to_bin(n) = CASE total <= 2^MinLog -> 0
                         [] total > 2^MinLog /\ bin >= BinCount -> BinCount
                         [] OTHER -> bin
  BY DEF size_to_bin, log, v
<1> HIDE DEF bin
<1>7. CASE total <= 2^MinLog
  <2>1. size_to_bin(n) = 0
    <3>1. ~(total > 2^MinLog)
      BY <1>1, <1>2, <1>7
    <3> QED
      BY <1>6, <1>7, <3>1
  <2>2. BinSize(0) = 2^MinLog /\ 0 \in SlabBins
    BY SlabConstants DEF BinSize
  <2> QED
    BY <1>1, <1>2, <1>7, <2>1, <2>2
<1>8. CASE total > 2^MinLog
  <2>1. ~(total <= 2^MinLog) /\ bin \in Int
    BY <1>1, <1>2, <1>5, <1>8, SlabConstants DEF bin
  <2>2. ~(bin >= BinCount) /\ size_to_bin(n) = bin
    BY <1>6, <1>8, <2>1, SlabConstants
  <2>3. log >= MinLog
    <3> SUFFICES ASSUME ~(log >= MinLog) PROVE FALSE
      OBVIOUS
    <3>1. log \in 0 .. SlabBits + MinLog + BinCount /\ MinLog \in 0 .. SlabBits + MinLog + BinCount /\ log <= MinLog
      BY <1>5, SlabConstants
    <3>2. 2^log <= 2^MinLog /\ 2^log \in Nat
      BY <3>1, Powers
    <3> QED
      BY <1>1, <1>2, <1>3, <1>5, <1>8, <3>2
  <2>4. bin = log - MinLog /\ MinLog + bin = log
    BY <1>5, <2>3, SlabConstants DEF bin
  <2>5. BinSize(bin) = 2^log /\ bin \in SlabBins
    BY <1>5, <2>1, <2>2, <2>3, <2>4, SlabConstants DEF BinSize
  <2>6. 2^log \in Nat
    <3>1. log \in 0 .. SlabBits + MinLog + BinCount
      BY <1>5, SlabConstants
    <3> QED
      BY <3>1, Powers
  <2> QED
    BY <1>1, <1>3, <1>5, <2>2, <2>5, <2>6
<1> QED
  BY <1>1, <1>2, <1>7, <1>8

-----------------------------------------------------------------------------
(* Blocks, and the bytes of a set of blocks. *)

LEMMA BlockFacts ==
    /\ IsFiniteSet(Block)
    /\ \A b \in Block : b[1] \in SlabBins /\ b # <<>>
    /\ \A i \in SlabBins : \A k \in 0 .. Bucket[i] - 1 : <<i, k>> \in Block
    /\ \A b \in Block : b[2] \in 0 .. Bucket[b[1]] - 1 /\ b = <<b[1], b[2]>>
<1>1. \A i \in SlabBins : IsFiniteSet({i} \X (0 .. Bucket[i] - 1))
  <2> SUFFICES ASSUME NEW i \in SlabBins PROVE IsFiniteSet({i} \X (0 .. Bucket[i] - 1))
    OBVIOUS
  <2>1. IsFiniteSet({i}) /\ IsFiniteSet(0 .. Bucket[i] - 1)
    <3>1. Bucket[i] - 1 \in Int
      BY SlabConstants
    <3>2. IsFiniteSet({i})
      BY FS_Singleton
    <3>3. IsFiniteSet(0 .. Bucket[i] - 1)
      BY <3>1, FS_Interval
    <3> QED
      BY <3>2, <3>3
  <2> QED
    BY <2>1, FS_Product
<1>2. IsFiniteSet(Block)
  <2> DEFINE parts == {{i} \X (0 .. Bucket[i] - 1) : i \in SlabBins}
  <2>1. IsFiniteSet(parts)
    <3> DEFINE f == [i \in SlabBins |-> {i} \X (0 .. Bucket[i] - 1)]
    <3>1. f \in Surjection(SlabBins, parts)
      BY DEF Surjection
    <3> QED
      BY <3>1, SlabConstants, FS_Surjection DEF ExistsSurjection
  <2>2. \A T \in parts : IsFiniteSet(T)
    BY <1>1
  <2>3. IsFiniteSet(UNION parts)
    BY <2>1, <2>2, FS_UNION
  <2> QED
    BY <2>3 DEF Block
<1> QED
  BY <1>2 DEF Block

SizeFold(S, f) == f = [s \in SUBSET S |-> IF s = {} THEN 0 ELSE BinSize(Pick(s)[1]) + f[s \ {Pick(s)}]]

Bytes(S) == MapThenSumSet(LAMBDA b : BinSize(b[1]), S)

LEMMA BytesUnfolds == ASSUME NEW S PROVE Bytes(S) = (CHOOSE f : SizeFold(S, f))[S]
  BY DEF Bytes, MapThenSumSet, MapThenFoldSet, SizeFold, Pick

LEMMA SizeFoldExists ==
    ASSUME NEW S \in SUBSET Block
    PROVE  \E f \in [SUBSET S -> Nat] : SizeFold(S, f)
<1> DEFINE g == [x \in S \X Nat |-> BinSize(x[1][1]) + x[2]]
<1>1. g \in [S \X Nat -> Nat]
  BY BlockFacts, BinSizes
<1>2. \A b \in S : \A k \in Nat : g[<<b, k>>] = BinSize(b[1]) + k
  OBVIOUS
<1> HIDE DEF g
<1>3. IsFiniteSet(S)
  BY BlockFacts, FS_Subset
<1>4. PICK f : IsFold(f, S, Nat, 0, g)
  BY <1>1, <1>3, FoldExists
<1>5. f \in [SUBSET S -> Nat]
  BY <1>4 DEF IsFold
<1>6. ASSUME NEW s \in SUBSET S, s # {} PROVE f[s] = BinSize(Pick(s)[1]) + f[s \ {Pick(s)}]
  <2>1. Pick(s) \in S /\ s \ {Pick(s)} \in SUBSET S
    BY <1>6, PickIn
  <2>2. f[s \ {Pick(s)}] \in Nat
    BY <1>5, <2>1
  <2> QED
    BY <1>2, <1>4, <1>6, <2>1, <2>2 DEF IsFold
<1>7. f[{}] = 0
  BY <1>4 DEF IsFold
<1> QED
  BY <1>5, <1>6, <1>7 DEF SizeFold

\* The order in which the blocks are added up does not matter.
LEMMA AnyOrder ==
    ASSUME NEW S \in SUBSET Block, NEW f \in [SUBSET S -> Nat], SizeFold(S, f), NEW b \in S
    PROVE  \A s \in SUBSET S : b \in s => f[s] = BinSize(b[1]) + f[s \ {b}]
<1> DEFINE Good == {s \in SUBSET S : \A c \in s : f[s] = BinSize(c[1]) + f[s \ {c}]}
<1>1. {} \in Good /\ Good \in SUBSET (SUBSET S)
  OBVIOUS
<1>2. ASSUME NEW s \in SUBSET S, s # {}, \A c \in s : s \ {c} \in Good
      PROVE  s \in Good
  <2> SUFFICES ASSUME NEW c \in s PROVE f[s] = BinSize(c[1]) + f[s \ {c}]
    OBVIOUS
  <2>1. PICK p : p = Pick(s)
    OBVIOUS
  <2>2. p \in s /\ f[s] = BinSize(p[1]) + f[s \ {p}]
    BY <1>2, <2>1, PickIn DEF SizeFold
  <2>3. CASE c = p
    BY <2>2, <2>3
  <2>4. CASE c # p
    <3>1. f[s \ {p}] = BinSize(c[1]) + f[(s \ {p}) \ {c}]
      BY <1>2, <2>2, <2>4
    <3>2. f[s \ {c}] = BinSize(p[1]) + f[(s \ {c}) \ {p}]
      BY <1>2, <2>2, <2>4
    <3>3. (s \ {p}) \ {c} = (s \ {c}) \ {p} /\ (s \ {c}) \ {p} \in SUBSET S
      OBVIOUS
    <3>4. BinSize(c[1]) \in Nat /\ BinSize(p[1]) \in Nat /\ f[(s \ {c}) \ {p}] \in Nat
      BY <2>2, <3>3, BlockFacts, BinSizes
    <3>5. PICK x, y, z \in Nat : x = f[(s \ {c}) \ {p}] /\ y = BinSize(c[1]) /\ z = BinSize(p[1])
      BY <3>4
    <3>6. f[s] = z + (y + x) /\ f[s \ {c}] = z + x
      BY <2>2, <3>1, <3>2, <3>3, <3>5
    <3> QED
      BY <3>5, <3>6
  <2> QED
    BY <2>3, <2>4
<1> HIDE DEF Good
<1>3. IsFiniteSet(S)
  BY BlockFacts, FS_Subset
<1>4. \A s \in SUBSET S : s \in Good
  BY <1>1, <1>2, <1>3, SubsetInduction
<1> QED
  BY <1>4 DEF Good

\* Folds over a set and over a part of it agree on the part.
LEMMA SameFold ==
    ASSUME NEW S \in SUBSET Block, NEW T \in SUBSET S, NEW f, SizeFold(S, f), NEW g, SizeFold(T, g)
    PROVE  \A s \in SUBSET T : f[s] = g[s]
<1> DEFINE Good == {s \in SUBSET T : f[s] = g[s]}
<1>1. {} \in Good /\ Good \in SUBSET (SUBSET T)
  BY DEF SizeFold
<1>2. ASSUME NEW s \in SUBSET T, s # {}, \A c \in s : s \ {c} \in Good
      PROVE  s \in Good
  <2>1. Pick(s) \in s /\ s \in SUBSET S
    BY <1>2, PickIn
  <2>2. f[s \ {Pick(s)}] = g[s \ {Pick(s)}]
    BY <1>2, <2>1
  <2>3. f[s] = BinSize(Pick(s)[1]) + f[s \ {Pick(s)}]
    BY <1>2, <2>1 DEF SizeFold
  <2>4. g[s] = BinSize(Pick(s)[1]) + g[s \ {Pick(s)}]
    BY <1>2, <2>1 DEF SizeFold
  <2> QED
    BY <2>2, <2>3, <2>4
<1> HIDE DEF Good
<1>3. IsFiniteSet(T)
  BY BlockFacts, FS_Subset
<1>4. \A s \in SUBSET T : s \in Good
  BY <1>1, <1>2, <1>3, SubsetInduction
<1> QED
  BY <1>4 DEF Good

LEMMA BytesFacts ==
    /\ Bytes({}) = 0
    /\ \A S \in SUBSET Block : Bytes(S) \in Nat
    /\ \A S \in SUBSET Block : \A b \in S : Bytes(S) = BinSize(b[1]) + Bytes(S \ {b})
<1>1. ASSUME NEW S \in SUBSET Block
      PROVE  \E f \in [SUBSET S -> Nat] : SizeFold(S, f) /\ Bytes(S) = f[S]
  <2>1. PICK f : f = CHOOSE x : SizeFold(S, x)
    OBVIOUS
  <2>2. SizeFold(S, f)
    BY <2>1, SizeFoldExists
  <2>3. PICK g \in [SUBSET S -> Nat] : SizeFold(S, g)
    BY SizeFoldExists
  <2>4. \A s \in SUBSET S : f[s] = g[s]
    BY <2>2, <2>3, SameFold
  <2> QED
    BY <2>1, <2>3, <2>4, BytesUnfolds
<1>2. Bytes({}) = 0
  <2>1. PICK f \in [SUBSET {} -> Nat] : SizeFold({}, f) /\ Bytes({}) = f[{}]
    BY <1>1, {} \in SUBSET Block
  <2> QED
    BY <2>1 DEF SizeFold
<1>3. ASSUME NEW S \in SUBSET Block, NEW b \in S
      PROVE  Bytes(S) = BinSize(b[1]) + Bytes(S \ {b})
  <2>1. PICK f \in [SUBSET S -> Nat] : SizeFold(S, f) /\ Bytes(S) = f[S]
    BY <1>1
  <2>2. S \ {b} \in SUBSET Block /\ S \ {b} \in SUBSET S
    OBVIOUS
  <2>3. PICK g \in [SUBSET (S \ {b}) -> Nat] : SizeFold(S \ {b}, g) /\ Bytes(S \ {b}) = g[S \ {b}]
    BY <1>1, <2>2
  <2>4. f[S \ {b}] = g[S \ {b}]
    BY <2>1, <2>2, <2>3, SameFold
  <2>5. f[S] = BinSize(b[1]) + f[S \ {b}]
    <3>1. \A s \in SUBSET S : b \in s => f[s] = BinSize(b[1]) + f[s \ {b}]
      BY <2>1, AnyOrder
    <3> QED
      BY <3>1
  <2> QED
    BY <2>1, <2>3, <2>4, <2>5
<1>4. ASSUME NEW S \in SUBSET Block PROVE Bytes(S) \in Nat
  <2>1. PICK f \in [SUBSET S -> Nat] : Bytes(S) = f[S]
    BY <1>1
  <2> QED
    BY <2>1
<1> QED
  BY <1>2, <1>3, <1>4

-----------------------------------------------------------------------------
(* The free stacks. *)

\* The blocks of a bin among those that callers hold.
OfBin(held, i) == {b \in held : b[1] = i}

StackOK(st, i, held) ==
    /\ \A k, l \in 1 .. Len(st) : st[k] = st[l] => k = l
    /\ \A k \in 1 .. Len(st) : st[k] \in Block /\ st[k][1] = i /\ st[k] \notin held
    /\ \A b \in Block : b[1] = i /\ b \notin held => \E k \in 1 .. Len(st) : st[k] = b
    /\ Len(st) = Bucket[i] - Cardinality(OfBin(held, i))

LEMMA OfBinFacts ==
    ASSUME NEW held \in SUBSET Block, NEW i
    PROVE  /\ IsFiniteSet(OfBin(held, i)) /\ Cardinality(OfBin(held, i)) \in Nat
           /\ IsFiniteSet(held) /\ Cardinality(held) \in Nat
<1>1. IsFiniteSet(held) /\ OfBin(held, i) \in SUBSET held
  BY BlockFacts, FS_Subset DEF OfBin
<1> QED
  BY <1>1, FS_Subset, FS_CardinalityType

LEMMA HeldGrows ==
    ASSUME NEW held \in SUBSET Block, NEW b \in Block \ held, NEW i
    PROVE  /\ Cardinality(OfBin(held \cup {b}, i)) = Cardinality(OfBin(held, i)) + (IF b[1] = i THEN 1 ELSE 0)
           /\ Cardinality(held \cup {b}) = Cardinality(held) + 1
<1>1. /\ IsFiniteSet(OfBin(held, i)) /\ b \notin OfBin(held, i)
      /\ Cardinality(OfBin(held, i)) \in Nat
  BY OfBinFacts DEF OfBin
<1>2. CASE b[1] = i
  <2>1. OfBin(held \cup {b}, i) = OfBin(held, i) \cup {b}
    BY <1>2 DEF OfBin
  <2> QED
    BY <1>1, <1>2, <2>1, FS_AddElement, OfBinFacts
<1>3. CASE b[1] # i
  <2>1. OfBin(held \cup {b}, i) = OfBin(held, i)
    BY <1>3 DEF OfBin
  <2> QED
    BY <1>1, <1>3, <2>1, FS_AddElement, OfBinFacts
<1> QED
  BY <1>2, <1>3

LEMMA HeldShrinks ==
    ASSUME NEW held \in SUBSET Block, NEW b \in held, NEW i
    PROVE  /\ Cardinality(OfBin(held \ {b}, i)) = Cardinality(OfBin(held, i)) - (IF b[1] = i THEN 1 ELSE 0)
           /\ Cardinality(held \ {b}) = Cardinality(held) - 1
<1>1. held \ {b} \in SUBSET Block /\ b \in Block \ (held \ {b}) /\ (held \ {b}) \cup {b} = held
  OBVIOUS
<1>2. /\ Cardinality(OfBin((held \ {b}) \cup {b}, i)) = Cardinality(OfBin(held \ {b}, i)) + (IF b[1] = i THEN 1 ELSE 0)
      /\ Cardinality((held \ {b}) \cup {b}) = Cardinality(held \ {b}) + 1
  BY <1>1, HeldGrows
<1>3. Cardinality(OfBin(held \ {b}, i)) \in Nat /\ Cardinality(held \ {b}) \in Nat
  BY <1>1, OfBinFacts
<1> QED
  BY <1>1, <1>2, <1>3

LEMMA PopStack ==
    ASSUME NEW held \in SUBSET Block, NEW i \in SlabBins, NEW st \in Seq(Block), StackOK(st, i, held), st # <<>>,
           NEW b, b = Last(st)
    PROVE  /\ b \in Block \ held /\ b[1] = i
           /\ Front(st) \in Seq(Block) /\ StackOK(Front(st), i, held \cup {b})
           /\ Cardinality(OfBin(held, i)) < Bucket[i]
<1>1. /\ Len(st) \in Nat \ {0} /\ b = st[Len(st)] /\ Len(st) \in 1 .. Len(st)
      /\ \A k \in 1 .. Len(st) : st[k] \in Block
  BY DEF Last
<1>2. b \in Block \ held /\ b[1] = i
  BY <1>1 DEF StackOK
<1>3. PICK fr : fr = Front(st)
  OBVIOUS
<1>4. fr \in Seq(Block) /\ Len(fr) = Len(st) - 1 /\ \A k \in 1 .. Len(fr) : fr[k] = st[k]
  <2>1. PICK n : n = Len(st) - 1
    OBVIOUS
  <2>2. n \in Nat /\ n <= Len(st) /\ fr = SubSeq(st, 1, n)
    BY <1>1, <1>3, <2>1 DEF Front
  <2>3. fr = [k \in 1 .. n |-> st[k]]
    BY <2>2
  <2>4. \A k \in 1 .. n : st[k] \in Block
    BY <1>1, <2>2
  <2> QED
    BY <2>1, <2>2, <2>3, <2>4
<1>5. Cardinality(OfBin(held \cup {b}, i)) = Cardinality(OfBin(held, i)) + 1
  BY <1>2, HeldGrows
<1>6. Len(st) = Bucket[i] - Cardinality(OfBin(held, i)) /\ Bucket[i] \in Nat /\ Cardinality(OfBin(held, i)) \in Nat
  BY SlabConstants, OfBinFacts DEF StackOK
<1>7. \A k, l \in 1 .. Len(fr) : fr[k] = fr[l] => k = l
  BY <1>1, <1>4 DEF StackOK
<1>8. \A k \in 1 .. Len(fr) : fr[k] \in Block /\ fr[k][1] = i /\ fr[k] \notin held \cup {b}
  <2> SUFFICES ASSUME NEW k \in 1 .. Len(fr) PROVE fr[k] \in Block /\ fr[k][1] = i /\ fr[k] \notin held \cup {b}
    OBVIOUS
  <2>1. k \in 1 .. Len(st) /\ k # Len(st) /\ fr[k] = st[k]
    BY <1>1, <1>4
  <2>2. st[k] # b
    BY <1>1, <2>1 DEF StackOK
  <2> QED
    BY <2>1, <2>2 DEF StackOK
<1>9. ASSUME NEW c \in Block, c[1] = i, c \notin held \cup {b}
      PROVE  \E k \in 1 .. Len(fr) : fr[k] = c
  <2>1. PICK k \in 1 .. Len(st) : st[k] = c
    BY <1>9 DEF StackOK
  <2>2. k # Len(st)
    BY <1>1, <1>9, <2>1
  <2>3. k \in 1 .. Len(fr) /\ fr[k] = c
    BY <1>1, <1>4, <2>1, <2>2
  <2> QED
    BY <2>3
<1>10. Len(fr) = Bucket[i] - Cardinality(OfBin(held \cup {b}, i))
  BY <1>1, <1>4, <1>5, <1>6
<1>11. StackOK(fr, i, held \cup {b})
  BY <1>7, <1>8, <1>9, <1>10 DEF StackOK
<1> QED
  BY <1>1, <1>2, <1>3, <1>4, <1>6, <1>11

LEMMA PushStack ==
    ASSUME NEW held \in SUBSET Block, NEW i \in SlabBins, NEW st \in Seq(Block), StackOK(st, i, held),
           NEW b \in held, b[1] = i
    PROVE  /\ Append(st, b) \in Seq(Block) /\ StackOK(Append(st, b), i, held \ {b})
           /\ Len(st) < Bucket[i] /\ Append(st, b) # <<>> /\ Cardinality(OfBin(held, i)) > 0
<1>1. Len(st) \in Nat /\ \A k \in 1 .. Len(st) : st[k] \in Block
  OBVIOUS
<1>2. PICK ap : ap = Append(st, b)
  OBVIOUS
<1>3. /\ ap \in Seq(Block) /\ Len(ap) = Len(st) + 1 /\ ap # <<>>
      /\ \A k \in 1 .. Len(ap) : ap[k] = IF k = Len(ap) THEN b ELSE st[k]
  BY <1>1, <1>2
<1>4. Cardinality(OfBin(held \ {b}, i)) = Cardinality(OfBin(held, i)) - 1
  BY HeldShrinks
<1>5. /\ Len(st) = Bucket[i] - Cardinality(OfBin(held, i)) /\ Bucket[i] \in Nat
      /\ Cardinality(OfBin(held, i)) \in Nat /\ Cardinality(OfBin(held \ {b}, i)) \in Nat
  <2>1. held \ {b} \in SUBSET Block
    OBVIOUS
  <2> QED
    BY <2>1, SlabConstants, OfBinFacts DEF StackOK
<1>6. \A k \in 1 .. Len(st) : st[k] # b
  BY DEF StackOK
<1> DEFINE n == Len(ap)
<1>12. n \in Nat /\ ap[n] = b /\ \A k \in 1 .. n : k # n => k \in 1 .. Len(st) /\ ap[k] = st[k]
  BY <1>1, <1>3
<1>13. /\ \A k, l \in 1 .. Len(st) : st[k] = st[l] => k = l
       /\ \A k \in 1 .. Len(st) : st[k] \in Block /\ st[k][1] = i /\ st[k] \notin held
  BY DEF StackOK
<1>7. \A k, l \in 1 .. Len(ap) : ap[k] = ap[l] => k = l
  <2> SUFFICES ASSUME NEW k \in 1 .. n, NEW l \in 1 .. n, ap[k] = ap[l] PROVE k = l
    OBVIOUS
  <2> HIDE DEF n
  <2>1. CASE k # n /\ l # n
    <3>1. st[k] = st[l] /\ k \in 1 .. Len(st) /\ l \in 1 .. Len(st)
      BY <1>12, <2>1
    <3> QED
      BY <1>13, <3>1
  <2>2. CASE k = n /\ l # n
    BY <1>6, <1>12, <2>2
  <2>3. CASE k # n /\ l = n
    BY <1>6, <1>12, <2>3
  <2> QED
    BY <2>1, <2>2, <2>3
<1>8. \A k \in 1 .. Len(ap) : ap[k] \in Block /\ ap[k][1] = i /\ ap[k] \notin held \ {b}
  <2> SUFFICES ASSUME NEW k \in 1 .. n PROVE ap[k] \in Block /\ ap[k][1] = i /\ ap[k] \notin held \ {b}
    OBVIOUS
  <2> HIDE DEF n
  <2>1. CASE k = n
    BY <1>12, <2>1
  <2>2. CASE k # n
    BY <1>12, <1>13, <2>2
  <2> QED
    BY <2>1, <2>2
<1>9. ASSUME NEW c \in Block, c[1] = i, c \notin held \ {b}
      PROVE  \E k \in 1 .. Len(ap) : ap[k] = c
  <2>1. CASE c = b
    <3>1. Len(ap) \in 1 .. Len(ap) /\ ap[Len(ap)] = c
      BY <1>1, <1>3, <2>1
    <3> QED
      BY <3>1
  <2>2. CASE c # b
    <3>1. PICK k \in 1 .. Len(st) : st[k] = c
      BY <1>9, <2>2 DEF StackOK
    <3>2. k \in 1 .. Len(ap) /\ ap[k] = c
      BY <1>1, <1>3, <3>1
    <3> QED
      BY <3>2
  <2> QED
    BY <2>1, <2>2
<1>10. Len(ap) = Bucket[i] - Cardinality(OfBin(held \ {b}, i))
  BY <1>1, <1>3, <1>4, <1>5
<1>11. StackOK(ap, i, held \ {b})
  BY <1>7, <1>8, <1>9, <1>10 DEF StackOK
<1> QED
  BY <1>2, <1>3, <1>4, <1>5, <1>11

\* The stacks of the other bins do not notice.
LEMMA OtherStacks ==
    ASSUME NEW held \in SUBSET Block, NEW i, NEW st, StackOK(st, i, held), NEW b \in Block, b[1] # i
    PROVE  /\ StackOK(st, i, held \cup {b}) /\ StackOK(st, i, held \ {b})
           /\ OfBin(held \cup {b}, i) = OfBin(held, i) /\ OfBin(held \ {b}, i) = OfBin(held, i)
<1>1. OfBin(held \cup {b}, i) = OfBin(held, i) /\ OfBin(held \ {b}, i) = OfBin(held, i)
  BY DEF OfBin
<1>2. StackOK(st, i, held \cup {b})
  BY <1>1 DEF StackOK
<1>3. StackOK(st, i, held \ {b})
  BY <1>1 DEF StackOK
<1> QED
  BY <1>1, <1>2, <1>3

-----------------------------------------------------------------------------
(* The allocator as a whole: a and the blocks that callers hold. *)

SlabFields == {"stack", "bitmap", "magic", "blocks_in_use", "peak_in_use", "total_bytes_in_use",
               "peak_bytes_in_use", "alloc_count", "free_count"}

SlabTypes(a) ==
    /\ DOMAIN a = SlabFields /\ a = [f \in SlabFields |-> a[f]]
    /\ a.stack \in [SlabBins -> Seq(Block)] /\ a.bitmap \in SUBSET SlabBins
    /\ a.magic \in [Block -> {"freed", "allocated"}]
    /\ a.blocks_in_use \in [SlabBins -> Nat] /\ a.peak_in_use \in [SlabBins -> Nat]
    /\ a.total_bytes_in_use \in Nat /\ a.peak_bytes_in_use \in Nat
    /\ a.alloc_count \in Nat /\ a.free_count \in Nat

BinOK(a, held, i) ==
    /\ StackOK(a.stack[i], i, held)
    /\ i \in a.bitmap <=> a.stack[i] # <<>>
    /\ a.blocks_in_use[i] = Cardinality(OfBin(held, i))
    /\ a.peak_in_use[i] \in Cardinality(OfBin(held, i)) .. Bucket[i]

Balanced(a, held) ==
    /\ SlabTypes(a) /\ held \in SUBSET Block
    /\ \A i \in SlabBins : BinOK(a, held, i)
    /\ held = {b \in Block : a.magic[b] = "allocated"}
    /\ a.total_bytes_in_use = Bytes(held) /\ a.peak_bytes_in_use >= Bytes(held)
    /\ U32(a.alloc_count - a.free_count) = U32(Cardinality(held))

LEMMA Wraps ==
    ASSUME NEW x \in Int, NEW y \in Int, NEW n \in Int, U32(x - y) = U32(n)
    PROVE  /\ U32(x) \in Nat
           /\ U32(U32(x + 1) - y) = U32(n + 1)
           /\ U32(x - U32(y + 1)) = U32(n - 1)
<1>1. PICK M : M = 2^SlabBits
  OBVIOUS
<1>2. M \in Nat \ {0}
  <2>1. SlabBits \in 0 .. SlabBits + MinLog + BinCount
    BY SlabConstants
  <2> QED
    BY <1>1, <2>1, Powers
<1>3. \A k \in Int : U32(k) = k % M
  BY <1>1 DEF U32
<1>4. x + 1 \in Int /\ y + 1 \in Int /\ n + 1 \in Int /\ n - 1 \in Int /\ x - y \in Int
      /\ (x + 1) % M \in Int /\ (y + 1) % M \in Int /\ x % M \in Nat
  BY <1>2, ModParts
<1>5. (x - y) % M = n % M
  BY <1>3, <1>4
<1>6. ((x - y) + 1) % M = (n + 1) % M /\ ((x - y) + (-1)) % M = (n + (-1)) % M
  <2>1. /\ (((x - y) % M) + 1) % M = ((x - y) + 1) % M
        /\ (((x - y) % M) + (-1)) % M = ((x - y) + (-1)) % M
        /\ ((n % M) + 1) % M = (n + 1) % M
        /\ ((n % M) + (-1)) % M = (n + (-1)) % M
    <3>1. \A a, b \in Int : ((a % M) + b) % M = (a + b) % M
      BY <1>2, ModShift
    <3>2. 1 \in Int /\ -1 \in Int
      OBVIOUS
    <3> QED
      BY <1>4, <3>1, <3>2
  <2> QED
    BY <1>5, <2>1
<1>7. (((x + 1) % M) + (-y)) % M = ((x + 1) + (-y)) % M
  <2>1. \A a, b \in Int : ((a % M) + b) % M = (a + b) % M
    BY <1>2, ModShift
  <2>2. -y \in Int
    OBVIOUS
  <2> QED
    BY <1>4, <2>1, <2>2
<1>8. (x - ((y + 1) % M)) % M = (x - (y + 1)) % M
  BY <1>2, <1>4, ModShift
<1>9. /\ (x + 1) + (-y) = (x - y) + 1 /\ ((x + 1) % M) + (-y) = ((x + 1) % M) - y
      /\ x - (y + 1) = (x - y) + (-1) /\ n + (-1) = n - 1
  BY <1>4
<1>10. U32(x + 1) = (x + 1) % M /\ U32(y + 1) = (y + 1) % M
  BY <1>3, <1>4
<1>11. U32(U32(x + 1) - y) = (((x + 1) % M) - y) % M /\ U32(x - U32(y + 1)) = (x - ((y + 1) % M)) % M
  BY <1>3, <1>4, <1>10
<1> QED
  BY <1>3, <1>4, <1>6, <1>7, <1>8, <1>9, <1>11

LEMMA MaxOfPair ==
    ASSUME NEW a \in Nat, NEW b \in Nat
    PROVE  Max({a, b}) = IF a >= b THEN a ELSE b
  BY DEF Max

\* slab_alloc fails and changes nothing, or takes a free block of the bin.
LEMMA AllocBalanced ==
    ASSUME NEW a, NEW held, Balanced(a, held), NEW n \in Nat, NEW r, r = slab_alloc(a, n)
    PROVE  \/ r[1] = a /\ r[2] = <<>>
           \/ /\ n > 0 /\ size_to_bin(n) \in SlabBins /\ size_to_bin(n) < BinCount
              /\ r[2] \in Block \ held /\ r[2][1] = size_to_bin(n) /\ r[2] # <<>>
              /\ Balanced(r[1], held \cup {r[2]})
<1>1. PICK bin : bin = size_to_bin(n)
  OBVIOUS
<1>2. CASE n = 0 \/ bin >= BinCount \/ bin \notin a.bitmap
  <2>1. r = <<a, <<>>>>
    BY <1>1, <1>2 DEF slab_alloc
  <2> QED
    BY <2>1
<1>3. CASE ~(n = 0 \/ bin >= BinCount \/ bin \notin a.bitmap)
  <2> DEFINE top == Last(a.stack[bin])
             rest == Front(a.stack[bin])
             used == a.blocks_in_use[bin] + 1
             bytes == a.total_bytes_in_use + BinSize(bin)
             c == [a EXCEPT !.stack[bin] = rest,
                        !.bitmap = IF rest = <<>> THEN @ \ {bin} ELSE @,
                        !.magic[top] = "allocated",
                        !.blocks_in_use[bin] = used,
                        !.peak_in_use[bin] = Max({@, used}),
                        !.total_bytes_in_use = bytes,
                        !.peak_bytes_in_use = Max({@, bytes}),
                        !.alloc_count = U32(@ + 1)]
  <2>1. r = <<c, top>>
    BY <1>1, <1>3 DEF slab_alloc
  <2>2. /\ bin \in SlabBins /\ n > 0 /\ bin < BinCount
        /\ a.stack \in [SlabBins -> Seq(Block)] /\ a.stack[bin] \in Seq(Block)
        /\ a.bitmap \in SUBSET SlabBins /\ a.magic \in [Block -> {"freed", "allocated"}]
        /\ a.blocks_in_use \in [SlabBins -> Nat] /\ a.peak_in_use \in [SlabBins -> Nat]
        /\ a.total_bytes_in_use \in Nat /\ a.peak_bytes_in_use \in Nat
        /\ a.alloc_count \in Nat /\ a.free_count \in Nat
    <3>1. SlabTypes(a) /\ bin \in a.bitmap /\ n > 0 /\ ~(bin >= BinCount)
      BY <1>3 DEF Balanced
    <3>2. a.bitmap \in SUBSET SlabBins /\ a.stack \in [SlabBins -> Seq(Block)]
      BY <3>1 DEF SlabTypes
    <3>3. a.magic \in [Block -> {"freed", "allocated"}]
          /\ a.blocks_in_use \in [SlabBins -> Nat] /\ a.peak_in_use \in [SlabBins -> Nat]
      BY <3>1 DEF SlabTypes
    <3>4. a.total_bytes_in_use \in Nat /\ a.peak_bytes_in_use \in Nat
          /\ a.alloc_count \in Nat /\ a.free_count \in Nat
      BY <3>1 DEF SlabTypes
    <3>5. bin \in SlabBins /\ a.stack[bin] \in Seq(Block)
      BY <3>1, <3>2
    <3>6. bin < BinCount
      BY <3>5, SlabConstants
    <3> QED
      BY <3>1, <3>2, <3>3, <3>4, <3>5, <3>6
  <2>3. BinOK(a, held, bin) /\ a.stack[bin] # <<>> /\ held \in SUBSET Block
    BY <1>3, <2>2 DEF Balanced, BinOK
  <2>4. /\ top \in Block \ held /\ top[1] = bin /\ rest \in Seq(Block)
        /\ StackOK(rest, bin, held \cup {top}) /\ Cardinality(OfBin(held, bin)) < Bucket[bin]
    <3>1. PICK st : st = a.stack[bin]
      OBVIOUS
    <3>2. st \in Seq(Block) /\ StackOK(st, bin, held) /\ st # <<>>
      BY <2>2, <2>3, <3>1 DEF BinOK
    <3>3. /\ Last(st) \in Block \ held /\ Last(st)[1] = bin /\ Front(st) \in Seq(Block)
          /\ StackOK(Front(st), bin, held \cup {Last(st)}) /\ Cardinality(OfBin(held, bin)) < Bucket[bin]
      <4>1. PICK b : b = Last(st)
        OBVIOUS
      <4>2. /\ b \in Block \ held /\ b[1] = bin /\ Front(st) \in Seq(Block)
            /\ StackOK(Front(st), bin, held \cup {b}) /\ Cardinality(OfBin(held, bin)) < Bucket[bin]
        <5>1. bin \in SlabBins /\ held \in SUBSET Block
          BY <2>2, <2>3
        <5> HIDE DEF top, rest, used, bytes, c
        <5> QED
          BY <3>2, <4>1, <5>1, PopStack
      <4> QED
        BY <4>1, <4>2
    <3> QED
      BY <3>1, <3>3
  <2> HIDE DEF top, rest
  <2>5. PICK new : new = held \cup {top}
    OBVIOUS
  <2>6. /\ new \in SUBSET Block /\ used \in Nat /\ bytes \in Nat /\ BinSize(bin) \in Nat
        /\ Cardinality(OfBin(new, bin)) = Cardinality(OfBin(held, bin)) + 1
        /\ Cardinality(new) = Cardinality(held) + 1
        /\ used = Cardinality(OfBin(new, bin))
    <3>1. /\ Cardinality(OfBin(new, bin)) = Cardinality(OfBin(held, bin)) + 1
          /\ Cardinality(new) = Cardinality(held) + 1
      BY <2>3, <2>4, <2>5, HeldGrows
    <3>2. used = Cardinality(OfBin(held, bin)) + 1 /\ used \in Nat
      BY <2>2, <2>3 DEF BinOK
    <3>3. BinSize(bin) \in Nat /\ bytes \in Nat
      BY <2>2, BinSizes
    <3> QED
      BY <2>3, <2>4, <2>5, <3>1, <3>2, <3>3
  <2>7. bytes = Bytes(new)
    <3>1. Bytes(new) = BinSize(bin) + Bytes(new \ {top}) /\ new \ {top} = held /\ Bytes(held) \in Nat
      BY <2>3, <2>4, <2>5, <2>6, BytesFacts
    <3>2. a.total_bytes_in_use = Bytes(held)
      BY DEF Balanced
    <3> QED
      BY <2>6, <3>1, <3>2
  <2>8. /\ c.stack = [a.stack EXCEPT ![bin] = rest]
        /\ c.bitmap = IF rest = <<>> THEN a.bitmap \ {bin} ELSE a.bitmap
        /\ c.magic = [a.magic EXCEPT ![top] = "allocated"]
        /\ c.blocks_in_use = [a.blocks_in_use EXCEPT ![bin] = used]
        /\ c.peak_in_use = [a.peak_in_use EXCEPT ![bin] = Max({a.peak_in_use[bin], used})]
        /\ c.total_bytes_in_use = bytes /\ c.peak_bytes_in_use = Max({a.peak_bytes_in_use, bytes})
        /\ c.alloc_count = U32(a.alloc_count + 1) /\ c.free_count = a.free_count
    BY DEF Balanced, SlabTypes, SlabFields
  <2>9. /\ Max({a.peak_in_use[bin], used}) \in Nat /\ Max({a.peak_bytes_in_use, bytes}) \in Nat
        /\ Max({a.peak_in_use[bin], used}) \in used .. Bucket[bin]
        /\ Max({a.peak_bytes_in_use, bytes}) >= bytes
    <3>1. /\ Max({a.peak_in_use[bin], used}) = IF a.peak_in_use[bin] >= used THEN a.peak_in_use[bin] ELSE used
          /\ Max({a.peak_bytes_in_use, bytes}) = IF a.peak_bytes_in_use >= bytes THEN a.peak_bytes_in_use ELSE bytes
          /\ a.peak_in_use[bin] \in Nat
      BY <2>2, <2>6, MaxOfPair
    <3>2. /\ Bucket[bin] \in Nat /\ Cardinality(OfBin(held, bin)) \in Nat
          /\ a.peak_in_use[bin] \in Cardinality(OfBin(held, bin)) .. Bucket[bin]
      BY <2>2, <2>3, SlabConstants, OfBinFacts DEF BinOK
    <3> QED
      BY <2>2, <2>4, <2>6, <3>1, <3>2
  <2>10. U32(c.alloc_count - c.free_count) = U32(Cardinality(new)) /\ c.alloc_count \in Nat
    <3>1. U32(a.alloc_count - a.free_count) = U32(Cardinality(held)) /\ Cardinality(held) \in Int
      BY <2>3, OfBinFacts DEF Balanced
    <3>2. U32(U32(a.alloc_count + 1) - a.free_count) = U32(Cardinality(held) + 1)
      <4>1. PICK x, y, k \in Int : x = a.alloc_count /\ y = a.free_count /\ k = Cardinality(held)
        BY <2>2, <3>1
      <4>2. U32(x - y) = U32(k)
        BY <3>1, <4>1
      <4>3. U32(U32(x + 1) - y) = U32(k + 1)
        BY <4>2, Wraps
      <4> QED
        BY <4>1, <4>3
    <3>3. U32(a.alloc_count + 1) \in Nat
      <4>1. a.alloc_count + 1 \in Int /\ U32(a.alloc_count + 1 - 0) = U32(a.alloc_count + 1)
        BY <2>2
      <4> QED
        BY <4>1, Wraps
    <3> QED
      BY <2>6, <2>8, <3>2, <3>3
  <2> HIDE DEF c, used, bytes
  <2>11. SlabTypes(c)
    <3>1. DOMAIN c = SlabFields /\ c = [f \in SlabFields |-> c[f]]
      <4>1. DOMAIN a = SlabFields /\ a = [f \in SlabFields |-> a[f]]
        BY DEF Balanced, SlabTypes
      <4> QED
        BY <4>1 DEF c
    <3>2. /\ c.stack \in [SlabBins -> Seq(Block)] /\ c.bitmap \in SUBSET SlabBins
          /\ c.magic \in [Block -> {"freed", "allocated"}]
          /\ c.blocks_in_use \in [SlabBins -> Nat] /\ c.peak_in_use \in [SlabBins -> Nat]
          /\ c.total_bytes_in_use \in Nat /\ c.peak_bytes_in_use \in Nat
          /\ c.alloc_count \in Nat /\ c.free_count \in Nat
      <4>1. /\ c.stack \in [SlabBins -> Seq(Block)] /\ c.bitmap \in SUBSET SlabBins
            /\ c.magic \in [Block -> {"freed", "allocated"}]
        BY <2>2, <2>4, <2>8
      <4>2. c.blocks_in_use \in [SlabBins -> Nat] /\ c.peak_in_use \in [SlabBins -> Nat]
        BY <2>2, <2>6, <2>8, <2>9
      <4>3. /\ c.total_bytes_in_use \in Nat /\ c.peak_bytes_in_use \in Nat
            /\ c.alloc_count \in Nat /\ c.free_count \in Nat
        BY <2>2, <2>6, <2>8, <2>9, <2>10
      <4> QED
        BY <4>1, <4>2, <4>3
    <3> HIDE DEF c
    <3> QED
      BY <3>1, <3>2 DEF SlabTypes
  <2>12. ASSUME NEW i \in SlabBins PROVE BinOK(c, new, i)
    <3>1. CASE i = bin
      <4>1. /\ c.stack[i] = rest /\ c.blocks_in_use[i] = used
            /\ c.peak_in_use[i] \in used .. Bucket[i]
            /\ i \in c.bitmap <=> rest # <<>>
        BY <1>3, <2>2, <2>8, <2>9, <3>1
      <4> QED
        BY <2>4, <2>5, <2>6, <3>1, <4>1 DEF BinOK
    <3>2. CASE i # bin
      <4>1. /\ c.stack[i] = a.stack[i] /\ c.blocks_in_use[i] = a.blocks_in_use[i]
            /\ c.peak_in_use[i] = a.peak_in_use[i]
            /\ i \in c.bitmap <=> i \in a.bitmap
        BY <2>2, <2>8, <3>2
      <4>2. BinOK(a, held, i)
        BY DEF Balanced
      <4>3. StackOK(a.stack[i], i, new) /\ OfBin(new, i) = OfBin(held, i)
        BY <2>3, <2>4, <2>5, <3>2, <4>2, OtherStacks DEF BinOK
      <4>4. /\ StackOK(a.stack[i], i, held) /\ (i \in a.bitmap <=> a.stack[i] # <<>>)
            /\ a.blocks_in_use[i] = Cardinality(OfBin(held, i))
            /\ a.peak_in_use[i] \in Cardinality(OfBin(held, i)) .. Bucket[i]
        BY <4>2 DEF BinOK
      <4>5. i \in c.bitmap <=> c.stack[i] # <<>>
        BY <4>1, <4>4
      <4>6. /\ StackOK(c.stack[i], i, new) /\ c.blocks_in_use[i] = Cardinality(OfBin(new, i))
            /\ c.peak_in_use[i] \in Cardinality(OfBin(new, i)) .. Bucket[i]
        BY <4>1, <4>3, <4>4
      <4> QED
        BY <4>5, <4>6 DEF BinOK
    <3> QED
      BY <3>1, <3>2
  <2>13. new = {b \in Block : c.magic[b] = "allocated"}
    <3>1. held = {b \in Block : a.magic[b] = "allocated"}
      BY DEF Balanced
    <3> QED
      BY <2>2, <2>4, <2>5, <2>8, <3>1
  <2>14. Balanced(c, new)
    BY <2>6, <2>7, <2>8, <2>9, <2>10, <2>11, <2>12, <2>13 DEF Balanced
  <2>15. top # <<>>
    BY <2>4, BlockFacts
  <2> QED
    BY <1>1, <2>1, <2>2, <2>4, <2>5, <2>14, <2>15
<1> QED
  BY <1>2, <1>3

\* slab_free of a block that is not held changes nothing.
LEMMA FreeBalanced ==
    ASSUME NEW a, NEW held, Balanced(a, held), NEW b \in Block, NEW c, c = slab_free(a, b)
    PROVE  Balanced(c, held \ {b})
<1>1. PICK bin : bin = b[1]
  OBVIOUS
<1>2. /\ bin \in SlabBins /\ SlabTypes(a) /\ held \in SUBSET Block /\ BinOK(a, held, bin)
      /\ held = {x \in Block : a.magic[x] = "allocated"}
  BY <1>1, BlockFacts DEF Balanced
<1>3. CASE b \notin held
  <2>1. c = a
    BY <1>2, <1>3 DEF slab_free
  <2>2. held \ {b} = held
    BY <1>3
  <2> QED
    BY <2>1, <2>2
<1>4. CASE b \in held
  <2> DEFINE st == a.stack[bin]
             old == held \ {b}
             d == [a EXCEPT !.stack[bin] = Append(@, b),
                      !.bitmap = @ \cup {bin},
                      !.magic[b] = "freed",
                      !.blocks_in_use[bin] = IF @ > 0 THEN @ - 1 ELSE @,
                      !.total_bytes_in_use = IF @ >= BinSize(bin) THEN @ - BinSize(bin) ELSE 0,
                      !.free_count = U32(@ + 1)]
  <2>1. /\ a.stack \in [SlabBins -> Seq(Block)] /\ st \in Seq(Block) /\ StackOK(st, bin, held)
        /\ a.bitmap \in SUBSET SlabBins /\ a.magic \in [Block -> {"freed", "allocated"}]
        /\ a.blocks_in_use \in [SlabBins -> Nat] /\ a.peak_in_use \in [SlabBins -> Nat]
        /\ a.total_bytes_in_use \in Nat /\ a.peak_bytes_in_use \in Nat
        /\ a.alloc_count \in Nat /\ a.free_count \in Nat
    BY <1>2 DEF SlabTypes, BinOK
  <2>2. /\ Append(st, b) \in Seq(Block) /\ StackOK(Append(st, b), bin, old)
        /\ Len(st) < Bucket[bin] /\ Append(st, b) # <<>> /\ Cardinality(OfBin(held, bin)) > 0
    <3>1. st \in Seq(Block) /\ StackOK(st, bin, held) /\ bin \in SlabBins /\ held \in SUBSET Block
          /\ b \in held /\ b[1] = bin
      BY <1>1, <1>2, <1>4, <2>1
    <3> HIDE DEF st, d
    <3> QED
      BY <3>1, PushStack
  <2>3. a.magic[b] = "allocated" /\ ~(Len(a.stack[bin]) >= Bucket[bin])
    <3>1. Len(st) \in Nat /\ Bucket[bin] \in Nat
      BY <1>2, <2>1, SlabConstants
    <3> QED
      BY <1>2, <1>4, <2>2, <3>1
  <2>4. c = d
    BY <1>1, <2>3 DEF slab_free
  <2>5. /\ c.stack = [a.stack EXCEPT ![bin] = Append(st, b)]
        /\ c.bitmap = a.bitmap \cup {bin}
        /\ c.magic = [a.magic EXCEPT ![b] = "freed"]
        /\ c.blocks_in_use = [a.blocks_in_use EXCEPT ![bin] = IF @ > 0 THEN @ - 1 ELSE @]
        /\ c.peak_in_use = a.peak_in_use /\ c.peak_bytes_in_use = a.peak_bytes_in_use
        /\ c.total_bytes_in_use = IF a.total_bytes_in_use >= BinSize(bin) THEN a.total_bytes_in_use - BinSize(bin) ELSE 0
        /\ c.alloc_count = a.alloc_count /\ c.free_count = U32(a.free_count + 1)
    BY <1>2, <2>4 DEF SlabTypes, SlabFields
  <2>6. DOMAIN c = SlabFields /\ c = [f \in SlabFields |-> c[f]]
    <3>1. DOMAIN a = SlabFields /\ a = [f \in SlabFields |-> a[f]]
      BY <1>2 DEF SlabTypes
    <3> QED
      BY <2>4, <3>1
  <2> HIDE DEF st, d
  <2>7. /\ old \in SUBSET Block
        /\ Cardinality(OfBin(old, bin)) = Cardinality(OfBin(held, bin)) - 1
        /\ Cardinality(old) = Cardinality(held) - 1
        /\ Cardinality(OfBin(held, bin)) \in Nat /\ Cardinality(held) \in Nat
    <3>1. /\ Cardinality(OfBin(held \ {b}, bin)) = Cardinality(OfBin(held, bin)) - 1
          /\ Cardinality(held \ {b}) = Cardinality(held) - 1
      BY <1>1, <1>2, <1>4, HeldShrinks
    <3> QED
      BY <1>2, <3>1, OfBinFacts
  <2>8. c.blocks_in_use[bin] = Cardinality(OfBin(old, bin)) /\ c.blocks_in_use \in [SlabBins -> Nat]
    <3>1. a.blocks_in_use[bin] = Cardinality(OfBin(held, bin))
      BY <1>2 DEF BinOK
    <3> QED
      BY <1>2, <2>1, <2>2, <2>5, <2>7, <3>1
  <2>9. c.total_bytes_in_use = Bytes(old) /\ Bytes(old) \in Nat /\ a.peak_bytes_in_use >= Bytes(old)
    <3>1. Bytes(held) = BinSize(bin) + Bytes(old) /\ Bytes(old) \in Nat /\ BinSize(bin) \in Nat
      BY <1>1, <1>2, <1>4, <2>7, BytesFacts, BinSizes
    <3>2. a.total_bytes_in_use = Bytes(held) /\ a.peak_bytes_in_use >= Bytes(held)
      BY DEF Balanced
    <3> QED
      BY <2>1, <2>5, <3>1, <3>2
  <2>10. U32(c.alloc_count - c.free_count) = U32(Cardinality(old)) /\ c.free_count \in Nat
    <3>1. PICK x, y, k \in Int : x = a.alloc_count /\ y = a.free_count /\ k = Cardinality(held)
      BY <2>1, <2>7
    <3>2. U32(x - y) = U32(k)
      BY <3>1 DEF Balanced
    <3>3. U32(x - U32(y + 1)) = U32(k - 1)
      BY <3>2, Wraps
    <3>4. U32(y + 1) \in Nat
      <4>1. y + 1 \in Int /\ U32(y + 1 - 0) = U32(y + 1)
        OBVIOUS
      <4> QED
        BY <4>1, Wraps
    <3> QED
      BY <2>5, <2>7, <3>1, <3>3, <3>4
  <2>11. SlabTypes(c)
    <3>1. /\ c.stack \in [SlabBins -> Seq(Block)] /\ c.bitmap \in SUBSET SlabBins
          /\ c.magic \in [Block -> {"freed", "allocated"}]
      BY <1>2, <2>1, <2>2, <2>5
    <3>2. /\ c.peak_in_use \in [SlabBins -> Nat] /\ c.peak_bytes_in_use \in Nat
          /\ c.total_bytes_in_use \in Nat /\ c.alloc_count \in Nat /\ c.free_count \in Nat
      BY <2>1, <2>5, <2>9, <2>10
    <3> QED
      BY <2>6, <2>8, <3>1, <3>2 DEF SlabTypes
  <2>12. ASSUME NEW i \in SlabBins PROVE BinOK(c, old, i)
    <3>1. CASE i = bin
      <4>1. /\ c.stack[i] = Append(st, b) /\ i \in c.bitmap /\ c.peak_in_use[i] = a.peak_in_use[i]
        BY <1>2, <2>1, <2>5, <3>1
      <4>2. a.peak_in_use[bin] \in Cardinality(OfBin(held, bin)) .. Bucket[bin] /\ Bucket[bin] \in Nat
        BY <1>2, SlabConstants DEF BinOK
      <4>3. c.peak_in_use[i] \in Cardinality(OfBin(old, i)) .. Bucket[i]
        BY <2>7, <3>1, <4>1, <4>2
      <4>4. StackOK(c.stack[i], i, old) /\ c.stack[i] # <<>>
        BY <2>2, <3>1, <4>1
      <4> QED
        BY <2>8, <3>1, <4>1, <4>3, <4>4 DEF BinOK
    <3>2. CASE i # bin
      <4>1. /\ c.stack[i] = a.stack[i] /\ c.blocks_in_use[i] = a.blocks_in_use[i]
            /\ c.peak_in_use[i] = a.peak_in_use[i]
            /\ i \in c.bitmap <=> i \in a.bitmap
        BY <2>1, <2>5, <3>2
      <4>2. BinOK(a, held, i)
        BY DEF Balanced
      <4>3. StackOK(a.stack[i], i, old) /\ OfBin(old, i) = OfBin(held, i)
        BY <1>1, <1>2, <3>2, <4>2, OtherStacks DEF BinOK
      <4>4. /\ StackOK(a.stack[i], i, held) /\ (i \in a.bitmap <=> a.stack[i] # <<>>)
            /\ a.blocks_in_use[i] = Cardinality(OfBin(held, i))
            /\ a.peak_in_use[i] \in Cardinality(OfBin(held, i)) .. Bucket[i]
        BY <4>2 DEF BinOK
      <4>5. i \in c.bitmap <=> c.stack[i] # <<>>
        BY <4>1, <4>4
      <4>6. /\ StackOK(c.stack[i], i, old) /\ c.blocks_in_use[i] = Cardinality(OfBin(old, i))
            /\ c.peak_in_use[i] \in Cardinality(OfBin(old, i)) .. Bucket[i]
        BY <4>1, <4>3, <4>4
      <4> QED
        BY <4>5, <4>6 DEF BinOK
    <3> QED
      BY <3>1, <3>2
  <2>13. old = {x \in Block : c.magic[x] = "allocated"}
    BY <1>2, <2>1, <2>5
  <2> QED
    BY <2>5, <2>7, <2>9, <2>10, <2>11, <2>12, <2>13 DEF Balanced
<1> QED
  BY <1>3, <1>4

-----------------------------------------------------------------------------
(* The callers and the bump allocator. *)

WantOK(w) ==
    /\ DOMAIN w \in SUBSET Block /\ w = [b \in DOMAIN w |-> w[b]]
    /\ \A b \in DOMAIN w : w[b] \in Nat /\ w[b] <= BinSize(b[1])

\* The spans handed out are inside the part of the region in use and apart.
Apart(ss, end) ==
    /\ \A s \in ss : s \in Nat \X (Nat \ {0}) /\ s[1] + s[2] <= end
    /\ \A s, r \in ss : s = r \/ s[1] + s[2] <= r[1] \/ r[1] + r[2] <= s[1]

BumpOK(bp, ss, w) ==
    /\ bp.bytes \in Nat /\ bp.offset \in Nat /\ bp.peak \in Nat
    /\ bp = [region |-> bp.region, bytes |-> bp.bytes, offset |-> bp.offset, peak |-> bp.peak]
    /\ bp.offset <= bp.peak /\ bp.peak <= bp.bytes
    /\ Apart(ss, bp.offset)
    /\ bp # NoBump => bp.region \in DOMAIN w /\ bp.bytes <= BinSize(bp.region[1])

SlabInv == Balanced(slab, DOMAIN want) /\ WantOK(want) /\ BumpOK(bump, spans, want)

LEMMA WithoutFacts ==
    ASSUME NEW w, WantOK(w), NEW b
    PROVE  WantOK(Without(w, b)) /\ DOMAIN Without(w, b) = DOMAIN w \ {b}
  BY DEF WantOK, Without

LEMMA WithFacts ==
    ASSUME NEW w, WantOK(w), NEW b \in Block, NEW n \in Nat, n <= BinSize(b[1])
    PROVE  WantOK(With(w, b, n)) /\ DOMAIN With(w, b, n) = DOMAIN w \cup {b}
<1>1. DOMAIN With(w, b, n) = DOMAIN w \cup {b}
  BY DEF With
<1>2. \A x \in DOMAIN w \cup {b} : With(w, b, n)[x] = IF x = b THEN n ELSE w[x]
  BY DEF With
<1>3. With(w, b, n) = [x \in DOMAIN With(w, b, n) |-> With(w, b, n)[x]]
  BY DEF With
<1> QED
  BY <1>1, <1>2, <1>3 DEF WantOK

LEMMA SlabInitInv == SlabInit /\ bump = NoBump /\ spans = {} => SlabInv
<1> SUFFICES ASSUME SlabInit, bump = NoBump, spans = {} PROVE SlabInv
  OBVIOUS
<1>1. want = <<>> /\ DOMAIN want = {} /\ WantOK(want)
  BY DEF SlabInit, WantOK
<1>2. /\ slab.stack = [i \in SlabBins |-> [n \in 1 .. Bucket[i] |-> <<i, n - 1>>]]
      /\ slab.bitmap = {i \in SlabBins : Bucket[i] > 0}
      /\ slab.magic = [b \in Block |-> "freed"]
      /\ slab.blocks_in_use = [i \in SlabBins |-> 0] /\ slab.peak_in_use = [i \in SlabBins |-> 0]
      /\ slab.total_bytes_in_use = 0 /\ slab.peak_bytes_in_use = 0
      /\ slab.alloc_count = 0 /\ slab.free_count = 0
  BY DEF SlabInit
<1>3. DOMAIN slab = SlabFields /\ slab = [f \in SlabFields |-> slab[f]]
  BY DEF SlabInit, SlabFields
<1>4. ASSUME NEW i \in SlabBins
      PROVE  slab.stack[i] \in Seq(Block) /\ BinOK(slab, {}, i)
  <2>1. PICK st : st = slab.stack[i]
    OBVIOUS
  <2>2. PICK n \in Nat : n = Bucket[i]
    BY SlabConstants
  <2>3. st = [k \in 1 .. n |-> <<i, k - 1>>]
    BY <1>2, <2>1, <2>2
  <2>4. ASSUME NEW k \in 1 .. n PROVE <<i, k - 1>> \in Block
    <3>1. k - 1 \in 0 .. Bucket[i] - 1
      BY <2>2
    <3> QED
      BY <3>1, BlockFacts
  <2>5. st \in Seq(Block) /\ Len(st) = n /\ \A k \in 1 .. n : st[k] = <<i, k - 1>>
    BY <2>3, <2>4
  <2>6. OfBin({}, i) = {} /\ Cardinality(OfBin({}, i)) = 0
    BY FS_EmptySet DEF OfBin
  <2>7. \A k, l \in 1 .. Len(st) : st[k] = st[l] => k = l
    BY <2>5
  <2>8. \A k \in 1 .. Len(st) : st[k] \in Block /\ st[k][1] = i /\ st[k] \notin {}
    BY <2>4, <2>5
  <2>9. ASSUME NEW b \in Block, b[1] = i
        PROVE  \E k \in 1 .. Len(st) : st[k] = b
    <3>1. b[2] \in 0 .. n - 1 /\ b = <<i, b[2]>>
      BY <2>2, <2>9, BlockFacts
    <3>2. b[2] + 1 \in 1 .. Len(st) /\ b[2] + 1 - 1 = b[2]
      BY <2>5, <3>1
    <3>3. st[b[2] + 1] = b
      <4>1. PICK m \in 1 .. n : m = b[2] + 1 /\ m - 1 = b[2]
        <5>1. PICK k \in Nat : k = b[2] /\ k <= n - 1
          BY <3>1
        <5> QED
          BY <5>1
      <4>2. st[m] = <<i, m - 1>>
        BY <2>5
      <4> QED
        BY <3>1, <4>1, <4>2
    <3> QED
      BY <3>2, <3>3
  <2>10. StackOK(st, i, {})
    BY <2>2, <2>5, <2>6, <2>7, <2>8, <2>9 DEF StackOK
  <2>11. i \in slab.bitmap <=> st # <<>>
    <3>1. i \in slab.bitmap <=> n > 0
      BY <1>2, <2>2
    <3>2. st # <<>> <=> Len(st) > 0
      BY <2>5
    <3> QED
      BY <2>5, <3>1, <3>2
  <2>12. slab.blocks_in_use[i] = 0 /\ slab.peak_in_use[i] = 0
    BY <1>2
  <2> QED
    BY <2>1, <2>2, <2>5, <2>6, <2>10, <2>11, <2>12 DEF BinOK
<1>5. SlabTypes(slab)
  <2>1. slab.stack \in [SlabBins -> Seq(Block)]
    BY <1>2, <1>4
  <2> QED
    BY <1>2, <1>3, <2>1 DEF SlabTypes
<1>6. {} = {b \in Block : slab.magic[b] = "allocated"}
  BY <1>2
<1>7. Bytes({}) = 0 /\ Cardinality({}) = 0
  BY BytesFacts, FS_EmptySet
<1>8. Balanced(slab, {})
  BY <1>2, <1>4, <1>5, <1>6, <1>7 DEF Balanced
<1>9. BumpOK(bump, spans, want)
  BY DEF BumpOK, NoBump, Apart
<1> QED
  BY <1>1, <1>8, <1>9 DEF SlabInv

\* What the three calls do, for callers that keep away from the bump region.
LEMMA AllocStep ==
    ASSUME Balanced(slab, DOMAIN want), WantOK(want), NEW n \in Nat, n + HeaderSize <= 2^SlabBits,
           NEW r, r = slab_alloc(slab, n)
    PROVE  \/ r[1] = slab /\ r[2] = <<>>
           \/ /\ r[2] \in Block \ DOMAIN want /\ r[2] # <<>> /\ n <= BinSize(r[2][1])
              /\ Balanced(r[1], DOMAIN want \cup {r[2]})
              /\ WantOK(With(want, r[2], n)) /\ DOMAIN With(want, r[2], n) = DOMAIN want \cup {r[2]}
<1>1. \/ r[1] = slab /\ r[2] = <<>>
      \/ /\ n > 0 /\ size_to_bin(n) \in SlabBins /\ size_to_bin(n) < BinCount
         /\ r[2] \in Block \ DOMAIN want /\ r[2][1] = size_to_bin(n) /\ r[2] # <<>>
         /\ Balanced(r[1], DOMAIN want \cup {r[2]})
  BY AllocBalanced
<1>2. CASE r[1] = slab /\ r[2] = <<>>
  BY <1>2
<1>3. CASE /\ n > 0 /\ size_to_bin(n) \in SlabBins /\ size_to_bin(n) < BinCount
           /\ r[2] \in Block \ DOMAIN want /\ r[2][1] = size_to_bin(n) /\ r[2] # <<>>
           /\ Balanced(r[1], DOMAIN want \cup {r[2]})
  <2>1. n <= BinSize(r[2][1])
    BY <1>3, BinIsLargeEnough
  <2>2. WantOK(With(want, r[2], n)) /\ DOMAIN With(want, r[2], n) = DOMAIN want \cup {r[2]}
    BY <1>3, <2>1, WithFacts
  <2> QED
    BY <1>3, <2>1, <2>2
<1> QED
  BY <1>1, <1>2, <1>3

\* The bump allocator does not notice what happens to other blocks.
LEMMA BumpKept ==
    ASSUME NEW bp, NEW ss, NEW w, BumpOK(bp, ss, w), NEW u,
           bp # NoBump /\ bp.region \in DOMAIN w => bp.region \in DOMAIN u
    PROVE  BumpOK(bp, ss, u)
  BY DEF BumpOK

LEMMA RequestFacts ==
    /\ \A n \in Requests \cup BumpRegion : n \in Nat /\ n + HeaderSize <= 2^SlabBits
    /\ \A n \in BumpSizes \cup Alignments : n \in Nat
    /\ 0 \notin Alignments
  BY SlabAssumption

LEMMA AllocInv ==
    ASSUME SlabInv, NEW n \in Requests, Alloc(n), UNCHANGED <<bump, spans>>
    PROVE  SlabInv'
<1>1. Balanced(slab, DOMAIN want) /\ WantOK(want) /\ BumpOK(bump, spans, want)
  BY DEF SlabInv
<1>2. PICK r : r = slab_alloc(slab, n)
  OBVIOUS
<1>3. slab' = r[1] /\ want' = IF r[2] = <<>> THEN want ELSE With(want, r[2], n)
  BY <1>2 DEF Alloc
<1>4. \/ r[1] = slab /\ r[2] = <<>>
      \/ /\ r[2] \in Block \ DOMAIN want /\ r[2] # <<>> /\ n <= BinSize(r[2][1])
         /\ Balanced(r[1], DOMAIN want \cup {r[2]})
         /\ WantOK(With(want, r[2], n)) /\ DOMAIN With(want, r[2], n) = DOMAIN want \cup {r[2]}
  BY <1>1, <1>2, RequestFacts, AllocStep
<1>5. Balanced(slab', DOMAIN want') /\ WantOK(want') /\ DOMAIN want \subseteq DOMAIN want'
  BY <1>1, <1>3, <1>4
<1>6. BumpOK(bump', spans', want')
  BY <1>1, <1>5, BumpKept
<1> QED
  BY <1>5, <1>6 DEF SlabInv

LEMMA FreeInv ==
    ASSUME SlabInv, NEW b \in Block, Free(b), UNCHANGED <<bump, spans>>
    PROVE  SlabInv'
<1>1. Balanced(slab, DOMAIN want) /\ WantOK(want) /\ BumpOK(bump, spans, want)
  BY DEF SlabInv
<1>2. slab' = slab_free(slab, b) /\ want' = Without(want, b) /\ b # bump.region
  BY DEF Free
<1>3. Balanced(slab', DOMAIN want') /\ WantOK(want')
  <2>1. WantOK(want') /\ DOMAIN want' = DOMAIN want \ {b}
    BY <1>1, <1>2, WithoutFacts
  <2>2. Balanced(slab', DOMAIN want \ {b})
    BY <1>1, <1>2, FreeBalanced
  <2> QED
    BY <2>1, <2>2
<1>4. DOMAIN want' = DOMAIN want \ {b}
  BY <1>1, <1>2, WithoutFacts
<1>5. BumpOK(bump', spans', want')
  BY <1>1, <1>2, <1>4, BumpKept
<1> QED
  BY <1>3, <1>5 DEF SlabInv

LEMMA ReallocInv ==
    ASSUME SlabInv, NEW b \in Block, NEW n \in Requests \cup {0}, Realloc(b, n), UNCHANGED <<bump, spans>>
    PROVE  SlabInv'
<1>1. Balanced(slab, DOMAIN want) /\ WantOK(want) /\ BumpOK(bump, spans, want) /\ n \in Nat
  BY RequestFacts DEF SlabInv
<1>2. PICK r, q : r = slab_realloc(slab, b, n) /\ q = slab_alloc(slab, n)
  OBVIOUS
<1>3. PICK kept : kept = IF r[3] THEN Without(want, b) ELSE want
  OBVIOUS
<1>4. /\ b # bump.region /\ slab' = r[1]
      /\ want' = IF r[2] = <<>> THEN kept ELSE With(kept, r[2], n)
  BY <1>2, <1>3 DEF Realloc
<1>5. slab_block_size(slab, b) = IF b \in DOMAIN want THEN BinSize(b[1]) ELSE 0
  BY <1>1 DEF slab_block_size, Balanced
<1>6. BinSize(b[1]) \in Nat \ {0} /\ b # <<>>
  BY BlockFacts, BinSizes
<1>7. CASE n = 0
  <2>1. r = <<slab_free(slab, b), <<>>, TRUE>>
    <3>1. n = 0 /\ ~(n > 0)
      BY <1>7
    <3> QED
      BY <1>2, <3>1 DEF slab_realloc
  <2>2. slab' = slab_free(slab, b) /\ want' = Without(want, b)
    BY <1>3, <1>4, <2>1
  <2>3. Free(b)
    BY <1>4, <2>2 DEF Free
  <2> QED
    BY <2>3, FreeInv
<1>8. CASE n > 0 /\ b \notin DOMAIN want
  <2>1. r = <<slab, <<>>, FALSE>>
    <3>1. /\ slab_block_size(slab, b) = 0 /\ n # 0 /\ n > 0
          /\ ~(slab_block_size(slab, b) >= n) /\ slab_block_size(slab, b) \notin 1 .. n - 1
      BY <1>1, <1>5, <1>8
    <3> QED
      BY <1>2, <3>1 DEF slab_realloc
  <2>2. slab' = slab /\ want' = want
    BY <1>3, <1>4, <2>1
  <2> QED
    BY <1>1, <2>2 DEF SlabInv
<1>9. CASE n > 0 /\ b \in DOMAIN want /\ BinSize(b[1]) >= n
  <2>1. r = <<slab, b, FALSE>>
    <3>1. slab_block_size(slab, b) # 0 /\ slab_block_size(slab, b) >= n
          /\ slab_block_size(slab, b) \notin 1 .. n - 1 /\ n # 0
      BY <1>1, <1>5, <1>6, <1>9
    <3> QED
      BY <1>1, <1>2, <1>9, <3>1 DEF slab_realloc
  <2>2. slab' = slab /\ want' = With(want, b, n)
    BY <1>3, <1>4, <1>6, <2>1
  <2>3. WantOK(want') /\ DOMAIN want' = DOMAIN want
    <3>1. WantOK(With(want, b, n)) /\ DOMAIN With(want, b, n) = DOMAIN want \cup {b}
      BY <1>1, <1>9, WithFacts
    <3> QED
      BY <1>9, <2>2, <3>1
  <2>4. BumpOK(bump', spans', want')
    BY <1>1, <2>3, BumpKept
  <2> QED
    BY <1>1, <2>2, <2>3, <2>4 DEF SlabInv
<1>10. CASE n > 0 /\ b \in DOMAIN want /\ BinSize(b[1]) < n
  <2>1. r = IF q[2] = <<>> THEN <<slab, <<>>, FALSE>> ELSE <<slab_free(q[1], b), q[2], TRUE>>
    <3>1. slab_block_size(slab, b) # 0 /\ ~(slab_block_size(slab, b) >= n)
          /\ slab_block_size(slab, b) \in 1 .. n - 1 /\ n # 0
      BY <1>1, <1>5, <1>6, <1>10
    <3> QED
      BY <1>1, <1>2, <1>10, <3>1 DEF slab_realloc
  <2>2. n + HeaderSize <= 2^SlabBits
    BY <1>10, RequestFacts
  <2>3. \/ q[1] = slab /\ q[2] = <<>>
        \/ /\ q[2] \in Block \ DOMAIN want /\ q[2] # <<>> /\ n <= BinSize(q[2][1])
           /\ Balanced(q[1], DOMAIN want \cup {q[2]})
    BY <1>1, <1>2, <2>2, AllocStep
  <2>4. CASE q[2] = <<>>
    <3>1. slab' = slab /\ want' = want
      BY <1>3, <1>4, <2>1, <2>4
    <3> QED
      BY <1>1, <3>1 DEF SlabInv
  <2>5. CASE q[2] # <<>>
    <3>1. PICK c \in Block \ DOMAIN want : c = q[2] /\ n <= BinSize(c[1]) /\ Balanced(q[1], DOMAIN want \cup {c})
      BY <2>3, <2>5
    <3>2. slab' = slab_free(q[1], b) /\ want' = With(Without(want, b), c, n)
      BY <1>3, <1>4, <2>1, <2>5, <3>1
    <3>3. Balanced(slab', (DOMAIN want \cup {c}) \ {b})
      BY <3>1, <3>2, FreeBalanced
    <3>4. WantOK(Without(want, b)) /\ DOMAIN Without(want, b) = DOMAIN want \ {b}
      BY <1>1, WithoutFacts
    <3>5. WantOK(want') /\ DOMAIN want' = (DOMAIN want \ {b}) \cup {c}
      BY <1>1, <3>1, <3>2, <3>4, WithFacts
    <3>6. (DOMAIN want \ {b}) \cup {c} = (DOMAIN want \cup {c}) \ {b}
      BY <1>10, <3>1
    <3>7. BumpOK(bump', spans', want')
      <4>1. bump.region \in DOMAIN want => bump.region \in DOMAIN want'
        BY <1>4, <3>5
      <4> QED
        BY <1>1, <4>1, BumpKept
    <3> QED
      BY <3>3, <3>5, <3>6, <3>7 DEF SlabInv
  <2> QED
    BY <2>4, <2>5
<1>11. n = 0 \/ n > 0
  BY <1>1
<1>12. BinSize(b[1]) >= n \/ BinSize(b[1]) < n
  BY <1>1, <1>6
<1> QED
  BY <1>7, <1>8, <1>9, <1>10, <1>11, <1>12

-----------------------------------------------------------------------------
(* The bump allocator (bump.c). *)

LEMMA BumpInitInv ==
    ASSUME SlabInv, NEW n \in BumpRegion, bump_init_from_slab(n)
    PROVE  SlabInv'
<1>1. Balanced(slab, DOMAIN want) /\ WantOK(want) /\ BumpOK(bump, spans, want)
  BY DEF SlabInv
<1>2. PICK r : r = slab_alloc(slab, n)
  OBVIOUS
<1>3. /\ n > 0 /\ r[2] # <<>> /\ slab' = r[1] /\ want' = With(want, r[2], n)
      /\ bump' = [region |-> r[2], bytes |-> n, offset |-> 0, peak |-> 0] /\ spans' = {}
  BY <1>2 DEF bump_init_from_slab
<1>4. /\ r[2] \in Block \ DOMAIN want /\ n <= BinSize(r[2][1]) /\ n \in Nat
      /\ Balanced(r[1], DOMAIN want \cup {r[2]})
      /\ WantOK(With(want, r[2], n)) /\ DOMAIN With(want, r[2], n) = DOMAIN want \cup {r[2]}
  BY <1>1, <1>2, <1>3, RequestFacts, AllocStep
<1>5. BumpOK(bump', spans', want')
  BY <1>3, <1>4 DEF BumpOK, Apart
<1> QED
  BY <1>3, <1>4, <1>5 DEF SlabInv

LEMMA BumpDestroyInv ==
    ASSUME SlabInv, bump_destroy
    PROVE  SlabInv'
<1>1. Balanced(slab, DOMAIN want) /\ WantOK(want) /\ BumpOK(bump, spans, want) /\ bump # NoBump
  BY DEF SlabInv, bump_destroy
<1>2. bump.region \in Block
  BY <1>1 DEF BumpOK, WantOK
<1>3. /\ slab' = slab_free(slab, bump.region) /\ want' = Without(want, bump.region)
      /\ bump' = NoBump /\ spans' = {}
  BY DEF bump_destroy
<1>4. Balanced(slab', DOMAIN want') /\ WantOK(want')
  <2>1. WantOK(want') /\ DOMAIN want' = DOMAIN want \ {bump.region}
    BY <1>1, <1>3, WithoutFacts
  <2>2. Balanced(slab', DOMAIN want \ {bump.region})
    BY <1>1, <1>2, <1>3, FreeBalanced
  <2> QED
    BY <2>1, <2>2
<1>5. BumpOK(bump', spans', want')
  BY <1>3 DEF BumpOK, NoBump, Apart
<1> QED
  BY <1>4, <1>5 DEF SlabInv

LEMMA BumpResetInv ==
    ASSUME SlabInv, bump # NoBump, bump_reset
    PROVE  SlabInv'
<1>1. Balanced(slab, DOMAIN want) /\ WantOK(want) /\ BumpOK(bump, spans, want) /\ bump # NoBump
  BY DEF SlabInv
<1>2. bump' = [bump EXCEPT !.offset = 0, !.peak = 0] /\ spans' = {} /\ slab' = slab /\ want' = want
  BY DEF bump_reset
<1>3. bump' = [region |-> bump.region, bytes |-> bump.bytes, offset |-> 0, peak |-> 0]
  BY <1>1, <1>2 DEF BumpOK
<1>4. BumpOK(bump', spans', want')
  <2>1. /\ bump'.region = bump.region /\ bump'.bytes = bump.bytes /\ bump'.offset = 0 /\ bump'.peak = 0
    BY <1>3
  <2>2. /\ bump.bytes \in Nat /\ bump.region \in DOMAIN want' /\ bump.bytes <= BinSize(bump.region[1])
    BY <1>1, <1>2 DEF BumpOK
  <2>3. Apart(spans', 0)
    BY <1>2 DEF Apart
  <2> QED
    BY <1>3, <2>1, <2>2, <2>3 DEF BumpOK
<1> QED
  BY <1>1, <1>2, <1>4 DEF SlabInv

\* No span that survives reaches over a mark.
LEMMA BumpRewindInv ==
    ASSUME SlabInv, NEW s \in spans, NEW mark \in {s[1], s[1] + s[2], bump.bytes}, bump_rewind_to(mark)
    PROVE  SlabInv'
<1>1. Balanced(slab, DOMAIN want) /\ WantOK(want) /\ BumpOK(bump, spans, want)
  BY DEF SlabInv
<1>2. /\ bump' = IF mark > bump.offset THEN bump ELSE [bump EXCEPT !.offset = mark]
      /\ spans' = IF mark > bump.offset THEN spans ELSE {r \in spans : r[1] < mark}
      /\ slab' = slab /\ want' = want
  BY DEF bump_rewind_to
<1>3. /\ bump.bytes \in Nat /\ bump.offset \in Nat /\ bump.peak \in Nat
      /\ bump = [region |-> bump.region, bytes |-> bump.bytes, offset |-> bump.offset, peak |-> bump.peak]
      /\ bump.offset <= bump.peak /\ bump.peak <= bump.bytes /\ Apart(spans, bump.offset)
  BY <1>1 DEF BumpOK
<1>4. mark \in Nat
  BY <1>3 DEF Apart
<1>5. CASE mark > bump.offset
  BY <1>1, <1>2, <1>5 DEF SlabInv
<1>6. CASE ~(mark > bump.offset)
  <2>1. bump' = [region |-> bump.region, bytes |-> bump.bytes, offset |-> mark, peak |-> bump.peak]
    BY <1>2, <1>3, <1>6
  <2>2. spans' = {r \in spans : r[1] < mark} /\ mark <= bump.offset
    BY <1>2, <1>3, <1>4, <1>6
  <2>3. ASSUME NEW r \in spans, r[1] < mark PROVE r[1] + r[2] <= mark
    <3>1. /\ r[1] \in Nat /\ r[2] \in Nat \ {0} /\ r[1] + r[2] <= bump.offset
          /\ s[1] \in Nat /\ s[2] \in Nat \ {0}
          /\ s = r \/ s[1] + s[2] <= r[1] \/ r[1] + r[2] <= s[1]
      BY <1>3, <2>3 DEF Apart
    <3>2. CASE mark = s[1]
      BY <2>3, <3>1, <3>2
    <3>3. CASE mark = s[1] + s[2]
      BY <2>3, <3>1, <3>3
    <3>4. CASE mark = bump.bytes
      BY <1>3, <2>2, <3>1, <3>4
    <3> QED
      BY <3>2, <3>3, <3>4
  <2>4. Apart(spans', mark)
    <3>1. ASSUME NEW r \in spans' PROVE r \in Nat \X (Nat \ {0}) /\ r[1] + r[2] <= mark
      BY <1>3, <2>2, <2>3, <3>1 DEF Apart
    <3>2. ASSUME NEW q \in spans', NEW r \in spans'
          PROVE  q = r \/ q[1] + q[2] <= r[1] \/ r[1] + r[2] <= q[1]
      BY <1>3, <2>2, <3>2 DEF Apart
    <3> QED
      BY <3>1, <3>2 DEF Apart
  <2>5. BumpOK(bump', spans', want')
    <3>1. /\ bump'.region = bump.region /\ bump'.bytes = bump.bytes /\ bump'.offset = mark
          /\ bump'.peak = bump.peak
      BY <2>1
    <3>2. bump' # NoBump => bump # NoBump
      BY <1>3, <1>6, <2>1, <2>2, <1>4 DEF NoBump
    <3> QED
      BY <1>1, <1>2, <1>3, <1>4, <2>1, <2>2, <2>4, <3>1, <3>2 DEF BumpOK
  <2> QED
    BY <1>1, <1>2, <2>5 DEF SlabInv
<1> QED
  BY <1>5, <1>6

LEMMA RoundUp ==
    ASSUME NEW k \in Nat \ {0}, NEW x \in Nat
    PROVE  ((x + k - 1) \div k) * k \in Nat /\ ((x + k - 1) \div k) * k >= x
<1>1. PICK y \in Nat : y = x + k - 1
  OBVIOUS
<1>2. (y % k) \in 0 .. k - 1 /\ y \div k \in Int /\ y = (k * (y \div k)) + (y % k)
  BY ModParts
<1>3. PICK q, m \in Int : q = y \div k /\ m = y % k
  BY <1>2
<1>4. PICK z \in Int : z = k * q
  OBVIOUS
<1>5. y = z + m /\ m \in 0 .. k - 1
  BY <1>2, <1>3, <1>4
<1>6. z \in Nat /\ z >= x
  BY <1>1, <1>5
<1>7. q * k = z
  BY <1>4
<1> QED
  BY <1>1, <1>3, <1>6, <1>7

LEMMA BumpAllocInv ==
    ASSUME SlabInv, NEW n \in BumpSizes, NEW al \in Alignments, bump_alloc_aligned(n, al)
    PROVE  SlabInv'
<1>1. Balanced(slab, DOMAIN want) /\ WantOK(want) /\ BumpOK(bump, spans, want)
  BY DEF SlabInv
<1>2. PICK off : off = ((bump.offset + al - 1) \div al) * al
  OBVIOUS
<1>3. /\ bump # NoBump /\ n > 0 /\ off <= bump.bytes /\ n <= bump.bytes - off
      /\ bump' = [bump EXCEPT !.offset = off + n, !.peak = Max({@, off + n})]
      /\ spans' = spans \cup {<<off, n>>} /\ slab' = slab /\ want' = want
  BY <1>2 DEF bump_alloc_aligned
<1>4. /\ bump.bytes \in Nat /\ bump.offset \in Nat /\ bump.peak \in Nat
      /\ bump = [region |-> bump.region, bytes |-> bump.bytes, offset |-> bump.offset, peak |-> bump.peak]
      /\ bump.offset <= bump.peak /\ bump.peak <= bump.bytes /\ Apart(spans, bump.offset)
      /\ bump.region \in DOMAIN want /\ bump.bytes <= BinSize(bump.region[1])
  BY <1>1, <1>3 DEF BumpOK
<1>5. n \in Nat \ {0} /\ al \in Nat \ {0}
  BY <1>3, RequestFacts
<1>6. off \in Nat /\ off >= bump.offset
  BY <1>2, <1>4, <1>5, RoundUp
<1>7. PICK m \in Nat : m = Max({bump.peak, off + n}) /\ m >= off + n /\ m <= bump.bytes
  <2>1. off + n \in Nat /\ off + n <= bump.bytes
    BY <1>3, <1>4, <1>5, <1>6
  <2>2. Max({bump.peak, off + n}) = IF bump.peak >= off + n THEN bump.peak ELSE off + n
    BY <1>4, <2>1, MaxOfPair
  <2> QED
    BY <1>4, <2>1, <2>2
<1>8. bump' = [region |-> bump.region, bytes |-> bump.bytes, offset |-> off + n, peak |-> m]
  BY <1>3, <1>4, <1>7
<1>9. Apart(spans', off + n)
  <2>1. ASSUME NEW s \in spans' PROVE s \in Nat \X (Nat \ {0}) /\ s[1] + s[2] <= off + n
    <3>1. CASE s \in spans
      <4>1. s \in Nat \X (Nat \ {0}) /\ s[1] + s[2] <= bump.offset
        BY <1>4, <3>1 DEF Apart
      <4> QED
        BY <1>4, <1>5, <1>6, <4>1
    <3>2. CASE s = <<off, n>>
      BY <1>5, <1>6, <3>2
    <3> QED
      BY <1>3, <3>1, <3>2
  <2>2. ASSUME NEW s \in spans, NEW r, r = <<off, n>> PROVE s[1] + s[2] <= r[1]
    <3>1. s \in Nat \X (Nat \ {0}) /\ s[1] + s[2] <= bump.offset
      BY <1>4, <2>2 DEF Apart
    <3> QED
      BY <1>4, <1>6, <2>2, <3>1
  <2>3. ASSUME NEW s \in spans', NEW r \in spans'
        PROVE  s = r \/ s[1] + s[2] <= r[1] \/ r[1] + r[2] <= s[1]
    <3>1. CASE s \in spans /\ r \in spans
      BY <1>4, <3>1 DEF Apart
    <3>2. CASE s \in spans /\ r = <<off, n>>
      BY <2>2, <3>2
    <3>3. CASE s = <<off, n>> /\ r \in spans
      BY <2>2, <3>3
    <3>4. CASE s = <<off, n>> /\ r = <<off, n>>
      BY <3>4
    <3> QED
      BY <1>3, <3>1, <3>2, <3>3, <3>4
  <2> QED
    BY <2>1, <2>3 DEF Apart
<1>10. BumpOK(bump', spans', want')
  <2>1. /\ bump'.region = bump.region /\ bump'.bytes = bump.bytes /\ bump'.offset = off + n
        /\ bump'.peak = m
    BY <1>8
  <2>2. off + n \in Nat
    BY <1>5, <1>6
  <2> QED
    BY <1>3, <1>4, <1>7, <1>8, <1>9, <2>1, <2>2 DEF BumpOK
<1> QED
  BY <1>1, <1>3, <1>10 DEF SlabInv

LEMMA SlabStepInv == SlabInv /\ [SlabNext]_slabvars => SlabInv'
<1> SUFFICES ASSUME SlabInv, [SlabNext]_slabvars PROVE SlabInv'
  OBVIOUS
<1>1. CASE UNCHANGED slabvars
  BY <1>1 DEF slabvars, SlabInv
<1>2. CASE /\ UNCHANGED <<bump, spans>>
           /\ \/ \E n \in Requests : Alloc(n)
              \/ \E b \in Block : Free(b)
              \/ \E b \in Block, n \in Requests \cup {0} : Realloc(b, n)
  BY <1>2, AllocInv, FreeInv, ReallocInv
<1>3. CASE \E n \in BumpRegion : bump_init_from_slab(n)
  BY <1>3, BumpInitInv
<1>4. CASE bump_destroy
  BY <1>4, BumpDestroyInv
<1>5. CASE bump # NoBump /\ bump_reset
  BY <1>5, BumpResetInv
<1>6. CASE \E s \in spans : \E mark \in {s[1], s[1] + s[2], bump.bytes} : bump_rewind_to(mark)
  BY <1>6, BumpRewindInv
<1>7. CASE \E n \in BumpSizes, al \in Alignments : bump_alloc_aligned(n, al)
  BY <1>7, BumpAllocInv
<1> QED
  BY <1>1, <1>2, <1>3, <1>4, <1>5, <1>6, <1>7 DEF SlabNext

LEMMA SlabInvExact == SlabInv => SlabExact
<1> SUFFICES ASSUME SlabInv PROVE SlabExact
  OBVIOUS
<1> DEFINE given == DOMAIN want
<1>1. Balanced(slab, given) /\ WantOK(want) /\ BumpOK(bump, spans, want)
  BY DEF SlabInv
<1>2. SlabTypes(slab) /\ given \in SUBSET Block
  BY <1>1 DEF Balanced
<1>3. ASSUME NEW i \in SlabBins
      PROVE  /\ ToSet(slab.stack[i]) = {b \in Block : b[1] = i} \ given
             /\ Len(slab.stack[i]) = Bucket[i] - Cardinality({b \in given : b[1] = i})
             /\ i \in slab.bitmap <=> slab.stack[i] # <<>>
             /\ slab.blocks_in_use[i] = Cardinality({b \in given : b[1] = i})
             /\ slab.peak_in_use[i] \in Cardinality({b \in given : b[1] = i}) .. Bucket[i]
  <2>1. BinOK(slab, given, i)
    BY <1>1 DEF Balanced
  <2>2. StackOK(slab.stack[i], i, given)
    BY <2>1 DEF BinOK
  <2>3. slab.stack[i] \in Seq(Block)
    BY <1>2 DEF SlabTypes
  <2>4. DOMAIN slab.stack[i] = 1 .. Len(slab.stack[i])
    BY <2>3
  <2>5. ToSet(slab.stack[i]) = {slab.stack[i][k] : k \in 1 .. Len(slab.stack[i])}
    BY <2>4 DEF ToSet
  <2>6. ToSet(slab.stack[i]) = {b \in Block : b[1] = i} \ given
    BY <2>2, <2>5 DEF StackOK
  <2>7. Len(slab.stack[i]) = Bucket[i] - Cardinality({b \in given : b[1] = i})
    BY <2>2 DEF StackOK, OfBin
  <2> QED
    BY <2>1, <2>6, <2>7 DEF BinOK, OfBin
<1>4. /\ given = {b \in Block : slab.magic[b] = "allocated"}
      /\ slab.total_bytes_in_use = MapThenSumSet(LAMBDA b : BinSize(b[1]), given)
      /\ slab.peak_bytes_in_use >= slab.total_bytes_in_use
      /\ U32(slab.alloc_count - slab.free_count) = U32(Cardinality(given))
  BY <1>1 DEF Balanced, Bytes
<1>5. \A b \in given : want[b] <= BinSize(b[1])
  BY <1>1 DEF WantOK
<1>6. BumpDisjoint
  <2>1. bump # NoBump => bump.region \in given /\ bump.region \in Block
    BY <1>1, <1>2 DEF BumpOK
  <2>2. bump # NoBump => slab.magic[bump.region] = "allocated"
    BY <1>4, <2>1
  <2> QED
    BY <1>1, <2>2 DEF BumpOK, Apart, BumpDisjoint
<1> QED
  BY <1>3, <1>4, <1>5, <1>6 DEF SlabExact

SlabSpec == SlabInit /\ bump = NoBump /\ spans = {} /\ [][SlabNext]_slabvars

THEOREM SlabStaysExact == SlabSpec => []SlabExact
<1>1. SlabInit /\ bump = NoBump /\ spans = {} => SlabInv
  BY SlabInitInv
<1>2. SlabInv /\ [SlabNext]_slabvars => SlabInv'
  BY SlabStepInv
<1>3. SlabInv => SlabExact
  BY SlabInvExact
<1> QED
  BY <1>1, <1>2, <1>3, PTL DEF SlabSpec

-----------------------------------------------------------------------------
(* The L2 heap: headers and links. *)

HeaderType == [size : Nat, prev_size : Nat, used : BOOLEAN, prev : 0 .. HeapUnits, next : 0 .. HeapUnits]

HeapShape(h) ==
    /\ h = [hdr |-> h.hdr, head |-> h.head, alloc_count |-> h.alloc_count,
            free_block_count |-> h.free_block_count]
    /\ h.hdr \in [Units -> HeaderType]
    /\ h.head \in 0 .. HeapUnits
    /\ h.alloc_count \in Int /\ h.free_block_count \in Int

\* Two heaps with the same blocks in the same states.
SameBlocks(g, h) ==
    /\ g.alloc_count = h.alloc_count
    /\ \A u \in Units : /\ g.hdr[u].size = h.hdr[u].size
                        /\ g.hdr[u].prev_size = h.hdr[u].prev_size
                        /\ g.hdr[u].used = h.hdr[u].used

SameLinks(g, h) ==
    /\ g.head = h.head /\ g.free_block_count = h.free_block_count
    /\ \A u \in Units : g.hdr[u].next = h.hdr[u].next /\ g.hdr[u].prev = h.hdr[u].prev

LEMMA HeaderTypes ==
    ASSUME NEW h, HeapShape(h), NEW u \in Units
    PROVE  /\ h.hdr[u] \in HeaderType
           /\ h.hdr[u] = [size |-> h.hdr[u].size, prev_size |-> h.hdr[u].prev_size,
                          used |-> h.hdr[u].used, prev |-> h.hdr[u].prev, next |-> h.hdr[u].next]
           /\ h.hdr[u].size \in Nat /\ h.hdr[u].prev_size \in Nat /\ h.hdr[u].used \in BOOLEAN
           /\ h.hdr[u].prev \in 0 .. HeapUnits /\ h.hdr[u].next \in 0 .. HeapUnits
  BY DEF HeapShape, HeaderType

LEMMA PutHeader ==
    ASSUME NEW h, HeapShape(h), NEW b \in Units, NEW x \in HeaderType
    PROVE  LET g == [h EXCEPT !.hdr[b] = x]
           IN /\ HeapShape(g)
              /\ g.head = h.head /\ g.alloc_count = h.alloc_count
              /\ g.free_block_count = h.free_block_count
              /\ \A u \in Units : g.hdr[u] = IF u = b THEN x ELSE h.hdr[u]
  BY DEF HeapShape

LEMMA PutSize ==
    ASSUME NEW h, HeapShape(h), NEW b \in Units, NEW x \in Nat
    PROVE  LET g == [h EXCEPT !.hdr[b].size = x]
           IN /\ HeapShape(g) /\ SameLinks(g, h) /\ g.alloc_count = h.alloc_count
              /\ \A u \in Units : /\ g.hdr[u].size = IF u = b THEN x ELSE h.hdr[u].size
                                  /\ g.hdr[u].prev_size = h.hdr[u].prev_size
                                  /\ g.hdr[u].used = h.hdr[u].used
<1> DEFINE y == [h.hdr[b] EXCEPT !.size = x]
<1>1. y \in HeaderType /\ y.size = x /\ y.prev_size = h.hdr[b].prev_size /\ y.used = h.hdr[b].used
      /\ y.prev = h.hdr[b].prev /\ y.next = h.hdr[b].next
  BY HeaderTypes DEF HeaderType
<1>2. [h EXCEPT !.hdr[b].size = x] = [h EXCEPT !.hdr[b] = y]
  BY DEF HeapShape
<1> HIDE DEF y
<1> QED
  BY <1>1, <1>2, PutHeader DEF SameLinks

LEMMA PutPrevSize ==
    ASSUME NEW h, HeapShape(h), NEW b \in Units, NEW x \in Nat
    PROVE  LET g == [h EXCEPT !.hdr[b].prev_size = x]
           IN /\ HeapShape(g) /\ SameLinks(g, h) /\ g.alloc_count = h.alloc_count
              /\ \A u \in Units : /\ g.hdr[u].prev_size = IF u = b THEN x ELSE h.hdr[u].prev_size
                                  /\ g.hdr[u].size = h.hdr[u].size
                                  /\ g.hdr[u].used = h.hdr[u].used
<1> DEFINE y == [h.hdr[b] EXCEPT !.prev_size = x]
<1>1. y \in HeaderType /\ y.prev_size = x /\ y.size = h.hdr[b].size /\ y.used = h.hdr[b].used
      /\ y.prev = h.hdr[b].prev /\ y.next = h.hdr[b].next
  BY HeaderTypes DEF HeaderType
<1>2. [h EXCEPT !.hdr[b].prev_size = x] = [h EXCEPT !.hdr[b] = y]
  BY DEF HeapShape
<1> HIDE DEF y
<1> QED
  BY <1>1, <1>2, PutHeader DEF SameLinks

LEMMA PutUsed ==
    ASSUME NEW h, HeapShape(h), NEW b \in Units, NEW x \in BOOLEAN
    PROVE  LET g == [h EXCEPT !.hdr[b].used = x]
           IN /\ HeapShape(g) /\ SameLinks(g, h) /\ g.alloc_count = h.alloc_count
              /\ \A u \in Units : /\ g.hdr[u].used = IF u = b THEN x ELSE h.hdr[u].used
                                  /\ g.hdr[u].size = h.hdr[u].size
                                  /\ g.hdr[u].prev_size = h.hdr[u].prev_size
<1> DEFINE y == [h.hdr[b] EXCEPT !.used = x]
<1>1. y \in HeaderType /\ y.used = x /\ y.size = h.hdr[b].size /\ y.prev_size = h.hdr[b].prev_size
      /\ y.prev = h.hdr[b].prev /\ y.next = h.hdr[b].next
  BY HeaderTypes DEF HeaderType
<1>2. [h EXCEPT !.hdr[b].used = x] = [h EXCEPT !.hdr[b] = y]
  BY DEF HeapShape
<1> HIDE DEF y
<1> QED
  BY <1>1, <1>2, PutHeader DEF SameLinks

LEMMA PutNext ==
    ASSUME NEW h, HeapShape(h), NEW b \in Units, NEW x \in 0 .. HeapUnits
    PROVE  LET g == [h EXCEPT !.hdr[b].next = x]
           IN /\ HeapShape(g) /\ SameBlocks(g, h)
              /\ g.head = h.head /\ g.free_block_count = h.free_block_count
              /\ \A u \in Units : /\ g.hdr[u].next = IF u = b THEN x ELSE h.hdr[u].next
                                  /\ g.hdr[u].prev = h.hdr[u].prev
<1> DEFINE y == [h.hdr[b] EXCEPT !.next = x]
<1>1. y \in HeaderType /\ y.next = x /\ y.size = h.hdr[b].size /\ y.prev_size = h.hdr[b].prev_size
      /\ y.prev = h.hdr[b].prev /\ y.used = h.hdr[b].used
  BY HeaderTypes DEF HeaderType
<1>2. [h EXCEPT !.hdr[b].next = x] = [h EXCEPT !.hdr[b] = y]
  BY DEF HeapShape
<1> HIDE DEF y
<1> QED
  BY <1>1, <1>2, PutHeader DEF SameBlocks

LEMMA PutPrev ==
    ASSUME NEW h, HeapShape(h), NEW b \in Units, NEW x \in 0 .. HeapUnits
    PROVE  LET g == [h EXCEPT !.hdr[b].prev = x]
           IN /\ HeapShape(g) /\ SameBlocks(g, h)
              /\ g.head = h.head /\ g.free_block_count = h.free_block_count
              /\ \A u \in Units : /\ g.hdr[u].prev = IF u = b THEN x ELSE h.hdr[u].prev
                                  /\ g.hdr[u].next = h.hdr[u].next
<1> DEFINE y == [h.hdr[b] EXCEPT !.prev = x]
<1>1. y \in HeaderType /\ y.prev = x /\ y.size = h.hdr[b].size /\ y.prev_size = h.hdr[b].prev_size
      /\ y.next = h.hdr[b].next /\ y.used = h.hdr[b].used
  BY HeaderTypes DEF HeaderType
<1>2. [h EXCEPT !.hdr[b].prev = x] = [h EXCEPT !.hdr[b] = y]
  BY DEF HeapShape
<1> HIDE DEF y
<1> QED
  BY <1>1, <1>2, PutHeader DEF SameBlocks

LEMMA PutHead ==
    ASSUME NEW h, HeapShape(h), NEW x \in 0 .. HeapUnits
    PROVE  LET g == [h EXCEPT !.head = x]
           IN /\ HeapShape(g) /\ SameBlocks(g, h) /\ g.hdr = h.hdr
              /\ g.head = x /\ g.free_block_count = h.free_block_count
  BY DEF HeapShape, SameBlocks

LEMMA PutCount ==
    ASSUME NEW h, HeapShape(h), NEW x \in Int
    PROVE  LET g == [h EXCEPT !.free_block_count = x]
           IN /\ HeapShape(g) /\ SameBlocks(g, h) /\ g.hdr = h.hdr
              /\ g.head = h.head /\ g.free_block_count = x
  BY DEF HeapShape, SameBlocks

LEMMA PutAllocs ==
    ASSUME NEW h, HeapShape(h), NEW x \in Int
    PROVE  LET g == [h EXCEPT !.alloc_count = x]
           IN HeapShape(g) /\ SameLinks(g, h) /\ g.hdr = h.hdr /\ g.alloc_count = x
  BY DEF HeapShape, SameLinks

\* What fl_push and fl_remove do to the links.
LEMMA PushFields ==
    ASSUME NEW h, HeapShape(h), NEW b \in Units, b # h.head
    PROVE  LET g == fl_push(h, b)
           IN /\ HeapShape(g) /\ SameBlocks(g, h)
              /\ g.head = b /\ g.free_block_count = h.free_block_count + 1
              /\ \A u \in Units : /\ g.hdr[u].next = IF u = b THEN h.head ELSE h.hdr[u].next
                                  /\ g.hdr[u].prev = IF u = b THEN Nil
                                                     ELSE IF u = h.head THEN b ELSE h.hdr[u].prev
<1> DEFINE h0 == [h EXCEPT !.hdr[b].prev = Nil]
           h1 == [h0 EXCEPT !.hdr[b].next = h.head]
           h2 == IF h.head = Nil THEN h1 ELSE [h1 EXCEPT !.hdr[h.head].prev = b]
           h3 == [h2 EXCEPT !.head = b]
           g == [h3 EXCEPT !.free_block_count = h3.free_block_count + 1]
<1>1. h.head \in 0 .. HeapUnits /\ h.free_block_count \in Int /\ Nil \in 0 .. HeapUnits /\ Nil \notin Units
      /\ b \in 0 .. HeapUnits
  BY L2Assumption DEF HeapShape, Nil, Units
<1>2. /\ HeapShape(h0) /\ SameBlocks(h0, h) /\ h0.head = h.head /\ h0.free_block_count = h.free_block_count
      /\ \A u \in Units : /\ h0.hdr[u].prev = IF u = b THEN Nil ELSE h.hdr[u].prev
                          /\ h0.hdr[u].next = h.hdr[u].next
  BY <1>1, PutPrev
<1> HIDE DEF h0
<1>3. /\ HeapShape(h1) /\ SameBlocks(h1, h0) /\ h1.head = h.head /\ h1.free_block_count = h.free_block_count
      /\ \A u \in Units : /\ h1.hdr[u].next = IF u = b THEN h.head ELSE h.hdr[u].next
                          /\ h1.hdr[u].prev = IF u = b THEN Nil ELSE h.hdr[u].prev
  BY <1>1, <1>2, PutNext
<1> DEFINE hh == [h EXCEPT !.hdr[b].prev = Nil, !.hdr[b].next = h.head]
<1>4. hh = h1
  BY DEF h0
<1>a. fl_push(h, b) = [IF h.head = Nil THEN hh ELSE [hh EXCEPT !.hdr[h.head].prev = b]
                         EXCEPT !.head = b, !.free_block_count = @ + 1]
  BY DEF fl_push
<1> HIDE DEF h1, hh
<1>b. fl_push(h, b) = [IF h.head = Nil THEN h1 ELSE [h1 EXCEPT !.hdr[h.head].prev = b]
                         EXCEPT !.head = b, !.free_block_count = @ + 1]
  BY <1>4, <1>a
<1>5. /\ HeapShape(h2) /\ SameBlocks(h2, h1) /\ h2.head = h.head /\ h2.free_block_count = h.free_block_count
      /\ \A u \in Units : /\ h2.hdr[u].next = IF u = b THEN h.head ELSE h.hdr[u].next
                          /\ h2.hdr[u].prev = IF u = b THEN Nil
                                              ELSE IF u = h.head THEN b ELSE h.hdr[u].prev
  <2>1. CASE h.head = Nil
    BY <1>1, <1>3, <2>1 DEF SameBlocks
  <2>2. CASE h.head # Nil
    <3>1. h.head \in Units
      BY <1>1, <2>2 DEF Units, Nil
    <3> QED
      BY <1>1, <1>3, <2>2, <3>1, PutPrev
  <2> QED
    BY <2>1, <2>2
<1>6. fl_push(h, b) = [h2 EXCEPT !.head = b, !.free_block_count = @ + 1]
  BY <1>b DEF h2
<1> HIDE DEF h2
<1>7. /\ HeapShape(h3) /\ SameBlocks(h3, h2) /\ h3.hdr = h2.hdr /\ h3.head = b
      /\ h3.free_block_count = h.free_block_count
  BY <1>1, <1>5, PutHead
<1>8. fl_push(h, b) = g
  BY <1>6
<1> HIDE DEF h3
<1>9. HeapShape(g) /\ SameBlocks(g, h3) /\ g.hdr = h2.hdr /\ g.head = b
      /\ g.free_block_count = h.free_block_count + 1
  BY <1>1, <1>7, PutCount
<1>10. SameBlocks(g, h)
  <2> HIDE DEF g
  <2> QED
    BY <1>2, <1>3, <1>5, <1>7, <1>9 DEF SameBlocks
<1> HIDE DEF g
<1> QED
  BY <1>5, <1>8, <1>9, <1>10

LEMMA RemoveFields ==
    ASSUME NEW h, HeapShape(h), NEW b \in Units
    PROVE  LET g == fl_remove(h, b)
               p == h.hdr[b].prev
               n == h.hdr[b].next
           IN /\ HeapShape(g) /\ SameBlocks(g, h)
              /\ g.head = (IF p # Nil THEN h.head ELSE n)
              /\ g.free_block_count = h.free_block_count - 1
              /\ \A u \in Units : /\ g.hdr[u].next = IF u = p THEN n ELSE h.hdr[u].next
                                  /\ g.hdr[u].prev = IF u = n THEN p ELSE h.hdr[u].prev
<1>1. PICK p, n \in 0 .. HeapUnits : p = h.hdr[b].prev /\ n = h.hdr[b].next
  BY HeaderTypes
<1> DEFINE h1 == IF p # Nil THEN [h EXCEPT !.hdr[p].next = n] ELSE [h EXCEPT !.head = n]
           h2 == IF n # Nil THEN [h1 EXCEPT !.hdr[n].prev = p] ELSE h1
           g == [h2 EXCEPT !.free_block_count = h2.free_block_count - 1]
<1>2. Nil \notin Units /\ (p # Nil => p \in Units) /\ (n # Nil => n \in Units) /\ h.free_block_count \in Int
  BY DEF Nil, Units, HeapShape
<1>3. /\ HeapShape(h1) /\ SameBlocks(h1, h) /\ h1.head = (IF p # Nil THEN h.head ELSE n)
      /\ h1.free_block_count = h.free_block_count
      /\ \A u \in Units : /\ h1.hdr[u].next = IF u = p THEN n ELSE h.hdr[u].next
                          /\ h1.hdr[u].prev = h.hdr[u].prev
  <2>1. CASE p # Nil
    BY <1>2, <2>1, PutNext
  <2>2. CASE p = Nil
    BY <1>2, <2>2, PutHead
  <2> QED
    BY <2>1, <2>2
<1>4. fl_remove(h, b) = [h2 EXCEPT !.free_block_count = @ - 1]
  BY <1>1 DEF fl_remove
<1> HIDE DEF h1
<1>5. /\ HeapShape(h2) /\ SameBlocks(h2, h1) /\ h2.head = h1.head
      /\ h2.free_block_count = h.free_block_count
      /\ \A u \in Units : /\ h2.hdr[u].next = h1.hdr[u].next
                          /\ h2.hdr[u].prev = IF u = n THEN p ELSE h.hdr[u].prev
  <2>1. CASE n # Nil
    BY <1>2, <1>3, <2>1, PutPrev
  <2>2. CASE n = Nil
    BY <1>2, <1>3, <2>2 DEF SameBlocks
  <2> QED
    BY <2>1, <2>2
<1>6. fl_remove(h, b) = g
  BY <1>4
<1> HIDE DEF h2
<1>7. HeapShape(g) /\ SameBlocks(g, h2) /\ g.hdr = h2.hdr /\ g.head = h1.head
      /\ g.free_block_count = h.free_block_count - 1
  BY <1>2, <1>5, PutCount
<1> HIDE DEF g
<1>8. SameBlocks(g, h)
  BY <1>3, <1>5, <1>7 DEF SameBlocks
<1> QED
  BY <1>1, <1>3, <1>5, <1>6, <1>7, <1>8

-----------------------------------------------------------------------------
(* The blocks in address order, w[1 .. n], and the free list, f[1 .. m]. *)

Tiles(h, w, n) ==
    /\ n \in Nat \ {0} /\ w \in [1 .. n -> Units] /\ w[1] = 1
    /\ \A i \in 1 .. n :
        /\ h.hdr[w[i]].size >= 2
        /\ w[i] + h.hdr[w[i]].size = IF i = n THEN HeapUnits + 1 ELSE w[i + 1]
        /\ h.hdr[w[i]].prev_size = IF i = 1 THEN 0 ELSE h.hdr[w[i - 1]].size
    /\ \A i, j \in 1 .. n : i < j => w[i] < w[j]

FreeList(h, f, m) ==
    /\ m \in Nat /\ f \in [1 .. m -> Units]
    /\ \A i, j \in 1 .. m : f[i] = f[j] => i = j
    /\ h.head = (IF m = 0 THEN Nil ELSE f[1]) /\ h.free_block_count = m
    /\ \A i \in 1 .. m :
        /\ h.hdr[f[i]].prev = IF i = 1 THEN Nil ELSE f[i - 1]
        /\ h.hdr[f[i]].next = IF i = m THEN Nil ELSE f[i + 1]

Members(w, n) == {w[i] : i \in 1 .. n}

\* Two blocks that touch are not both free, those in X, which a call has in hand, aside.
NoNeighbours(h, w, n, X) ==
    \A i \in 2 .. n : h.hdr[w[i]].used \/ h.hdr[w[i - 1]].used \/ w[i] \in X \/ w[i - 1] \in X

Mid(h, w, n, f, m, X) ==
    /\ HeapShape(h) /\ Tiles(h, w, n) /\ FreeList(h, f, m)
    /\ X \subseteq Members(w, n)
    /\ \A b \in X : ~h.hdr[b].used
    /\ Members(f, m) = {b \in Members(w, n) : ~h.hdr[b].used} \ X
    /\ NoNeighbours(h, w, n, X)

UsedBlocks(h, w, n) == {b \in Members(w, n) : h.hdr[b].used}

Cut(w, n, k) == [i \in 1 .. n - 1 |-> IF i < k THEN w[i] ELSE w[i + 1]]

Insert(w, n, k, x) == [i \in 1 .. n + 1 |-> IF i <= k THEN w[i] ELSE IF i = k + 1 THEN x ELSE w[i - 1]]

LEMMA CutMembers ==
    ASSUME NEW n \in Nat, NEW w \in [1 .. n -> Units], \A i, j \in 1 .. n : w[i] = w[j] => i = j,
           NEW k \in 1 .. n
    PROVE  /\ n - 1 \in Nat /\ Cut(w, n, k) \in [1 .. n - 1 -> Units]
           /\ \A i, j \in 1 .. n - 1 : Cut(w, n, k)[i] = Cut(w, n, k)[j] => i = j
           /\ Members(Cut(w, n, k), n - 1) = Members(w, n) \ {w[k]}
<1> DEFINE c == Cut(w, n, k)
<1>1. n - 1 \in Nat
  OBVIOUS
<1>2. \A i \in 1 .. n - 1 : i \in 1 .. n /\ i + 1 \in 1 .. n
  OBVIOUS
<1>3. \A i \in 1 .. n - 1 : c[i] = IF i < k THEN w[i] ELSE w[i + 1]
  BY DEF Cut
<1>4. c \in [1 .. n - 1 -> Units]
  BY <1>2 DEF Cut
<1> HIDE DEF c
<1>5. \A i, j \in 1 .. n - 1 : c[i] = c[j] => i = j
  BY <1>2, <1>3
<1>6. \A i \in 1 .. n - 1 : c[i] \in Members(w, n) \ {w[k]}
  <2> TAKE i \in 1 .. n - 1
  <2>1. CASE i < k
    BY <1>2, <1>3, <2>1 DEF Members
  <2>2. CASE ~(i < k)
    <3>1. c[i] = w[i + 1] /\ i + 1 \in 1 .. n /\ i + 1 # k
      BY <1>2, <1>3, <2>2
    <3> QED
      BY <3>1 DEF Members
  <2> QED
    BY <2>1, <2>2
<1>7. ASSUME NEW i \in 1 .. n, w[i] # w[k]
      PROVE  w[i] \in Members(c, n - 1)
  <2>1. CASE i < k
    <3>1. i \in 1 .. n - 1 /\ c[i] = w[i]
      BY <1>3, <2>1
    <3> QED
      BY <3>1 DEF Members
  <2>2. CASE i > k
    <3>1. i - 1 \in 1 .. n - 1 /\ ~(i - 1 < k) /\ i - 1 + 1 = i
      BY <2>2
    <3>2. c[i - 1] = w[i]
      BY <1>3, <3>1
    <3> QED
      BY <3>1, <3>2 DEF Members
  <2> QED
    BY <1>7, <2>1, <2>2
<1>8. Members(c, n - 1) = Members(w, n) \ {w[k]}
  <2>1. Members(c, n - 1) \subseteq Members(w, n) \ {w[k]}
    BY <1>6 DEF Members
  <2>2. Members(w, n) \ {w[k]} \subseteq Members(c, n - 1)
    <3> SUFFICES ASSUME NEW x \in Members(w, n) \ {w[k]} PROVE x \in Members(c, n - 1)
      OBVIOUS
    <3>1. PICK i \in 1 .. n : x = w[i]
      BY DEF Members
    <3> QED
      BY <1>7, <3>1
  <2> QED
    BY <2>1, <2>2
<1> QED
  BY <1>1, <1>4, <1>5, <1>8 DEF c

LEMMA InsertMembers ==
    ASSUME NEW n \in Nat, NEW w \in [1 .. n -> Units], NEW k \in 0 .. n, NEW x \in Units
    PROVE  /\ Insert(w, n, k, x) \in [1 .. n + 1 -> Units]
           /\ \A y : y \in Members(Insert(w, n, k, x), n + 1) <=> y \in Members(w, n) \/ y = x
<1> DEFINE c == Insert(w, n, k, x)
<1>1. \A i \in 1 .. n + 1 : /\ i <= k => i \in 1 .. n
                            /\ ~(i <= k) /\ i # k + 1 => i - 1 \in 1 .. n
  OBVIOUS
<1>2. \A i \in 1 .. n + 1 : c[i] = IF i <= k THEN w[i] ELSE IF i = k + 1 THEN x ELSE w[i - 1]
  BY DEF Insert
<1>3. c \in [1 .. n + 1 -> Units]
  BY <1>1 DEF Insert
<1> HIDE DEF c
<1>4. Members(c, n + 1) \subseteq Members(w, n) \cup {x}
  BY <1>1, <1>2 DEF Members
<1>5. x \in Members(c, n + 1)
  <2>1. k + 1 \in 1 .. n + 1 /\ ~(k + 1 <= k)
    OBVIOUS
  <2> QED
    BY <1>2, <2>1 DEF Members
<1>6. ASSUME NEW i \in 1 .. n
      PROVE  w[i] \in Members(c, n + 1)
  <2>1. CASE i <= k
    <3>1. i \in 1 .. n + 1 /\ c[i] = w[i]
      BY <1>2, <2>1
    <3> QED
      BY <3>1 DEF Members
  <2>2. CASE i > k
    <3>1. i + 1 \in 1 .. n + 1 /\ ~(i + 1 <= k) /\ i + 1 # k + 1 /\ i + 1 - 1 = i
      BY <2>2
    <3>2. c[i + 1] = w[i]
      BY <1>2, <3>1
    <3> QED
      BY <3>1, <3>2 DEF Members
  <2> QED
    BY <2>1, <2>2
<1>7. Members(c, n + 1) = Members(w, n) \cup {x}
  <2>1. Members(w, n) \subseteq Members(c, n + 1)
    BY <1>6 DEF Members
  <2> QED
    BY <1>4, <1>5, <2>1
<1> QED
  BY <1>3, <1>7 DEF c

LEMMA TilesInjective ==
    ASSUME NEW h, NEW w, NEW n, Tiles(h, w, n)
    PROVE  /\ n \in Nat /\ w \in [1 .. n -> Units]
           /\ \A i, j \in 1 .. n : w[i] = w[j] => i = j
           /\ Members(w, n) \subseteq Units
<1>1. n \in Nat /\ w \in [1 .. n -> Units] /\ \A i, j \in 1 .. n : i < j => w[i] < w[j]
  BY DEF Tiles
<1>2. \A i \in 1 .. n : w[i] \in Int
  BY <1>1 DEF Units
<1> QED
  BY <1>1, <1>2 DEF Members

\* Taking a free block out of the list.
LEMMA RemoveMid ==
    ASSUME NEW h, NEW w, NEW n, NEW f, NEW m, NEW X, Mid(h, w, n, f, m, X), NEW k \in 1 .. m
    PROVE  Mid(fl_remove(h, f[k]), w, n, Cut(f, m, k), m - 1, X \cup {f[k]})
<1> DEFINE b == f[k]
           p == h.hdr[b].prev
           s == h.hdr[b].next
           g == fl_remove(h, b)
           c == Cut(f, m, k)
<1>1. HeapShape(h) /\ Tiles(h, w, n) /\ FreeList(h, f, m)
  BY DEF Mid
<1>2. /\ m \in Nat /\ f \in [1 .. m -> Units] /\ \A i, j \in 1 .. m : f[i] = f[j] => i = j
      /\ b \in Units
  BY <1>1 DEF FreeList
<1>3. /\ HeapShape(g) /\ SameBlocks(g, h)
      /\ g.head = (IF p # Nil THEN h.head ELSE s)
      /\ g.free_block_count = h.free_block_count - 1
      /\ \A u \in Units : /\ g.hdr[u].next = IF u = p THEN s ELSE h.hdr[u].next
                          /\ g.hdr[u].prev = IF u = s THEN p ELSE h.hdr[u].prev
  BY <1>1, <1>2, RemoveFields
<1>4. /\ m - 1 \in Nat /\ c \in [1 .. m - 1 -> Units]
      /\ \A i, j \in 1 .. m - 1 : c[i] = c[j] => i = j
      /\ Members(c, m - 1) = Members(f, m) \ {b}
  BY <1>2, CutMembers
<1>5. p = (IF k = 1 THEN Nil ELSE f[k - 1]) /\ s = (IF k = m THEN Nil ELSE f[k + 1])
  BY <1>1 DEF FreeList
<1>6. \A i \in 1 .. m : f[i] # Nil
  BY <1>2 DEF Units, Nil
<1>7. \A i \in 1 .. m - 1 : c[i] = IF i < k THEN f[i] ELSE f[i + 1]
  BY DEF Cut
<1> HIDE DEF b, p, s, g, c
<1>8. g.head = (IF m - 1 = 0 THEN Nil ELSE c[1]) /\ g.free_block_count = m - 1
  <2>1. h.head = f[1] /\ h.free_block_count = m
    BY <1>1 DEF FreeList
  <2>2. CASE k = 1
    <3>1. g.head = s /\ s = IF m = 1 THEN Nil ELSE f[2]
      BY <1>3, <1>5, <2>2
    <3>2. m # 1 => 1 \in 1 .. m - 1 /\ m - 1 # 0
      BY <1>2, <2>2
    <3>3. m # 1 => c[1] = f[2]
      BY <1>7, <2>2, <3>2
    <3> QED
      BY <1>2, <1>3, <2>1, <3>1, <3>2, <3>3
  <2>3. CASE k # 1
    <3>1. k - 1 \in 1 .. m /\ m # 1 /\ 1 \in 1 .. m - 1 /\ 1 < k
      BY <1>2, <2>3
    <3> QED
      BY <1>3, <1>5, <1>6, <1>7, <2>1, <3>1
  <2> QED
    BY <2>2, <2>3
<1>9. ASSUME NEW i \in 1 .. m
      PROVE  /\ h.hdr[f[i]].prev = IF i = 1 THEN Nil ELSE f[i - 1]
             /\ h.hdr[f[i]].next = IF i = m THEN Nil ELSE f[i + 1]
             /\ g.hdr[f[i]].next = IF f[i] = p THEN s ELSE h.hdr[f[i]].next
             /\ g.hdr[f[i]].prev = IF f[i] = s THEN p ELSE h.hdr[f[i]].prev
             /\ f[i] = p <=> i = k - 1
             /\ f[i] = s <=> i = k + 1
  <2>1. /\ h.hdr[f[i]].prev = IF i = 1 THEN Nil ELSE f[i - 1]
        /\ h.hdr[f[i]].next = IF i = m THEN Nil ELSE f[i + 1]
    BY <1>1 DEF FreeList
  <2>2. f[i] = p <=> i = k - 1
    <3>1. k # 1 => k - 1 \in 1 .. m
      BY <1>2
    <3> QED
      BY <1>2, <1>5, <1>6, <3>1
  <2>3. f[i] = s <=> i = k + 1
    <3>1. k # m => k + 1 \in 1 .. m
      BY <1>2
    <3> QED
      BY <1>2, <1>5, <1>6, <3>1
  <2> QED
    BY <1>2, <1>3, <2>1, <2>2, <2>3
<1>10. ASSUME NEW i \in 1 .. m - 1
       PROVE  /\ g.hdr[c[i]].prev = IF i = 1 THEN Nil ELSE c[i - 1]
              /\ g.hdr[c[i]].next = IF i = m - 1 THEN Nil ELSE c[i + 1]
  <2>1. i \in 1 .. m /\ i + 1 \in 1 .. m /\ i + 1 - 1 = i /\ m - 1 + 1 = m
    BY <1>2
  <2>2. (i # 1 => i - 1 \in 1 .. m - 1) /\ (i # m - 1 => i + 1 \in 1 .. m - 1)
    BY <1>2
  <2>3. CASE i < k - 1
    BY <1>2, <1>7, <1>9, <2>1, <2>2, <2>3
  <2>4. CASE i = k - 1
    <3>1. c[i] = f[i] /\ f[i] = p /\ f[i] # s /\ k # 1
      BY <1>7, <1>9, <2>1, <2>4
    <3>2. g.hdr[c[i]].next = s /\ g.hdr[c[i]].prev = IF i = 1 THEN Nil ELSE f[i - 1]
      BY <1>9, <2>1, <3>1
    <3>3. i # 1 => c[i - 1] = f[i - 1]
      BY <1>7, <2>2, <2>4
    <3>4. k # m => k \in 1 .. m - 1 /\ c[k] = f[k + 1]
      BY <1>2, <1>7
    <3> QED
      BY <1>2, <1>5, <2>4, <3>2, <3>3, <3>4
  <2>5. CASE i = k
    <3>1. c[i] = f[k + 1] /\ f[k + 1] = s /\ f[k + 1] # p
      BY <1>7, <1>9, <2>1, <2>5
    <3>2. g.hdr[c[i]].prev = p /\ g.hdr[c[i]].next = IF k + 1 = m THEN Nil ELSE f[k + 1 + 1]
      BY <1>9, <2>1, <2>5, <3>1
    <3>3. k # 1 => c[i - 1] = f[k - 1]
      BY <1>7, <2>2, <2>5
    <3>4. i # m - 1 => c[i + 1] = f[k + 1 + 1]
      <4>1. i # m - 1 => i + 1 \in 1 .. m - 1 /\ ~(i + 1 < k)
        BY <2>2, <2>5
      <4> QED
        BY <1>7, <2>5, <4>1
    <3> QED
      BY <1>2, <1>5, <2>5, <3>2, <3>3, <3>4
  <2>6. CASE i > k
    BY <1>2, <1>7, <1>9, <2>1, <2>2, <2>6
  <2> QED
    BY <1>2, <2>3, <2>4, <2>5, <2>6
<1>11. FreeList(g, c, m - 1)
  BY <1>4, <1>8, <1>10 DEF FreeList
<1>12. Members(w, n) \subseteq Units /\ w \in [1 .. n -> Units] /\ n \in Nat
  BY <1>1, TilesInjective
<1>13. Tiles(g, w, n)
  <2>1. \A i \in 1 .. n : /\ g.hdr[w[i]].size = h.hdr[w[i]].size
                          /\ g.hdr[w[i]].prev_size = h.hdr[w[i]].prev_size
    BY <1>3, <1>12 DEF SameBlocks
  <2>2. \A i \in 1 .. n : i # 1 => i - 1 \in 1 .. n
    BY <1>12
  <2> QED
    BY <1>1, <2>1, <2>2 DEF Tiles
<1>14. \A x \in Members(w, n) : g.hdr[x].used = h.hdr[x].used
  BY <1>3, <1>12 DEF SameBlocks
<1>15. b \in {x \in Members(w, n) : ~h.hdr[x].used} \ X
  <2>1. b \in Members(f, m)
    BY DEF b, Members
  <2> QED
    BY <2>1 DEF Mid
<1>16. NoNeighbours(g, w, n, X \cup {b})
  <2>1. \A i \in 2 .. n : w[i] \in Members(w, n) /\ w[i - 1] \in Members(w, n)
    BY <1>12 DEF Members
  <2>2. NoNeighbours(h, w, n, X)
    BY DEF Mid
  <2> QED
    BY <1>14, <2>1, <2>2 DEF NoNeighbours
<1>17. Mid(g, w, n, c, m - 1, X \cup {b})
  <2>1. Members(c, m - 1) = {x \in Members(w, n) : ~g.hdr[x].used} \ (X \cup {b})
    <3>1. Members(f, m) = {x \in Members(w, n) : ~h.hdr[x].used} \ X
      BY DEF Mid
    <3> QED
      BY <1>4, <1>14, <3>1
  <2>2. X \cup {b} \subseteq Members(w, n) /\ \A x \in X \cup {b} : ~g.hdr[x].used
    <3>1. X \subseteq Members(w, n) /\ \A x \in X : ~h.hdr[x].used
      BY DEF Mid
    <3> QED
      BY <1>14, <1>15, <3>1
  <2> QED
    BY <1>3, <1>11, <1>13, <1>16, <2>1, <2>2 DEF Mid
<1> QED
  BY <1>17 DEF b, g, c

\* Putting a block in hand, whose neighbours are used, at the front of the list.
LEMMA PushMid ==
    ASSUME NEW h, NEW w, NEW n, NEW f, NEW m, NEW X, Mid(h, w, n, f, m, X), NEW b \in X,
           \A i \in 2 .. n : /\ w[i] = b => h.hdr[w[i - 1]].used \/ w[i - 1] \in X \ {b}
                             /\ w[i - 1] = b => h.hdr[w[i]].used \/ w[i] \in X \ {b}
    PROVE  Mid(fl_push(h, b), w, n, Insert(f, m, 0, b), m + 1, X \ {b})
<1> DEFINE g == fl_push(h, b)
           c == Insert(f, m, 0, b)
<1>1. HeapShape(h) /\ Tiles(h, w, n) /\ FreeList(h, f, m)
  BY DEF Mid
<1>2. m \in Nat /\ f \in [1 .. m -> Units] /\ \A i, j \in 1 .. m : f[i] = f[j] => i = j
  BY <1>1 DEF FreeList
<1>3. Members(w, n) \subseteq Units /\ w \in [1 .. n -> Units] /\ n \in Nat
  BY <1>1, TilesInjective
<1>4. b \in Members(w, n) /\ ~h.hdr[b].used /\ b \notin Members(f, m) /\ b \in Units
  BY <1>3 DEF Mid
<1>5. /\ m # 0 => h.head = f[1] /\ 1 \in 1 .. m
      /\ m = 0 => h.head = Nil
      /\ \A i \in 1 .. m : f[i] # b /\ f[i] # Nil
      /\ b # Nil
  <2>1. Nil \notin Units
    BY DEF Units, Nil
  <2>2. \A i \in 1 .. m : f[i] \in Members(f, m)
    BY DEF Members
  <2>3. (m # 0 => h.head = f[1] /\ 1 \in 1 .. m) /\ (m = 0 => h.head = Nil)
    BY <1>1, <1>2 DEF FreeList
  <2> QED
    BY <1>2, <1>4, <2>1, <2>2, <2>3
<1>6. h.head # b
  BY <1>5
<1>7. /\ HeapShape(g) /\ SameBlocks(g, h)
      /\ g.head = b /\ g.free_block_count = h.free_block_count + 1
      /\ \A u \in Units : /\ g.hdr[u].next = IF u = b THEN h.head ELSE h.hdr[u].next
                          /\ g.hdr[u].prev = IF u = b THEN Nil
                                             ELSE IF u = h.head THEN b ELSE h.hdr[u].prev
  BY <1>1, <1>4, <1>6, PushFields
<1>8. c \in [1 .. m + 1 -> Units] /\ Members(c, m + 1) = Members(f, m) \cup {b}
  <2>1. PICK z \in 0 .. m : z = 0
    BY <1>2
  <2>2. /\ Insert(f, m, z, b) \in [1 .. m + 1 -> Units]
        /\ \A y : y \in Members(Insert(f, m, z, b), m + 1) <=> y \in Members(f, m) \/ y = b
    BY <1>2, <1>4, InsertMembers
  <2> QED
    BY <2>1, <2>2
<1>9. \A i \in 1 .. m + 1 : c[i] = IF i = 1 THEN b ELSE f[i - 1]
  BY <1>2 DEF Insert
<1> HIDE DEF g, c
<1>10. \A i \in 1 .. m + 1 : i # 1 => i - 1 \in 1 .. m
  BY <1>2
<1>11. \A i, j \in 1 .. m + 1 : c[i] = c[j] => i = j
  BY <1>2, <1>5, <1>9, <1>10
<1>12. ASSUME NEW i \in 1 .. m + 1
       PROVE  /\ g.hdr[c[i]].prev = IF i = 1 THEN Nil ELSE c[i - 1]
              /\ g.hdr[c[i]].next = IF i = m + 1 THEN Nil ELSE c[i + 1]
  <2>1. CASE i = 1
    <3>1. m # 0 => 2 \in 1 .. m + 1 /\ c[2] = f[1] /\ i + 1 = 2
      BY <1>2, <1>9, <2>1
    <3>2. m = 0 => i = m + 1
      BY <2>1
    <3>3. m # 0 => i # m + 1
      BY <1>2, <2>1
    <3>4. c[i] = b
      BY <1>9, <2>1
    <3> QED
      BY <1>4, <1>5, <1>7, <2>1, <3>1, <3>2, <3>3, <3>4
  <2>2. CASE i # 1
    <3>1. i - 1 \in 1 .. m /\ c[i] = f[i - 1] /\ f[i - 1] \in Units
      BY <1>2, <1>9, <1>10, <2>2
    <3>2. /\ h.hdr[f[i - 1]].prev = IF i - 1 = 1 THEN Nil ELSE f[i - 1 - 1]
          /\ h.hdr[f[i - 1]].next = IF i - 1 = m THEN Nil ELSE f[i - 1 + 1]
      BY <1>1, <3>1 DEF FreeList
    <3>3. g.hdr[c[i]].next = IF i = m + 1 THEN Nil ELSE c[i + 1]
      <4>1. g.hdr[c[i]].next = h.hdr[f[i - 1]].next
        BY <1>5, <1>7, <3>1
      <4>2. i # m + 1 => i + 1 \in 1 .. m + 1 /\ i + 1 # 1 /\ i + 1 - 1 = i - 1 + 1 /\ i - 1 # m
        BY <1>2
      <4>3. i # m + 1 => c[i + 1] = f[i - 1 + 1]
        BY <1>9, <4>2
      <4>4. i = m + 1 => i - 1 = m
        BY <1>2
      <4> QED
        BY <3>2, <4>1, <4>2, <4>3, <4>4
    <3>4. g.hdr[c[i]].prev = c[i - 1]
      <4>1. CASE i - 1 = 1
        <5>1. f[i - 1] = h.head /\ c[i - 1] = b
          BY <1>2, <1>5, <1>9, <3>1, <4>1
        <5> QED
          BY <1>6, <1>7, <3>1, <5>1
      <4>2. CASE i - 1 # 1
        <5>1. i - 1 \in 1 .. m + 1 /\ c[i - 1] = f[i - 1 - 1]
          BY <1>2, <1>9, <3>1, <4>2
        <5>2. f[i - 1] # h.head
          BY <1>2, <1>5, <3>1, <4>2
        <5> QED
          BY <1>5, <1>7, <3>1, <3>2, <4>2, <5>1, <5>2
      <4> QED
        BY <4>1, <4>2
    <3> QED
      BY <2>2, <3>3, <3>4
  <2> QED
    BY <2>1, <2>2
<1>13. FreeList(g, c, m + 1)
  <2>1. m + 1 \in Nat /\ m + 1 # 0 /\ h.free_block_count = m /\ 1 \in 1 .. m + 1
    BY <1>1, <1>2 DEF FreeList
  <2>2. g.head = c[1] /\ g.free_block_count = m + 1
    BY <1>7, <1>9, <2>1
  <2> QED
    BY <1>8, <1>11, <1>12, <2>1, <2>2 DEF FreeList
<1>14. Tiles(g, w, n)
  <2>1. \A i \in 1 .. n : /\ g.hdr[w[i]].size = h.hdr[w[i]].size
                          /\ g.hdr[w[i]].prev_size = h.hdr[w[i]].prev_size
    BY <1>3, <1>7 DEF SameBlocks
  <2>2. \A i \in 1 .. n : i # 1 => i - 1 \in 1 .. n
    BY <1>3
  <2> QED
    BY <1>1, <2>1, <2>2 DEF Tiles
<1>15. \A x \in Members(w, n) : g.hdr[x].used = h.hdr[x].used
  BY <1>3, <1>7 DEF SameBlocks
<1>16. NoNeighbours(g, w, n, X \ {b})
  <2>1. \A i \in 2 .. n : w[i] \in Members(w, n) /\ w[i - 1] \in Members(w, n)
    BY <1>3 DEF Members
  <2>2. NoNeighbours(h, w, n, X)
    BY DEF Mid
  <2> QED
    BY <1>15, <2>1, <2>2 DEF NoNeighbours
<1>17. Mid(g, w, n, c, m + 1, X \ {b})
  <2>1. Members(f, m) = {x \in Members(w, n) : ~h.hdr[x].used} \ X
        /\ X \subseteq Members(w, n) /\ \A x \in X : ~h.hdr[x].used
    BY DEF Mid
  <2>2. Members(c, m + 1) = {x \in Members(w, n) : ~g.hdr[x].used} \ (X \ {b})
    BY <1>4, <1>8, <1>15, <2>1
  <2>3. X \ {b} \subseteq Members(w, n) /\ \A x \in X \ {b} : ~g.hdr[x].used
    BY <1>15, <2>1
  <2> QED
    BY <1>7, <1>13, <1>14, <1>16, <2>2, <2>3 DEF Mid
<1> QED
  BY <1>17 DEF g, c

\* The free list does not see what happens outside its blocks.
LEMMA SameFreeList ==
    ASSUME NEW g, NEW h, NEW f, NEW m, FreeList(h, f, m),
           g.head = h.head, g.free_block_count = h.free_block_count,
           \A u \in Members(f, m) : g.hdr[u].next = h.hdr[u].next /\ g.hdr[u].prev = h.hdr[u].prev
    PROVE  FreeList(g, f, m)
<1>1. \A i \in 1 .. m : /\ g.hdr[f[i]].next = h.hdr[f[i]].next
                        /\ g.hdr[f[i]].prev = h.hdr[f[i]].prev
  BY DEF Members
<1> QED
  BY <1>1 DEF FreeList

LEMMA TellFields ==
    ASSUME NEW h, HeapShape(h), NEW b \in Units, h.hdr[b].size > 0
    PROVE  LET g == TellNext(h, b)
           IN /\ HeapShape(g) /\ SameLinks(g, h) /\ g.alloc_count = h.alloc_count
              /\ \A u \in Units :
                    /\ g.hdr[u].prev_size = IF u = b + h.hdr[b].size THEN h.hdr[b].size
                                            ELSE h.hdr[u].prev_size
                    /\ g.hdr[u].size = h.hdr[u].size /\ g.hdr[u].used = h.hdr[u].used
<1> DEFINE g == TellNext(h, b)
           e == b + h.hdr[b].size
<1>1. h.hdr[b].size \in Nat /\ b \in Nat \ {0} /\ HeapUnits \in Nat
  <2>1. h.hdr[b].size \in Nat
    BY HeaderTypes
  <2> QED
    BY <2>1, L2Assumption DEF Units
<1>2. CASE e > HeapUnits
  <2>1. g = h
    BY <1>2 DEF TellNext, next_block, Nil
  <2>2. e \notin Units
    BY <1>1, <1>2 DEF Units
  <2> QED
    BY <2>1, <2>2 DEF SameLinks
<1>3. CASE ~(e > HeapUnits)
  <2>1. e \in Units /\ e # Nil
    BY <1>1, <1>3 DEF Units, Nil
  <2>2. g = [h EXCEPT !.hdr[e].prev_size = h.hdr[b].size]
    BY <1>3, <2>1 DEF TellNext, next_block
  <2> HIDE DEF g, e
  <2>3. /\ HeapShape(g) /\ SameLinks(g, h) /\ g.alloc_count = h.alloc_count
        /\ \A u \in Units : /\ g.hdr[u].prev_size = IF u = e THEN h.hdr[b].size ELSE h.hdr[u].prev_size
                            /\ g.hdr[u].size = h.hdr[u].size /\ g.hdr[u].used = h.hdr[u].used
    BY <1>1, <2>1, <2>2, PutPrevSize
  <2> QED
    BY <2>3 DEF g, e
<1> QED
  BY <1>2, <1>3

\* Where a block ends and who comes next.
LEMMA TilesBounds ==
    ASSUME NEW h, HeapShape(h), NEW w, NEW n, Tiles(h, w, n)
    PROVE  /\ \A i \in 1 .. n : /\ w[i] \in Units /\ w[i] \in Nat \ {0} /\ w[i] <= HeapUnits
                                /\ h.hdr[w[i]].size \in Nat /\ h.hdr[w[i]].size >= 2
                                /\ w[i] + h.hdr[w[i]].size <= HeapUnits + 1
           /\ \A i, j \in 1 .. n : i < j => w[i] + h.hdr[w[i]].size <= w[j]
           /\ HeapUnits \in Nat
<1>1. n \in Nat /\ w \in [1 .. n -> Units] /\ HeapUnits \in Nat
  BY L2Assumption DEF Tiles
<1>2. \A i \in 1 .. n : w[i] \in Units /\ w[i] \in Nat \ {0} /\ w[i] <= HeapUnits
  BY <1>1 DEF Units
<1>3. \A i \in 1 .. n : h.hdr[w[i]].size \in Nat /\ h.hdr[w[i]].size >= 2
  BY <1>2, HeaderTypes DEF Tiles
<1>4. \A i \in 1 .. n : w[i] + h.hdr[w[i]].size = IF i = n THEN HeapUnits + 1 ELSE w[i + 1]
  BY DEF Tiles
<1>5. \A i, j \in 1 .. n : i < j => w[i] < w[j]
  BY DEF Tiles
<1>6. \A i \in 1 .. n : i # n => i + 1 \in 1 .. n
  BY <1>1
<1>7. ASSUME NEW i \in 1 .. n, NEW j \in 1 .. n, i < j
      PROVE  w[i] + h.hdr[w[i]].size <= w[j]
  <2>1. i # n /\ i + 1 \in 1 .. n
    BY <1>1, <1>7
  <2>2. w[i] + h.hdr[w[i]].size = w[i + 1]
    BY <1>4, <2>1
  <2>3. CASE i + 1 = j
    BY <1>2, <2>2, <2>3
  <2>4. CASE i + 1 # j
    <3>1. i + 1 < j
      BY <1>7, <2>4
    <3>2. w[i + 1] < w[j]
      BY <1>5, <2>1, <3>1
    <3> QED
      BY <1>2, <2>1, <2>2, <3>2
  <2> QED
    BY <2>3, <2>4
<1>8. \A i \in 1 .. n : w[i] + h.hdr[w[i]].size <= HeapUnits + 1
  <2> TAKE i \in 1 .. n
  <2>1. CASE i = n
    BY <1>1, <1>4, <2>1
  <2>2. CASE i # n
    BY <1>1, <1>2, <1>4, <1>6, <2>2
  <2> QED
    BY <2>1, <2>2
<1> QED
  BY <1>1, <1>2, <1>3, <1>7, <1>8

\* What Split does to the headers.
SplitOff(h, b, size) ==
    [TellNext([h EXCEPT !.hdr[b + size] = Header(h.hdr[b].size - size, size)], b + size)
        EXCEPT !.hdr[b].size = size]

\* A block of the heap h has been cut in two: at cut begins a block of its own, and nothing else has changed.
CutOff(g, v, h, w, n, k, cut, size) ==
    /\ cut \in Units /\ cut \notin Members(w, n)
    /\ \A u : u \in Members(v, n + 1) <=> u \in Members(w, n) \/ u = cut
    /\ v[k + 1] = cut
    /\ g.alloc_count = h.alloc_count /\ g.hdr[w[k]].size = size
    /\ \A u \in Members(w, n) : /\ g.hdr[u].used = h.hdr[u].used
                                /\ u # w[k] => g.hdr[u].size = h.hdr[u].size

\* A block in hand is cut in two; the tail is in hand as well.
LEMMA SplitMid ==
    ASSUME NEW h, NEW w, NEW n, NEW f, NEW m, NEW X, Mid(h, w, n, f, m, X),
           NEW k \in 1 .. n, w[k] \in X, NEW size \in Nat, size >= 2,
           h.hdr[w[k]].size - size >= 2
    PROVE  LET cut == w[k] + size
               g == SplitOff(h, w[k], size)
               v == Insert(w, n, k, cut)
           IN /\ Mid(g, v, n + 1, f, m, X \cup {cut})
              /\ CutOff(g, v, h, w, n, k, cut, size)
<1> DEFINE b == w[k]
           cut == b + size
           rest == h.hdr[b].size - size
           x == Header(rest, size)
           h0 == [h EXCEPT !.hdr[cut] = x]
           h1 == TellNext(h0, cut)
           g == [h1 EXCEPT !.hdr[b].size = size]
           v == Insert(w, n, k, cut)
<1>1. HeapShape(h) /\ Tiles(h, w, n) /\ FreeList(h, f, m)
  BY DEF Mid
<1>2. /\ \A i \in 1 .. n : /\ w[i] \in Units /\ w[i] \in Nat \ {0} /\ w[i] <= HeapUnits
                           /\ h.hdr[w[i]].size \in Nat /\ h.hdr[w[i]].size >= 2
                           /\ w[i] + h.hdr[w[i]].size <= HeapUnits + 1
      /\ \A i, j \in 1 .. n : i < j => w[i] + h.hdr[w[i]].size <= w[j]
      /\ HeapUnits \in Nat
  BY <1>1, TilesBounds
<1>3. n \in Nat /\ w \in [1 .. n -> Units] /\ \A i, j \in 1 .. n : w[i] = w[j] => i = j
  BY <1>1, TilesInjective
<1>4. /\ b \in Units /\ b \in Nat \ {0} /\ rest \in Nat /\ rest >= 2
      /\ cut \in Nat /\ cut + rest = b + h.hdr[b].size /\ cut + rest <= HeapUnits + 1
  BY <1>2
<1>5. cut \in Units /\ cut # b
  BY <1>2, <1>4 DEF Units
<1>6. \A i \in 1 .. n : w[i] # cut /\ (w[i] = b <=> i = k)
                        /\ (i < k => w[i] < cut) /\ (i > k => cut + rest <= w[i])
  <2> TAKE i \in 1 .. n
  <2>1. CASE i < k
    BY <1>2, <1>4, <2>1
  <2>2. CASE i = k
    BY <1>2, <1>4, <1>5, <2>2
  <2>3. CASE i > k
    BY <1>2, <1>4, <2>3
  <2> QED
    BY <2>1, <2>2, <2>3
<1>7. /\ x \in HeaderType /\ x.size = rest /\ x.prev_size = size /\ x.used = FALSE
      /\ x.next = Nil /\ x.prev = Nil
  <2>1. x = [size |-> rest, prev_size |-> size, used |-> FALSE, prev |-> 0, next |-> 0]
    BY DEF Header, Nil
  <2>2. 0 \in 0 .. HeapUnits /\ rest \in Nat
    BY <1>2, <1>4
  <2> HIDE DEF x, cut, rest
  <2> QED
    BY <2>1, <2>2 DEF HeaderType, Nil
<1>8. /\ v \in [1 .. n + 1 -> Units] /\ Members(v, n + 1) = Members(w, n) \cup {cut}
      /\ \A i \in 1 .. n + 1 : v[i] = IF i <= k THEN w[i] ELSE IF i = k + 1 THEN cut ELSE w[i - 1]
  <2>1. k \in 0 .. n
    OBVIOUS
  <2>2. \A i \in 1 .. n + 1 : v[i] = IF i <= k THEN w[i] ELSE IF i = k + 1 THEN cut ELSE w[i - 1]
    BY DEF Insert
  <2>3. cut \in Units
    BY <1>5
  <2> HIDE DEF cut
  <2>4. v \in [1 .. n + 1 -> Units] /\ Members(v, n + 1) = Members(w, n) \cup {cut}
    <3>1. n \in Nat /\ w \in [1 .. n -> Units]
      BY <1>3
    <3>2. /\ Insert(w, n, k, cut) \in [1 .. n + 1 -> Units]
          /\ \A y : y \in Members(Insert(w, n, k, cut), n + 1) <=> y \in Members(w, n) \/ y = cut
      BY <2>1, <2>3, <3>1, InsertMembers
    <3> QED
      BY <3>2
  <2> QED
    BY <2>2, <2>4
<1> HIDE DEF x, v
<1>9. /\ HeapShape(h0) /\ h0.head = h.head /\ h0.alloc_count = h.alloc_count
      /\ h0.free_block_count = h.free_block_count
      /\ \A u \in Units : h0.hdr[u] = IF u = cut THEN x ELSE h.hdr[u]
  <2> HIDE DEF cut
  <2> QED
    BY <1>1, <1>5, <1>7, PutHeader
<1> HIDE DEF h0
<1>10. /\ HeapShape(h1) /\ SameLinks(h1, h0) /\ h1.alloc_count = h0.alloc_count
       /\ \A u \in Units : /\ h1.hdr[u].prev_size = IF u = cut + rest THEN rest ELSE h0.hdr[u].prev_size
                           /\ h1.hdr[u].size = h0.hdr[u].size /\ h1.hdr[u].used = h0.hdr[u].used
  <2>1. h0.hdr[cut].size = rest /\ rest > 0
    BY <1>4, <1>5, <1>7, <1>9
  <2> HIDE DEF cut, rest
  <2> QED
    BY <1>5, <1>9, <2>1, TellFields
<1> HIDE DEF h1
<1>11. /\ HeapShape(g) /\ SameLinks(g, h1) /\ g.alloc_count = h1.alloc_count
       /\ \A u \in Units : /\ g.hdr[u].size = IF u = b THEN size ELSE h1.hdr[u].size
                           /\ g.hdr[u].prev_size = h1.hdr[u].prev_size
                           /\ g.hdr[u].used = h1.hdr[u].used
  <2> HIDE DEF b
  <2> QED
    BY <1>4, <1>10, PutSize
<1> HIDE DEF g
<1>12. /\ g.alloc_count = h.alloc_count /\ g.head = h.head /\ g.free_block_count = h.free_block_count
       /\ \A u \in Units :
            /\ g.hdr[u].size = IF u = b THEN size ELSE IF u = cut THEN rest ELSE h.hdr[u].size
            /\ g.hdr[u].prev_size = IF u = cut + rest THEN rest ELSE IF u = cut THEN size
                                    ELSE h.hdr[u].prev_size
            /\ g.hdr[u].used = IF u = cut THEN FALSE ELSE h.hdr[u].used
            /\ u # cut => g.hdr[u].next = h.hdr[u].next /\ g.hdr[u].prev = h.hdr[u].prev
  <2> HIDE DEF b, cut, rest
  <2> QED
    <3>1. \A u \in Units : /\ g.hdr[u].next = h0.hdr[u].next /\ g.hdr[u].prev = h0.hdr[u].prev
                           /\ g.hdr[u].used = h0.hdr[u].used
                           /\ g.hdr[u].size = IF u = b THEN size ELSE h0.hdr[u].size
                           /\ g.hdr[u].prev_size = IF u = cut + rest THEN rest ELSE h0.hdr[u].prev_size
      BY <1>10, <1>11 DEF SameLinks
    <3>2. /\ g.alloc_count = h.alloc_count /\ g.head = h.head
          /\ g.free_block_count = h.free_block_count
      BY <1>9, <1>10, <1>11 DEF SameLinks
    <3>3. ASSUME NEW u \in Units, u = cut
          PROVE  h0.hdr[u].size = rest /\ h0.hdr[u].prev_size = size /\ h0.hdr[u].used = FALSE
      BY <1>7, <1>9, <3>3
    <3>4. ASSUME NEW u \in Units, u # cut
          PROVE  h0.hdr[u] = h.hdr[u]
      BY <1>9, <3>4
    <3> QED
      BY <1>5, <3>1, <3>2, <3>3, <3>4
<1>13. cut + rest # cut /\ b # cut + rest
  BY <1>4
<1>14. cut \notin Members(w, n) /\ Members(w, n) \subseteq Units
  BY <1>3, <1>6 DEF Members
<1>15. ASSUME NEW i \in 1 .. n
       PROVE  /\ h.hdr[w[i]].size >= 2
              /\ w[i] + h.hdr[w[i]].size = IF i = n THEN HeapUnits + 1 ELSE w[i + 1]
              /\ h.hdr[w[i]].prev_size = IF i = 1 THEN 0 ELSE h.hdr[w[i - 1]].size
              /\ g.hdr[w[i]].size = IF i = k THEN size ELSE h.hdr[w[i]].size
              /\ g.hdr[w[i]].prev_size = IF i = k + 1 THEN rest ELSE h.hdr[w[i]].prev_size
  <2>1. /\ h.hdr[w[i]].size >= 2
        /\ w[i] + h.hdr[w[i]].size = IF i = n THEN HeapUnits + 1 ELSE w[i + 1]
        /\ h.hdr[w[i]].prev_size = IF i = 1 THEN 0 ELSE h.hdr[w[i - 1]].size
    BY <1>1 DEF Tiles
  <2>2. w[i] = cut + rest <=> i = k + 1
    <3>1. k # n => k + 1 \in 1 .. n /\ w[k + 1] = cut + rest
      <4>1. k # n => b + h.hdr[b].size = w[k + 1]
        BY <1>1 DEF Tiles
      <4>2. k # n => k + 1 \in 1 .. n
        BY <1>3
      <4> QED
        BY <1>4, <4>1, <4>2
    <3>2. w[i] # cut + rest \/ i > k
      BY <1>2, <1>4, <1>6
    <3>3. k = n => w[i] # cut + rest
      BY <1>3, <3>2
    <3> QED
      BY <1>3, <3>1, <3>3
  <2>3. w[i] \in Units /\ w[i] # cut /\ (w[i] = b <=> i = k)
    BY <1>2, <1>6
  <2> HIDE DEF b, cut, rest
  <2> QED
    BY <1>12, <2>1, <2>2, <2>3
<1>16. g.hdr[cut].size = rest /\ g.hdr[cut].prev_size = size /\ g.hdr[cut].used = FALSE
  <2> HIDE DEF b, rest
  <2> QED
    BY <1>5, <1>12, <1>13
<1>17. ASSUME NEW i \in 1 .. n + 1
       PROVE  /\ g.hdr[v[i]].size >= 2
              /\ v[i] + g.hdr[v[i]].size = IF i = n + 1 THEN HeapUnits + 1 ELSE v[i + 1]
              /\ g.hdr[v[i]].prev_size = IF i = 1 THEN 0 ELSE g.hdr[v[i - 1]].size
  <2>1. CASE i < k
    <3>1. v[i] = w[i] /\ v[i + 1] = w[i + 1] /\ i # n /\ i # n + 1 /\ i \in 1 .. n
      BY <1>3, <1>8, <2>1
    <3>2. i # 1 => i - 1 \in 1 .. n /\ v[i - 1] = w[i - 1] /\ i - 1 # k
      BY <1>3, <1>8, <2>1
    <3>3. i # k /\ i # k + 1
      BY <2>1
    <3> QED
      BY <1>15, <3>1, <3>2, <3>3
  <2>2. CASE i = k
    <3>1. v[i] = b /\ v[i + 1] = cut /\ i # n + 1 /\ i \in 1 .. n /\ w[i] = b
      BY <1>3, <1>8, <2>2
    <3>2. i # 1 => i - 1 \in 1 .. n /\ v[i - 1] = w[i - 1] /\ i - 1 # k
      BY <1>3, <1>8, <2>2
    <3>3. i # k + 1
      BY <2>2
    <3> QED
      BY <1>4, <1>15, <2>2, <3>1, <3>2, <3>3
  <2>3. CASE i = k + 1
    <3>1. v[i] = cut /\ v[i - 1] = b /\ i # 1
      BY <1>3, <1>8, <2>3
    <3>2. g.hdr[b].size = size
      BY <1>15
    <3>3. cut + rest = IF k = n THEN HeapUnits + 1 ELSE w[k + 1]
      BY <1>4, <1>15
    <3>4. i # n + 1 => v[i + 1] = w[k + 1] /\ k # n
      BY <1>3, <1>8, <2>3
    <3>5. i = n + 1 => k = n
      BY <1>3, <2>3
    <3> HIDE DEF b, cut, rest
    <3> QED
      BY <1>4, <1>16, <3>1, <3>2, <3>3, <3>4, <3>5
  <2>4. CASE i > k + 1
    <3>1. /\ i - 1 \in 1 .. n /\ v[i] = w[i - 1] /\ i # 1 /\ i - 1 # k /\ i - 1 # 1
          /\ i - 1 - 1 \in 1 .. n
      BY <1>3, <1>8, <2>4
    <3>2. i # n + 1 => v[i + 1] = w[i - 1 + 1] /\ i - 1 # n
      BY <1>3, <1>8, <2>4
    <3>3. g.hdr[w[i - 1]].size = h.hdr[w[i - 1]].size
          /\ g.hdr[w[i - 1]].prev_size = IF i - 1 = k + 1 THEN rest ELSE h.hdr[w[i - 1 - 1]].size
      BY <1>15, <3>1
    <3>4. CASE i - 1 = k + 1
      <4>1. v[i - 1] = cut
        BY <1>3, <1>8, <3>4
      <4> QED
        BY <1>3, <1>15, <1>16, <3>1, <3>2, <3>3, <3>4, <4>1
    <3>5. CASE i - 1 # k + 1
      <4>1. v[i - 1] = w[i - 1 - 1] /\ i - 1 - 1 # k
        BY <1>3, <1>8, <2>4, <3>5
      <4> QED
        BY <1>3, <1>15, <3>1, <3>2, <3>3, <3>5, <4>1
    <3> QED
      BY <3>4, <3>5
  <2> QED
    BY <2>1, <2>2, <2>3, <2>4
<1>18. \A i, j \in 1 .. n + 1 : i < j => v[i] < v[j]
  <2> SUFFICES ASSUME NEW i \in 1 .. n + 1, NEW j \in 1 .. n + 1, i < j PROVE v[i] < v[j]
    OBVIOUS
  <2>1. \A p, q \in 1 .. n : p < q => w[p] < w[q]
    BY <1>1 DEF Tiles
  <2>2. CASE j <= k
    BY <1>3, <1>8, <2>1, <2>2
  <2>3. CASE j = k + 1
    <3>1. v[j] = cut /\ v[i] = w[i] /\ i \in 1 .. n /\ i <= k
      BY <1>3, <1>8, <2>3
    <3> QED
      BY <1>4, <1>6, <3>1
  <2>4. CASE j > k + 1
    <3>1. v[j] = w[j - 1] /\ j - 1 \in 1 .. n /\ j - 1 > k
      BY <1>3, <1>8, <2>4
    <3>2. CASE i <= k
      BY <1>3, <1>8, <2>1, <3>1, <3>2
    <3>3. CASE i = k + 1
      <4>1. v[i] = cut
        BY <1>8, <3>3
      <4> QED
        BY <1>2, <1>4, <1>6, <3>1, <4>1
    <3>4. CASE i > k + 1
      BY <1>3, <1>8, <2>1, <3>1, <3>4
    <3> QED
      BY <3>2, <3>3, <3>4
  <2> QED
    BY <2>2, <2>3, <2>4
<1>19. Tiles(g, v, n + 1)
  <2>1. n + 1 \in Nat \ {0} /\ v[1] = 1
    BY <1>1, <1>3, <1>8 DEF Tiles
  <2> QED
    BY <1>8, <1>17, <1>18, <2>1 DEF Tiles
<1>20. Members(f, m) = {u \in Members(w, n) : ~h.hdr[u].used} \ X
       /\ X \subseteq Members(w, n) /\ \A u \in X : ~h.hdr[u].used
  BY DEF Mid
<1>21. FreeList(g, f, m)
  <2>1. \A u \in Members(f, m) : u \in Units /\ u # cut
    BY <1>14, <1>20
  <2> HIDE DEF cut, b, rest
  <2> QED
    BY <1>1, <1>12, <2>1, SameFreeList
<1>22. \A u \in Members(w, n) : /\ g.hdr[u].used = h.hdr[u].used
                                /\ u # b => g.hdr[u].size = h.hdr[u].size
  <2> HIDE DEF cut, b, rest
  <2> QED
    BY <1>12, <1>14
<1>23. NoNeighbours(g, v, n + 1, X \cup {cut})
  <2> SUFFICES ASSUME NEW i \in 2 .. n + 1
               PROVE  \/ g.hdr[v[i]].used \/ g.hdr[v[i - 1]].used
                      \/ v[i] \in X \cup {cut} \/ v[i - 1] \in X \cup {cut}
    BY DEF NoNeighbours
  <2>1. \A j \in 2 .. n : h.hdr[w[j]].used \/ h.hdr[w[j - 1]].used \/ w[j] \in X \/ w[j - 1] \in X
    BY DEF Mid, NoNeighbours
  <2>2. \A j \in 1 .. n : g.hdr[w[j]].used = h.hdr[w[j]].used
    BY <1>22 DEF Members
  <2>3. CASE i <= k
    <3>1. v[i] = w[i] /\ v[i - 1] = w[i - 1] /\ i \in 2 .. n /\ i - 1 \in 1 .. n /\ i \in 1 .. n
      BY <1>3, <1>8, <2>3
    <3> QED
      BY <2>1, <2>2, <3>1
  <2>4. CASE i \in {k + 1, k + 2}
    <3>1. v[i] = cut \/ v[i - 1] = cut
      BY <1>3, <1>8, <2>4
    <3> QED
      BY <3>1
  <2>5. CASE i > k + 2
    <3>1. /\ v[i] = w[i - 1] /\ v[i - 1] = w[i - 1 - 1] /\ i - 1 \in 2 .. n
          /\ i - 1 \in 1 .. n /\ i - 1 - 1 \in 1 .. n
      BY <1>3, <1>8, <2>5
    <3> QED
      BY <2>1, <2>2, <3>1
  <2> QED
    BY <2>3, <2>4, <2>5
<1>24. Mid(g, v, n + 1, f, m, X \cup {cut})
  <2>1. Members(f, m) = {u \in Members(v, n + 1) : ~g.hdr[u].used} \ (X \cup {cut})
    BY <1>8, <1>14, <1>20, <1>22
  <2>2. X \cup {cut} \subseteq Members(v, n + 1) /\ \A u \in X \cup {cut} : ~g.hdr[u].used
    BY <1>8, <1>16, <1>20, <1>22
  <2> HIDE DEF cut
  <2> QED
    BY <1>11, <1>19, <1>21, <1>23, <2>1, <2>2 DEF Mid
<1>25. v[k + 1] = cut /\ g.hdr[b].size = size
  <2>1. k + 1 \in 1 .. n + 1 /\ ~(k + 1 <= k)
    BY <1>3
  <2>2. v[k + 1] = cut
    BY <1>8, <2>1
  <2>3. g.hdr[w[k]].size = size
    BY <1>15
  <2> QED
    BY <2>2, <2>3
<1>26. g = SplitOff(h, b, size)
  BY DEF SplitOff, g, h1, h0, x
<1>27. \A u : u \in Members(v, n + 1) <=> u \in Members(w, n) \/ u = cut
  BY <1>8
<1>28. /\ g.alloc_count = h.alloc_count
       /\ \A u \in Members(w, n) : /\ g.hdr[u].used = h.hdr[u].used
                                   /\ u # b => g.hdr[u].size = h.hdr[u].size
  BY <1>12, <1>22
<1> HIDE DEF v, g, h1
<1>29. CutOff(g, v, h, w, n, k, cut, size)
  BY <1>5, <1>14, <1>25, <1>27, <1>28 DEF CutOff
<1> QED
  BY <1>24, <1>26, <1>29 DEF v

\* What the two coalescing steps do to the headers.
Merged(h, p, q) == TellNext([h EXCEPT !.hdr[p].size = h.hdr[p].size + h.hdr[q].size], p)

\* Two blocks of the heap h have become one, and nothing else has changed.
Joined(g, v, h, w, n, p, q) ==
    /\ p # q /\ \A u : u \in Members(v, n - 1) <=> u \in Members(w, n) /\ u # q
    /\ g.alloc_count = h.alloc_count
    /\ \A u \in Units : /\ g.hdr[u].used = h.hdr[u].used
                        /\ u # p => g.hdr[u].size = h.hdr[u].size

\* Two neighbours in hand become one block.
LEMMA MergeMid ==
    ASSUME NEW h, NEW w, NEW n, NEW f, NEW m, NEW X, Mid(h, w, n, f, m, X),
           NEW k \in 1 .. n, k + 1 \in 1 .. n, w[k] \in X, w[k + 1] \in X
    PROVE  LET p == w[k]
               q == w[k + 1]
               g == Merged(h, p, q)
               v == Cut(w, n, k + 1)
           IN /\ Mid(g, v, n - 1, f, m, X \ {q})
              /\ Joined(g, v, h, w, n, p, q)
<1> DEFINE p == w[k]
           q == w[k + 1]
           sum == h.hdr[p].size + h.hdr[q].size
           h0 == [h EXCEPT !.hdr[p].size = sum]
           g == TellNext(h0, p)
           v == Cut(w, n, k + 1)
<1>1. HeapShape(h) /\ Tiles(h, w, n) /\ FreeList(h, f, m)
  BY DEF Mid
<1>2. /\ \A i \in 1 .. n : /\ w[i] \in Units /\ w[i] \in Nat \ {0} /\ w[i] <= HeapUnits
                           /\ h.hdr[w[i]].size \in Nat /\ h.hdr[w[i]].size >= 2
                           /\ w[i] + h.hdr[w[i]].size <= HeapUnits + 1
      /\ \A i, j \in 1 .. n : i < j => w[i] + h.hdr[w[i]].size <= w[j]
      /\ HeapUnits \in Nat
  BY <1>1, TilesBounds
<1>3. n \in Nat /\ w \in [1 .. n -> Units] /\ \A i, j \in 1 .. n : w[i] = w[j] => i = j
  BY <1>1, TilesInjective
<1>4. /\ \A i \in 1 .. n : (w[i] = p <=> i = k) /\ (w[i] = q <=> i = k + 1)
      /\ p # q
  BY <1>3
<1>5. /\ n - 1 \in Nat /\ v \in [1 .. n - 1 -> Units]
      /\ \A i, j \in 1 .. n - 1 : v[i] = v[j] => i = j
      /\ Members(v, n - 1) = Members(w, n) \ {q}
  <2>1. PICK j \in 1 .. n : j = k + 1
    OBVIOUS
  <2>2. /\ n - 1 \in Nat /\ Cut(w, n, j) \in [1 .. n - 1 -> Units]
        /\ \A i, l \in 1 .. n - 1 : Cut(w, n, j)[i] = Cut(w, n, j)[l] => i = l
        /\ Members(Cut(w, n, j), n - 1) = Members(w, n) \ {w[j]}
    BY <1>3, CutMembers
  <2> QED
    BY <2>1, <2>2
<1>6. \A i \in 1 .. n - 1 : v[i] = IF i < k + 1 THEN w[i] ELSE w[i + 1]
  BY DEF Cut
<1>7. /\ sum \in Nat /\ sum >= 4 /\ p \in Units /\ p \in Nat
      /\ p + h.hdr[p].size = q
  <2>1. p + h.hdr[p].size = IF k = n THEN HeapUnits + 1 ELSE w[k + 1]
    BY <1>1 DEF Tiles
  <2>2. k # n
    BY <1>3
  <2> QED
    BY <1>2, <2>1, <2>2
<1>8. p + sum = q + h.hdr[q].size
  BY <1>2, <1>7
<1> HIDE DEF v
<1>9. /\ HeapShape(h0) /\ SameLinks(h0, h) /\ h0.alloc_count = h.alloc_count
      /\ \A u \in Units : /\ h0.hdr[u].size = IF u = p THEN sum ELSE h.hdr[u].size
                          /\ h0.hdr[u].prev_size = h.hdr[u].prev_size
                          /\ h0.hdr[u].used = h.hdr[u].used
  <2> HIDE DEF p, sum
  <2> QED
    BY <1>1, <1>7, PutSize
<1> HIDE DEF h0
<1>10. /\ HeapShape(g) /\ SameLinks(g, h0) /\ g.alloc_count = h0.alloc_count
       /\ \A u \in Units : /\ g.hdr[u].prev_size = IF u = p + sum THEN sum ELSE h0.hdr[u].prev_size
                           /\ g.hdr[u].size = h0.hdr[u].size /\ g.hdr[u].used = h0.hdr[u].used
  <2>1. h0.hdr[p].size = sum /\ sum > 0
    <3> HIDE DEF p, sum
    <3> QED
      BY <1>7, <1>9
  <2> HIDE DEF p, sum
  <2> QED
    BY <1>7, <1>9, <2>1, TellFields
<1> HIDE DEF g
<1>11. /\ g.alloc_count = h.alloc_count /\ g.head = h.head /\ g.free_block_count = h.free_block_count
       /\ \A u \in Units :
            /\ g.hdr[u].size = IF u = p THEN sum ELSE h.hdr[u].size
            /\ g.hdr[u].prev_size = IF u = p + sum THEN sum ELSE h.hdr[u].prev_size
            /\ g.hdr[u].used = h.hdr[u].used
            /\ g.hdr[u].next = h.hdr[u].next /\ g.hdr[u].prev = h.hdr[u].prev
  <2> HIDE DEF p, sum
  <2> QED
    BY <1>9, <1>10 DEF SameLinks
<1>12. ASSUME NEW i \in 1 .. n
       PROVE  /\ h.hdr[w[i]].size >= 2
              /\ w[i] + h.hdr[w[i]].size = IF i = n THEN HeapUnits + 1 ELSE w[i + 1]
              /\ h.hdr[w[i]].prev_size = IF i = 1 THEN 0 ELSE h.hdr[w[i - 1]].size
              /\ g.hdr[w[i]].size = IF i = k THEN sum ELSE h.hdr[w[i]].size
              /\ g.hdr[w[i]].prev_size = IF i = k + 2 THEN sum ELSE h.hdr[w[i]].prev_size
  <2>1. /\ h.hdr[w[i]].size >= 2
        /\ w[i] + h.hdr[w[i]].size = IF i = n THEN HeapUnits + 1 ELSE w[i + 1]
        /\ h.hdr[w[i]].prev_size = IF i = 1 THEN 0 ELSE h.hdr[w[i - 1]].size
    BY <1>1 DEF Tiles
  <2>2. w[i] = p + sum <=> i = k + 2
    <3>1. k + 1 # n => k + 2 \in 1 .. n /\ w[k + 2] = p + sum
      <4>1. k + 1 # n => q + h.hdr[q].size = w[k + 1 + 1]
        BY <1>1 DEF Tiles
      <4>2. k + 1 # n => k + 2 \in 1 .. n /\ k + 1 + 1 = k + 2
        BY <1>3
      <4> QED
        BY <1>8, <4>1, <4>2
    <3>2. k + 1 = n => w[i] # p + sum
      <4>1. k + 1 = n => q + h.hdr[q].size = HeapUnits + 1
        BY <1>1 DEF Tiles
      <4> QED
        BY <1>2, <1>8, <4>1
    <3>3. k + 1 = n => i # k + 2
      BY <1>3
    <3>4. k + 1 # n => (w[i] = w[k + 2] <=> i = k + 2)
      BY <1>3, <3>1
    <3> QED
      BY <3>1, <3>2, <3>3, <3>4
  <2>3. w[i] \in Units /\ (w[i] = p <=> i = k)
    BY <1>2, <1>4
  <2> HIDE DEF p, q, sum
  <2> QED
    BY <1>11, <2>1, <2>2, <2>3
<1>13. ASSUME NEW i \in 1 .. n - 1
       PROVE  /\ g.hdr[v[i]].size >= 2
              /\ v[i] + g.hdr[v[i]].size = IF i = n - 1 THEN HeapUnits + 1 ELSE v[i + 1]
              /\ g.hdr[v[i]].prev_size = IF i = 1 THEN 0 ELSE g.hdr[v[i - 1]].size
  <2>1. CASE i < k
    <3>1. v[i] = w[i] /\ v[i + 1] = w[i + 1] /\ i # n /\ i # n - 1 /\ i \in 1 .. n
      BY <1>3, <1>6, <2>1
    <3>2. i # 1 => i - 1 \in 1 .. n /\ v[i - 1] = w[i - 1] /\ i - 1 # k
      BY <1>3, <1>6, <2>1
    <3>3. i # k /\ i # k + 2
      BY <2>1
    <3> QED
      BY <1>12, <3>1, <3>2, <3>3
  <2>2. CASE i = k
    <3>1. v[i] = p /\ i \in 1 .. n /\ w[i] = p
      BY <1>3, <1>6, <2>2
    <3>2. i # 1 => i - 1 \in 1 .. n /\ v[i - 1] = w[i - 1] /\ i - 1 # k
      BY <1>3, <1>6, <2>2
    <3>3. p + sum = IF k + 1 = n THEN HeapUnits + 1 ELSE w[k + 1 + 1]
      BY <1>8, <1>12
    <3>4. i # n - 1 => v[i + 1] = w[k + 1 + 1] /\ k + 1 # n
      BY <1>3, <1>6, <2>2
    <3>5. i = n - 1 => k + 1 = n
      BY <1>3, <2>2
    <3>6. i # k + 2
      BY <2>2
    <3>7. g.hdr[w[i]].size = sum
          /\ g.hdr[w[i]].prev_size = IF i = 1 THEN 0 ELSE h.hdr[w[i - 1]].size
      BY <1>12, <2>2, <3>1, <3>6
    <3>8. i # 1 => g.hdr[v[i - 1]].size = h.hdr[w[i - 1]].size
      BY <1>12, <3>2
    <3> HIDE DEF p, q, sum
    <3> QED
      BY <1>7, <3>1, <3>3, <3>4, <3>5, <3>7, <3>8
  <2>3. CASE i > k
    <3>1. /\ i + 1 \in 1 .. n /\ v[i] = w[i + 1] /\ i # 1 /\ i + 1 # k /\ i + 1 # 1
          /\ i \in 1 .. n /\ i + 1 - 1 = i /\ i # k
      BY <1>3, <1>6, <2>3
    <3>2. i # n - 1 => v[i + 1] = w[i + 1 + 1] /\ i + 1 # n
      BY <1>3, <1>6, <2>3
    <3>3. i = n - 1 => i + 1 = n
      BY <1>3
    <3>4. g.hdr[w[i + 1]].size = h.hdr[w[i + 1]].size
      BY <1>12, <3>1
    <3>5. CASE i = k + 1
      <4>1. v[i - 1] = p /\ i + 1 = k + 2
        BY <1>3, <1>6, <3>5
      <4>2. g.hdr[p].size = sum
        BY <1>12
      <4>3. g.hdr[w[i + 1]].prev_size = sum
        BY <1>12, <3>1, <4>1
      <4> HIDE DEF p, q, sum
      <4> QED
        BY <1>12, <3>1, <3>2, <3>3, <3>4, <4>1, <4>2, <4>3
    <3>6. CASE i # k + 1
      <4>1. v[i - 1] = w[i] /\ i + 1 # k + 2
        BY <1>3, <1>6, <2>3, <3>6
      <4>2. g.hdr[w[i]].size = h.hdr[w[i]].size
        BY <1>12, <3>1
      <4>3. g.hdr[w[i + 1]].prev_size = h.hdr[w[i]].size
        BY <1>12, <3>1, <4>1
      <4> HIDE DEF p, q, sum
      <4> QED
        BY <1>12, <3>1, <3>2, <3>3, <3>4, <4>1, <4>2, <4>3
    <3> QED
      BY <3>5, <3>6
  <2> QED
    BY <2>1, <2>2, <2>3
<1>14. \A i, j \in 1 .. n - 1 : i < j => v[i] < v[j]
  <2>1. \A a, b \in 1 .. n : a < b => w[a] < w[b]
    BY <1>1 DEF Tiles
  <2> QED
    BY <1>3, <1>6, <2>1
<1>15. Tiles(g, v, n - 1)
  <2>1. n - 1 \in Nat \ {0} /\ v[1] = 1
    <3>1. w[1] = 1 /\ 1 \in 1 .. n - 1 /\ 1 < k + 1
      BY <1>1, <1>3 DEF Tiles
    <3> QED
      BY <1>5, <1>6, <3>1
  <2> QED
    BY <1>5, <1>13, <1>14, <2>1 DEF Tiles
<1>16. Members(f, m) = {u \in Members(w, n) : ~h.hdr[u].used} \ X
       /\ X \subseteq Members(w, n) /\ \A u \in X : ~h.hdr[u].used
  BY DEF Mid
<1>17. Members(w, n) \subseteq Units
  BY <1>1, TilesInjective
<1>18. FreeList(g, f, m)
  BY <1>1, <1>11, <1>16, <1>17, SameFreeList
<1>19. NoNeighbours(g, v, n - 1, X \ {q})
  <2> SUFFICES ASSUME NEW i \in 2 .. n - 1
               PROVE  \/ g.hdr[v[i]].used \/ g.hdr[v[i - 1]].used
                      \/ v[i] \in X \ {q} \/ v[i - 1] \in X \ {q}
    BY DEF NoNeighbours
  <2>1. \A j \in 2 .. n : h.hdr[w[j]].used \/ h.hdr[w[j - 1]].used \/ w[j] \in X \/ w[j - 1] \in X
    BY DEF Mid, NoNeighbours
  <2>2. \A j \in 1 .. n : g.hdr[w[j]].used = h.hdr[w[j]].used /\ (w[j] = q <=> j = k + 1)
    BY <1>2, <1>4, <1>11
  <2>3. CASE i <= k
    <3>1. /\ v[i] = w[i] /\ v[i - 1] = w[i - 1] /\ i \in 2 .. n /\ i - 1 \in 1 .. n /\ i \in 1 .. n
          /\ i # k + 1 /\ i - 1 # k + 1
      BY <1>3, <1>6, <2>3
    <3> QED
      BY <2>1, <2>2, <3>1
  <2>4. CASE i = k + 1
    <3>1. v[i - 1] = p
      BY <1>3, <1>6, <2>4
    <3> QED
      BY <1>4, <3>1
  <2>5. CASE i > k + 1
    <3>1. /\ v[i] = w[i + 1] /\ v[i - 1] = w[i] /\ i + 1 \in 2 .. n /\ i + 1 - 1 = i
          /\ i + 1 \in 1 .. n /\ i \in 1 .. n /\ i # k + 1 /\ i + 1 # k + 1
      BY <1>3, <1>6, <2>5
    <3> QED
      BY <2>1, <2>2, <3>1
  <2> QED
    BY <2>3, <2>4, <2>5
<1>20. Mid(g, v, n - 1, f, m, X \ {q})
  <2>1. \A u \in Members(w, n) : g.hdr[u].used = h.hdr[u].used
    BY <1>11, <1>17
  <2>2. Members(f, m) = {u \in Members(v, n - 1) : ~g.hdr[u].used} \ (X \ {q})
    BY <1>5, <1>16, <2>1
  <2>3. X \ {q} \subseteq Members(v, n - 1) /\ \A u \in X \ {q} : ~g.hdr[u].used
    BY <1>5, <1>16, <2>1
  <2> HIDE DEF p, q, sum
  <2> QED
    BY <1>10, <1>15, <1>18, <1>19, <2>2, <2>3 DEF Mid
<1>21. g = Merged(h, p, q)
  BY DEF Merged, g, h0
<1>22. \A u : u \in Members(v, n - 1) <=> u \in Members(w, n) /\ u # q
  BY <1>5
<1> HIDE DEF v, g, h0
<1>23. Joined(g, v, h, w, n, p, q)
  BY <1>4, <1>11, <1>22 DEF Joined
<1> QED
  BY <1>20, <1>21, <1>23 DEF v

\* What l2_alloc and l2_free do to the header of the caller's block.
Given(h, b) == [h EXCEPT !.hdr[b].used = TRUE, !.alloc_count = @ + 1]

Returned(h, b) == [h EXCEPT !.hdr[b].used = FALSE, !.alloc_count = @ - 1]

Marked(g, h, b, used) ==
    /\ g.alloc_count = h.alloc_count + (IF used THEN 1 ELSE -1)
    /\ \A u \in Units : /\ g.hdr[u].size = h.hdr[u].size
                        /\ g.hdr[u].used = IF u = b THEN used ELSE h.hdr[u].used

\* A block in hand is given to a caller.
LEMMA UseMid ==
    ASSUME NEW h, NEW w, NEW n, NEW f, NEW m, NEW X, Mid(h, w, n, f, m, X), NEW b \in X
    PROVE  LET g == Given(h, b)
           IN Mid(g, w, n, f, m, X \ {b}) /\ Marked(g, h, b, TRUE)
<1> DEFINE h1 == [h EXCEPT !.hdr[b].used = TRUE]
           g == [h1 EXCEPT !.alloc_count = h1.alloc_count + 1]
<1>1. HeapShape(h) /\ Tiles(h, w, n) /\ FreeList(h, f, m)
  BY DEF Mid
<1>2. Members(w, n) \subseteq Units /\ n \in Nat /\ w \in [1 .. n -> Units]
  BY <1>1, TilesInjective
<1>3. b \in Units /\ TRUE \in BOOLEAN
  BY <1>2 DEF Mid
<1>4. Given(h, b) = g
  BY <1>1 DEF HeapShape, Given
<1>5. /\ HeapShape(h1) /\ SameLinks(h1, h) /\ h1.alloc_count = h.alloc_count
      /\ \A u \in Units : /\ h1.hdr[u].used = IF u = b THEN TRUE ELSE h.hdr[u].used
                          /\ h1.hdr[u].size = h.hdr[u].size
                          /\ h1.hdr[u].prev_size = h.hdr[u].prev_size
  BY <1>1, <1>3, PutUsed
<1> HIDE DEF h1
<1>6. h1.alloc_count + 1 \in Int
  BY <1>5 DEF HeapShape
<1>7. HeapShape(g) /\ SameLinks(g, h1) /\ g.hdr = h1.hdr /\ g.alloc_count = h.alloc_count + 1
  BY <1>5, <1>6, PutAllocs
<1> HIDE DEF g
<1>8. Members(f, m) = {u \in Members(w, n) : ~h.hdr[u].used} \ X
      /\ X \subseteq Members(w, n) /\ \A u \in X : ~h.hdr[u].used
  BY DEF Mid
<1>9. FreeList(g, f, m)
  <2>1. /\ g.head = h.head /\ g.free_block_count = h.free_block_count
        /\ \A u \in Units : g.hdr[u].next = h.hdr[u].next /\ g.hdr[u].prev = h.hdr[u].prev
    BY <1>5, <1>7 DEF SameLinks
  <2>2. Members(f, m) \subseteq Units
    BY <1>2, <1>8
  <2> QED
    BY <1>1, <2>1, <2>2, SameFreeList
<1>10. Tiles(g, w, n)
  <2>1. \A i \in 1 .. n : /\ g.hdr[w[i]].size = h.hdr[w[i]].size
                          /\ g.hdr[w[i]].prev_size = h.hdr[w[i]].prev_size
    BY <1>2, <1>5, <1>7
  <2>2. \A i \in 1 .. n : i # 1 => i - 1 \in 1 .. n
    BY <1>2
  <2> QED
    BY <1>1, <2>1, <2>2 DEF Tiles
<1>11. NoNeighbours(g, w, n, X \ {b})
  <2>1. \A i \in 2 .. n : h.hdr[w[i]].used \/ h.hdr[w[i - 1]].used \/ w[i] \in X \/ w[i - 1] \in X
    BY DEF Mid, NoNeighbours
  <2>2. \A i \in 1 .. n : g.hdr[w[i]].used = IF w[i] = b THEN TRUE ELSE h.hdr[w[i]].used
    BY <1>2, <1>5, <1>7
  <2>3. \A i \in 2 .. n : i \in 1 .. n /\ i - 1 \in 1 .. n
    BY <1>2
  <2> SUFFICES ASSUME NEW i \in 2 .. n
               PROVE  \/ g.hdr[w[i]].used \/ g.hdr[w[i - 1]].used
                      \/ w[i] \in X \ {b} \/ w[i - 1] \in X \ {b}
    BY DEF NoNeighbours
  <2>4. CASE w[i] = b \/ w[i - 1] = b
    BY <2>2, <2>3, <2>4
  <2>5. CASE ~(w[i] = b \/ w[i - 1] = b)
    BY <2>1, <2>2, <2>3, <2>5
  <2> QED
    BY <2>4, <2>5
<1>12. Mid(g, w, n, f, m, X \ {b})
  <2>1. \A u \in Members(w, n) : g.hdr[u].used = IF u = b THEN TRUE ELSE h.hdr[u].used
    BY <1>2, <1>5, <1>7
  <2>2. Members(f, m) = {u \in Members(w, n) : ~g.hdr[u].used} \ (X \ {b})
    BY <1>8, <2>1
  <2>3. X \ {b} \subseteq Members(w, n) /\ \A u \in X \ {b} : ~g.hdr[u].used
    BY <1>8, <2>1
  <2> QED
    BY <1>7, <1>9, <1>10, <1>11, <2>2, <2>3 DEF Mid
<1>13. h.alloc_count \in Int
  BY <1>1 DEF HeapShape
<1>14. Marked(g, h, b, TRUE)
  BY <1>5, <1>7, <1>13 DEF Marked
<1> QED
  BY <1>4, <1>12, <1>14

\* A caller gives its block back.
LEMMA ReleaseMid ==
    ASSUME NEW h, NEW w, NEW n, NEW f, NEW m, NEW X, Mid(h, w, n, f, m, X),
           NEW b \in UsedBlocks(h, w, n)
    PROVE  LET g == Returned(h, b)
           IN Mid(g, w, n, f, m, X \cup {b}) /\ Marked(g, h, b, FALSE)
<1> DEFINE h1 == [h EXCEPT !.hdr[b].used = FALSE]
           g == [h1 EXCEPT !.alloc_count = h1.alloc_count - 1]
<1>1. HeapShape(h) /\ Tiles(h, w, n) /\ FreeList(h, f, m)
  BY DEF Mid
<1>2. Members(w, n) \subseteq Units /\ n \in Nat /\ w \in [1 .. n -> Units]
  BY <1>1, TilesInjective
<1>3. b \in Units /\ FALSE \in BOOLEAN /\ b \in Members(w, n) /\ h.hdr[b].used
  BY <1>2 DEF UsedBlocks
<1>4. Returned(h, b) = g
  BY <1>1 DEF HeapShape, Returned
<1>5. /\ HeapShape(h1) /\ SameLinks(h1, h) /\ h1.alloc_count = h.alloc_count
      /\ \A u \in Units : /\ h1.hdr[u].used = IF u = b THEN FALSE ELSE h.hdr[u].used
                          /\ h1.hdr[u].size = h.hdr[u].size
                          /\ h1.hdr[u].prev_size = h.hdr[u].prev_size
  BY <1>1, <1>3, PutUsed
<1> HIDE DEF h1
<1>6. h1.alloc_count - 1 \in Int
  BY <1>5 DEF HeapShape
<1>7. HeapShape(g) /\ SameLinks(g, h1) /\ g.hdr = h1.hdr /\ g.alloc_count = h.alloc_count - 1
  BY <1>5, <1>6, PutAllocs
<1> HIDE DEF g
<1>8. Members(f, m) = {u \in Members(w, n) : ~h.hdr[u].used} \ X
      /\ X \subseteq Members(w, n) /\ \A u \in X : ~h.hdr[u].used
  BY DEF Mid
<1>9. FreeList(g, f, m)
  <2>1. /\ g.head = h.head /\ g.free_block_count = h.free_block_count
        /\ \A u \in Units : g.hdr[u].next = h.hdr[u].next /\ g.hdr[u].prev = h.hdr[u].prev
    BY <1>5, <1>7 DEF SameLinks
  <2>2. Members(f, m) \subseteq Units
    BY <1>2, <1>8
  <2> QED
    BY <1>1, <2>1, <2>2, SameFreeList
<1>10. Tiles(g, w, n)
  <2>1. \A i \in 1 .. n : /\ g.hdr[w[i]].size = h.hdr[w[i]].size
                          /\ g.hdr[w[i]].prev_size = h.hdr[w[i]].prev_size
    BY <1>2, <1>5, <1>7
  <2>2. \A i \in 1 .. n : i # 1 => i - 1 \in 1 .. n
    BY <1>2
  <2> QED
    BY <1>1, <2>1, <2>2 DEF Tiles
<1>11. NoNeighbours(g, w, n, X \cup {b})
  <2>1. \A i \in 2 .. n : h.hdr[w[i]].used \/ h.hdr[w[i - 1]].used \/ w[i] \in X \/ w[i - 1] \in X
    BY DEF Mid, NoNeighbours
  <2>2. \A i \in 1 .. n : g.hdr[w[i]].used = IF w[i] = b THEN FALSE ELSE h.hdr[w[i]].used
    BY <1>2, <1>5, <1>7
  <2>3. \A i \in 2 .. n : i \in 1 .. n /\ i - 1 \in 1 .. n
    BY <1>2
  <2> QED
    BY <2>1, <2>2, <2>3 DEF NoNeighbours
<1>12. Mid(g, w, n, f, m, X \cup {b})
  <2>1. \A u \in Members(w, n) : g.hdr[u].used = IF u = b THEN FALSE ELSE h.hdr[u].used
    BY <1>2, <1>5, <1>7
  <2>2. Members(f, m) = {u \in Members(w, n) : ~g.hdr[u].used} \ (X \cup {b})
    BY <1>3, <1>8, <2>1
  <2>3. X \cup {b} \subseteq Members(w, n) /\ \A u \in X \cup {b} : ~g.hdr[u].used
    BY <1>3, <1>8, <2>1
  <2> QED
    BY <1>7, <1>9, <1>10, <1>11, <2>2, <2>3 DEF Mid
<1>13. h.alloc_count \in Int
  BY <1>1 DEF HeapShape
<1>14. Marked(g, h, b, FALSE)
  BY <1>5, <1>7, <1>13 DEF Marked
<1> QED
  BY <1>4, <1>12, <1>14

-----------------------------------------------------------------------------
(* The L2 heap: what the walks along the links return. *)

\* The recursive function in Met.
Walk(start, next, at) ==
    at = [i \in 1 .. HeapUnits + 1 |->
            IF i = 1 THEN start ELSE IF at[i - 1] = Nil THEN Nil ELSE next[at[i - 1]]]

\* Blocks that are different fit into the units.
LEMMA AtMostUnits ==
    ASSUME NEW n \in Nat, NEW s \in [1 .. n -> Units], \A i, j \in 1 .. n : s[i] = s[j] => i = j
    PROVE  n <= HeapUnits
<1>1. IsFiniteSet(Units) /\ Cardinality(Units) = HeapUnits /\ HeapUnits \in Nat
  BY L2Assumption, FS_Interval DEF Units
<1>2. IsFiniteSet(1 .. n) /\ Cardinality(1 .. n) = n
  BY FS_Interval
<1>3. s \in Injection(1 .. n, Units)
  BY DEF Injection, IsInjective
<1> QED
  BY <1>1, <1>2, <1>3, FS_Injection

\* The links lead from start through s[1 .. n] to Nil.
Leads(start, next, s, n) ==
    /\ n \in Nat /\ n <= HeapUnits /\ s \in [1 .. n -> Units]
    /\ start = (IF n = 0 THEN Nil ELSE s[1])
    /\ \A i \in 1 .. n : next[s[i]] = IF i = n THEN Nil ELSE s[i + 1]

\* A walk along links that lead through s[1 .. n] to Nil returns s.
LEMMA MetIs ==
    ASSUME NEW n, NEW s, NEW start, NEW next, Leads(start, next, s, n)
    PROVE  Met(start, next) = s
<1> DEFINE top == HeapUnits + 1
           way == [i \in 1 .. top |-> IF i <= n THEN s[i] ELSE Nil]
<1>0. /\ n \in Nat /\ n <= HeapUnits /\ s \in [1 .. n -> Units]
      /\ start = (IF n = 0 THEN Nil ELSE s[1])
      /\ \A i \in 1 .. n : next[s[i]] = IF i = n THEN Nil ELSE s[i + 1]
  BY DEF Leads
<1>1. HeapUnits \in Nat /\ Nil \notin Units /\ top \in Nat /\ n < top
  BY <1>0, L2Assumption DEF Units, Nil
<1>2. Walk(start, next, way)
  <2>1. ASSUME NEW i \in 1 .. top
        PROVE  way[i] = IF i = 1 THEN start ELSE IF way[i - 1] = Nil THEN Nil ELSE next[way[i - 1]]
    <3>1. CASE i = 1
      BY <1>0, <1>1, <2>1, <3>1
    <3>2. CASE i # 1
      <4>1. i - 1 \in 1 .. top /\ i \in Nat /\ i - 1 + 1 = i
        BY <1>0, <1>1, <3>2
      <4>2. CASE i - 1 <= n
        <5>1. i - 1 \in 1 .. n /\ way[i - 1] = s[i - 1] /\ s[i - 1] \in Units
          BY <1>0, <4>1, <4>2
        <5>2. next[s[i - 1]] = (IF i - 1 = n THEN Nil ELSE s[i])
          BY <1>0, <4>1, <5>1
        <5>3. way[i] = (IF i - 1 = n THEN Nil ELSE s[i])
          BY <1>0, <4>1, <4>2
        <5> QED
          BY <1>0, <1>1, <3>2, <5>1, <5>2, <5>3
      <4>3. CASE ~(i - 1 <= n)
        BY <1>0, <3>2, <4>1, <4>3
      <4> QED
        BY <4>2, <4>3
    <3> QED
      BY <3>1, <3>2
  <2>2. way = [i \in 1 .. top |-> way[i]]
    OBVIOUS
  <2> HIDE DEF way
  <2> QED
    BY <2>1, <2>2 DEF Walk
<1>3. \A i \in 1 .. top : way[i] = IF i <= n THEN s[i] ELSE Nil
  OBVIOUS
<1> HIDE DEF way
<1>4. PICK at : at = CHOOSE x : Walk(start, next, x)
  OBVIOUS
<1>5. Walk(start, next, at)
  BY <1>2, <1>4
<1>6. \A i \in 1 .. top : at[i] = way[i]
  <2> DEFINE Good == {k \in Nat : k + 1 <= top => at[k + 1] = way[k + 1]}
  <2>1. 0 \in Good
    BY <1>0, <1>1, <1>2, <1>5 DEF Walk
  <2>2. ASSUME NEW k \in Good PROVE k + 1 \in Good
    <3> SUFFICES ASSUME k + 1 + 1 <= top PROVE at[k + 1 + 1] = way[k + 1 + 1]
      OBVIOUS
    <3>1. PICK i \in 1 .. top : i = k + 1 + 1 /\ i # 1 /\ i - 1 = k + 1
      BY <1>0, <1>1
    <3>2. at[i - 1] = way[i - 1]
      BY <1>0, <1>1, <2>2, <3>1
    <3>3. at[i] = IF at[i - 1] = Nil THEN Nil ELSE next[at[i - 1]]
      BY <1>5, <3>1 DEF Walk
    <3>4. way[i] = IF way[i - 1] = Nil THEN Nil ELSE next[way[i - 1]]
      BY <1>2, <3>1 DEF Walk
    <3> QED
      BY <3>1, <3>2, <3>3, <3>4
  <2>3. Good \in SUBSET Nat
    OBVIOUS
  <2> HIDE DEF Good
  <2>4. Good = Nat
    BY <2>1, <2>2, <2>3, SetOfAllNats
  <2>5. ASSUME NEW i \in 1 .. top PROVE at[i] = way[i]
    <3>1. i - 1 \in Good /\ i - 1 + 1 = i /\ i <= top
      BY <1>0, <1>1, <2>4
    <3> QED
      BY <3>1 DEF Good
  <2> QED
    BY <2>5
<1>7. {j \in 1 .. top : at[j] # Nil} = 1 .. n
  <2>1. \A j \in 1 .. n : j \in 1 .. top /\ j <= n
    BY <1>0, <1>1
  <2>2. \A j \in 1 .. top : j <= n => j \in 1 .. n
    OBVIOUS
  <2>3. \A j \in 1 .. n : at[j] # Nil
    BY <1>0, <1>1, <1>3, <1>6, <2>1
  <2>4. \A j \in 1 .. top : at[j] # Nil => j <= n
    BY <1>3, <1>6
  <2> QED
    BY <2>1, <2>2, <2>3, <2>4
<1>8. Met(start, next) = [i \in 1 .. Cardinality({j \in 1 .. HeapUnits + 1 : at[j] # Nil}) |-> at[i]]
  BY <1>4 DEF Met, Walk
<1>9. Cardinality(1 .. n) = n
  BY <1>0, FS_Interval
<1>10. Met(start, next) = [i \in 1 .. n |-> at[i]]
  BY <1>0, <1>7, <1>9, <1>8
<1>11. \A i \in 1 .. n : at[i] = s[i] /\ i \in 1 .. top
  BY <1>0, <1>1, <1>3, <1>6
<1> QED
  BY <1>0, <1>10, <1>11
-----------------------------------------------------------------------------
(* The L2 heap: sums of sizes. *)

WeightFold(S, wt, f) == f = [s \in SUBSET S |-> IF s = {} THEN 0 ELSE wt[Pick(s)] + f[s \ {Pick(s)}]]

LEMMA WeightFoldExists ==
    ASSUME NEW S, IsFiniteSet(S), NEW wt, \A x \in S : wt[x] \in Nat
    PROVE  \E f \in [SUBSET S -> Nat] : WeightFold(S, wt, f)
<1> DEFINE g == [x \in S \X Nat |-> wt[x[1]] + x[2]]
<1>1. g \in [S \X Nat -> Nat]
  OBVIOUS
<1>2. \A b \in S : \A k \in Nat : g[<<b, k>>] = wt[b] + k
  OBVIOUS
<1> HIDE DEF g
<1>3. PICK f : IsFold(f, S, Nat, 0, g)
  BY <1>1, FoldExists
<1>4. f \in [SUBSET S -> Nat]
  BY <1>3 DEF IsFold
<1>5. ASSUME NEW s \in SUBSET S, s # {} PROVE f[s] = wt[Pick(s)] + f[s \ {Pick(s)}]
  <2>1. Pick(s) \in S /\ s \ {Pick(s)} \in SUBSET S
    BY <1>5, PickIn
  <2>2. f[s \ {Pick(s)}] \in Nat
    BY <1>4, <2>1
  <2> QED
    BY <1>2, <1>3, <1>5, <2>1, <2>2 DEF IsFold
<1>6. f[{}] = 0
  BY <1>3 DEF IsFold
<1> QED
  BY <1>4, <1>5, <1>6 DEF WeightFold

LEMMA AnyOrderOfWeights ==
    ASSUME NEW S, IsFiniteSet(S), NEW wt, \A x \in S : wt[x] \in Nat,
           NEW f \in [SUBSET S -> Nat], WeightFold(S, wt, f), NEW b \in S
    PROVE  f[S] = wt[b] + f[S \ {b}]
<1> DEFINE Good == {s \in SUBSET S : \A c \in s : f[s] = wt[c] + f[s \ {c}]}
<1>1. {} \in Good /\ Good \in SUBSET (SUBSET S)
  OBVIOUS
<1>2. ASSUME NEW s \in SUBSET S, s # {}, \A c \in s : s \ {c} \in Good
      PROVE  s \in Good
  <2> SUFFICES ASSUME NEW c \in s PROVE f[s] = wt[c] + f[s \ {c}]
    OBVIOUS
  <2>1. PICK p : p = Pick(s)
    OBVIOUS
  <2>2. p \in s /\ f[s] = wt[p] + f[s \ {p}]
    BY <1>2, <2>1, PickIn DEF WeightFold
  <2>3. CASE c = p
    BY <2>2, <2>3
  <2>4. CASE c # p
    <3>1. f[s \ {p}] = wt[c] + f[(s \ {p}) \ {c}]
      BY <1>2, <2>2, <2>4
    <3>2. f[s \ {c}] = wt[p] + f[(s \ {c}) \ {p}]
      BY <1>2, <2>2, <2>4
    <3>3. (s \ {p}) \ {c} = (s \ {c}) \ {p} /\ (s \ {c}) \ {p} \in SUBSET S
      OBVIOUS
    <3>4. PICK x, y, z \in Nat : x = f[(s \ {c}) \ {p}] /\ y = wt[c] /\ z = wt[p]
      BY <2>2, <3>3
    <3>5. f[s] = z + (y + x) /\ f[s \ {c}] = z + x
      BY <2>2, <3>1, <3>2, <3>3, <3>4
    <3> QED
      BY <3>4, <3>5
  <2> QED
    BY <2>3, <2>4
<1> HIDE DEF Good
<1>3. \A s \in SUBSET S : s \in Good
  BY <1>1, <1>2, SubsetInduction
<1> QED
  BY <1>3 DEF Good

LEMMA SameWeightFold ==
    ASSUME NEW S, IsFiniteSet(S), NEW wt, NEW T \in SUBSET S,
           NEW f, WeightFold(S, wt, f), NEW v, \A x \in T : wt[x] = v[x], NEW g, WeightFold(T, v, g)
    PROVE  \A s \in SUBSET T : f[s] = g[s]
<1> DEFINE Good == {s \in SUBSET T : f[s] = g[s]}
<1>1. {} \in Good /\ Good \in SUBSET (SUBSET T)
  BY DEF WeightFold
<1>2. ASSUME NEW s \in SUBSET T, s # {}, \A c \in s : s \ {c} \in Good
      PROVE  s \in Good
  <2>1. Pick(s) \in s /\ s \in SUBSET S /\ Pick(s) \in T
    BY <1>2, PickIn
  <2>2. f[s \ {Pick(s)}] = g[s \ {Pick(s)}]
    BY <1>2, <2>1
  <2>3. f[s] = wt[Pick(s)] + f[s \ {Pick(s)}]
    BY <1>2, <2>1 DEF WeightFold
  <2>4. g[s] = v[Pick(s)] + g[s \ {Pick(s)}]
    BY <1>2, <2>1 DEF WeightFold
  <2> QED
    BY <2>1, <2>2, <2>3, <2>4
<1> HIDE DEF Good
<1>3. IsFiniteSet(T)
  BY FS_Subset
<1>4. \A s \in SUBSET T : s \in Good
  BY <1>1, <1>2, <1>3, SubsetInduction
<1> QED
  BY <1>4 DEF Good

\* What a sum over a set is, by a fold.
LEMMA TotalFold ==
    ASSUME NEW S, IsFiniteSet(S), NEW wt, \A x \in S : wt[x] \in Nat
    PROVE  \E f \in [SUBSET S -> Nat] : WeightFold(S, wt, f) /\ Total(wt, S) = f[S]
<1>1. PICK f : f = CHOOSE x : WeightFold(S, wt, x)
  OBVIOUS
<1>2. PICK g \in [SUBSET S -> Nat] : WeightFold(S, wt, g)
  BY WeightFoldExists
<1>3. WeightFold(S, wt, f)
  BY <1>1, <1>2
<1>4. \A s \in SUBSET S : f[s] = g[s]
  BY <1>2, <1>3, SameWeightFold
<1>5. Total(wt, S) = f[S]
  BY <1>1 DEF Total, MapThenSumSet, MapThenFoldSet, WeightFold, Pick
<1> QED
  BY <1>2, <1>4, <1>5

LEMMA TotalEmpty == ASSUME NEW wt PROVE Total(wt, {}) = 0
<1>1. PICK f \in [SUBSET {} -> Nat] : WeightFold({}, wt, f) /\ Total(wt, {}) = f[{}]
  BY TotalFold, FS_EmptySet
<1> QED
  BY <1>1 DEF WeightFold

LEMMA TotalType ==
    ASSUME NEW S, IsFiniteSet(S), NEW wt, \A x \in S : wt[x] \in Nat
    PROVE  Total(wt, S) \in Nat
<1>1. PICK f \in [SUBSET S -> Nat] : Total(wt, S) = f[S]
  BY TotalFold
<1> QED
  BY <1>1

LEMMA TotalSplits ==
    ASSUME NEW S, IsFiniteSet(S), NEW wt, \A x \in S : wt[x] \in Nat, NEW b \in S
    PROVE  Total(wt, S) = wt[b] + Total(wt, S \ {b})
<1>1. PICK f \in [SUBSET S -> Nat] : WeightFold(S, wt, f) /\ Total(wt, S) = f[S]
  BY TotalFold
<1>2. WeightFold(S, wt, f)
  BY <1>1
<1>3. f[S] = wt[b] + f[S \ {b}]
  BY <1>2, AnyOrderOfWeights
<1>4. PICK T \in SUBSET S : T = S \ {b}
  OBVIOUS
<1>5. PICK g \in [SUBSET T -> Nat] : WeightFold(T, wt, g) /\ Total(wt, T) = g[T]
  <2>1. IsFiniteSet(T)
    BY FS_Subset
  <2> QED
    BY <1>4, <2>1, TotalFold
<1>6. f[T] = g[T]
  BY <1>2, <1>5, SameWeightFold
<1> QED
  BY <1>1, <1>3, <1>4, <1>5, <1>6

\* A sum over two sets that share nothing.
LEMMA TotalUnion ==
    ASSUME NEW S, IsFiniteSet(S), NEW wt, \A x \in S : wt[x] \in Nat, NEW T \in SUBSET S
    PROVE  Total(wt, S) = Total(wt, T) + Total(wt, S \ T)
<1> DEFINE Good == {u \in SUBSET T : Total(wt, u \cup (S \ T)) = Total(wt, u) + Total(wt, S \ T)}
<1>1. Good \in SUBSET (SUBSET T) /\ IsFiniteSet(T)
  BY FS_Subset
<1>2. PICK k \in Nat : k = Total(wt, S \ T)
  <2>1. IsFiniteSet(S \ T)
    BY FS_Subset
  <2> QED
    BY <2>1, TotalType
<1>3. {} \in Good
  <2>1. {} \cup (S \ T) = S \ T
    OBVIOUS
  <2> QED
    BY <1>2, <2>1, TotalEmpty
<1>4. ASSUME NEW u \in SUBSET T, u # {}, \A x \in u : u \ {x} \in Good
      PROVE  u \in Good
  <2>1. PICK b \in u : TRUE
    BY <1>4
  <2>2. PICK v : v = u \cup (S \ T)
    OBVIOUS
  <2>3. IsFiniteSet(v) /\ IsFiniteSet(u) /\ v \subseteq S /\ u \subseteq S /\ IsFiniteSet(u \ {b}) /\ b \in v
    BY <2>1, <2>2, FS_Subset
  <2>4. Total(wt, v) = wt[b] + Total(wt, v \ {b})
    BY <2>3, TotalSplits
  <2>5. Total(wt, u) = wt[b] + Total(wt, u \ {b})
    BY <2>1, <2>3, TotalSplits
  <2>6. v \ {b} = (u \ {b}) \cup (S \ T)
    BY <2>1, <2>2
  <2>7. Total(wt, v \ {b}) = Total(wt, u \ {b}) + Total(wt, S \ T)
    BY <1>4, <2>1, <2>6
  <2>8. PICK x, y \in Nat : x = wt[b] /\ y = Total(wt, u \ {b})
    <3>1. \A z \in u \ {b} : wt[z] \in Nat
      BY <2>3
    <3> QED
      BY <2>1, <2>3, <3>1, TotalType
  <2>9. Total(wt, v) = Total(wt, u) + Total(wt, S \ T)
    BY <1>2, <2>4, <2>5, <2>7, <2>8
  <2> QED
    BY <2>2, <2>9
<1> HIDE DEF Good
<1>5. T \in Good
  BY <1>1, <1>3, <1>4, SubsetInduction
<1>6. T \cup (S \ T) = S
  OBVIOUS
<1> QED
  BY <1>5, <1>6 DEF Good

\* The blocks cover the region.
LEMMA TilesTotal ==
    ASSUME NEW h, HeapShape(h), NEW w, NEW n, Tiles(h, w, n)
    PROVE  /\ IsFiniteSet(Members(w, n)) /\ \A u \in Members(w, n) : Sizes(h)[u] \in Nat
           /\ Total(Sizes(h), Members(w, n)) = HeapUnits
<1>1. /\ \A i \in 1 .. n : /\ w[i] \in Units /\ w[i] \in Nat \ {0} /\ w[i] <= HeapUnits
                           /\ h.hdr[w[i]].size \in Nat /\ h.hdr[w[i]].size >= 2
      /\ HeapUnits \in Nat
  BY TilesBounds
<1>2. /\ n \in Nat \ {0} /\ w \in [1 .. n -> Units] /\ w[1] = 1
      /\ \A i \in 1 .. n : w[i] + h.hdr[w[i]].size = IF i = n THEN HeapUnits + 1 ELSE w[i + 1]
  BY DEF Tiles
<1>3. \A i, j \in 1 .. n : w[i] = w[j] => i = j
  BY TilesInjective
<1>4. IsFiniteSet(Units)
  BY <1>1, FS_Interval DEF Units
<1>5. \A i \in 1 .. n : Sizes(h)[w[i]] = h.hdr[w[i]].size
  BY <1>1 DEF Sizes
<1>6. ASSUME NEW k \in 1 .. n
      PROVE  /\ IsFiniteSet(Members(w, k)) /\ \A u \in Members(w, k) : Sizes(h)[u] \in Nat
  <2>4. \A i \in 1 .. k : i \in 1 .. n
    BY <1>2
  <2>3. \A i \in 1 .. k : w[i] \in Units /\ Sizes(h)[w[i]] \in Nat
    BY <1>1, <1>2, <1>5, <2>4
  <2>1. Members(w, k) \subseteq Units
    BY <2>3 DEF Members
  <2>2. \A u \in Members(w, k) : Sizes(h)[u] \in Nat
    BY <2>3 DEF Members
  <2> QED
    BY <1>4, <2>1, <2>2, FS_Subset
<1> DEFINE Good == {k \in Nat : k + 1 <= n =>
                        Total(Sizes(h), Members(w, k + 1)) = w[k + 1] + h.hdr[w[k + 1]].size - 1}
<1>7. 0 \in Good
  <2>1. PICK k \in 1 .. n : k = 1
    BY <1>2
  <2>2. Members(w, k) = {w[k]} /\ w[k] \in Members(w, k) /\ Members(w, k) \ {w[k]} = {}
    BY <2>1 DEF Members
  <2>3. Total(Sizes(h), Members(w, k)) = Sizes(h)[w[k]] + Total(Sizes(h), Members(w, k) \ {w[k]})
    BY <1>6, <2>2, TotalSplits
  <2>6. PICK x \in Nat : x = h.hdr[w[k]].size
    BY <1>1
  <2>7. Total(Sizes(h), Members(w, k)) = x + 0
    BY <1>5, <2>2, <2>3, <2>6, TotalEmpty
  <2>4. Total(Sizes(h), Members(w, k)) = h.hdr[w[k]].size
    BY <2>6, <2>7
  <2>5. Total(Sizes(h), Members(w, 0 + 1)) = w[0 + 1] + h.hdr[w[0 + 1]].size - 1
    BY <1>1, <1>2, <2>1, <2>4
  <2> QED
    BY <2>5
<1>8. ASSUME NEW k \in Good PROVE k + 1 \in Good
  <2> SUFFICES ASSUME k + 1 + 1 <= n
               PROVE  Total(Sizes(h), Members(w, k + 1 + 1)) = w[k + 1 + 1] + h.hdr[w[k + 1 + 1]].size - 1
    OBVIOUS
  <2>1. PICK i, j \in 1 .. n : i = k + 1 /\ j = i + 1 /\ i # n
    BY <1>2
  <2>2. Total(Sizes(h), Members(w, i)) = w[i] + h.hdr[w[i]].size - 1
    BY <1>2, <1>8, <2>1
  <2>3. Members(w, j) \ {w[j]} = Members(w, i) /\ w[j] \in Members(w, j)
    <3>1. \A x \in 1 .. j : x \in 1 .. n /\ (x # j => x \in 1 .. i)
      BY <1>2, <2>1
    <3>2. \A x \in 1 .. i : x \in 1 .. j /\ x # j /\ x \in 1 .. n
      BY <1>2, <2>1
    <3>3. j \in 1 .. j
      BY <2>1
    <3> QED
      BY <1>3, <3>1, <3>2, <3>3 DEF Members
  <2>4. Total(Sizes(h), Members(w, j)) = Sizes(h)[w[j]] + Total(Sizes(h), Members(w, i))
    BY <1>6, <2>3, TotalSplits
  <2>5. w[j] = w[i] + h.hdr[w[i]].size
    BY <1>2, <2>1
  <2>6. Total(Sizes(h), Members(w, j)) = w[j] + h.hdr[w[j]].size - 1
    BY <1>1, <1>5, <2>2, <2>4, <2>5
  <2> QED
    BY <2>1, <2>6
<1>9. Good \in SUBSET Nat
  OBVIOUS
<1> HIDE DEF Good
<1>10. Good = Nat
  BY <1>7, <1>8, <1>9, SetOfAllNats
<1>11. n - 1 \in Good /\ n - 1 + 1 = n
  BY <1>2, <1>10
<1>12. Total(Sizes(h), Members(w, n)) = w[n] + h.hdr[w[n]].size - 1
  BY <1>2, <1>11 DEF Good
<1>13. n \in 1 .. n /\ w[n] + h.hdr[w[n]].size = HeapUnits + 1
  BY <1>2
<1>14. Total(Sizes(h), Members(w, n)) = HeapUnits
  BY <1>1, <1>12, <1>13
<1> QED
  BY <1>6, <1>13, <1>14
-----------------------------------------------------------------------------
(* The L2 heap: allocating and freeing. *)

\* A heap with the blocks w[1 .. n] of which a call has X in hand; the others are in order.
Held(h, w, n, X) == \E f, m : Mid(h, w, n, f, m, X)

\* The callers' blocks are those they were, with their sizes.
KeepsUsed(g, v, c, h, w, n) ==
    /\ g.alloc_count = h.alloc_count
    /\ \A u : u \in UsedBlocks(g, v, c) <=> u \in UsedBlocks(h, w, n)
    /\ \A u \in UsedBlocks(h, w, n) : g.hdr[u].size = h.hdr[u].size

LEMMA HeldFacts ==
    ASSUME NEW h, NEW w, NEW n, NEW X, Held(h, w, n, X)
    PROVE  /\ HeapShape(h) /\ Tiles(h, w, n) /\ NoNeighbours(h, w, n, X)
           /\ X \subseteq Members(w, n) /\ \A b \in X : ~h.hdr[b].used
           /\ n \in Nat \ {0} /\ w \in [1 .. n -> Units] /\ Members(w, n) \subseteq Units
           /\ \A i, j \in 1 .. n : w[i] = w[j] => i = j
<1>1. /\ HeapShape(h) /\ Tiles(h, w, n) /\ NoNeighbours(h, w, n, X)
      /\ X \subseteq Members(w, n) /\ \A b \in X : ~h.hdr[b].used
  BY DEF Held, Mid
<1>2. n \in Nat \ {0}
  BY <1>1 DEF Tiles
<1> QED
  BY <1>1, <1>2, TilesInjective

LEMMA RemoveHeld ==
    ASSUME NEW h, NEW w, NEW n, NEW X, Held(h, w, n, X),
           NEW b \in Members(w, n), ~h.hdr[b].used, b \notin X
    PROVE  Held(fl_remove(h, b), w, n, X \cup {b}) /\ SameBlocks(fl_remove(h, b), h)
<1>1. PICK f, m : Mid(h, w, n, f, m, X)
  BY DEF Held
<1>2. b \in Members(f, m)
  BY <1>1 DEF Mid
<1>3. PICK k \in 1 .. m : b = f[k]
  BY <1>2 DEF Members
<1>4. Mid(fl_remove(h, b), w, n, Cut(f, m, k), m - 1, X \cup {b})
  BY <1>1, <1>3, RemoveMid
<1>5. HeapShape(h) /\ b \in Units
  BY HeldFacts
<1> QED
  BY <1>4, <1>5, RemoveFields DEF Held

LEMMA PushHeld ==
    ASSUME NEW h, NEW w, NEW n, NEW X, Held(h, w, n, X), NEW b \in X,
           \A i \in 2 .. n : /\ w[i] = b => h.hdr[w[i - 1]].used \/ w[i - 1] \in X \ {b}
                             /\ w[i - 1] = b => h.hdr[w[i]].used \/ w[i] \in X \ {b}
    PROVE  Held(fl_push(h, b), w, n, X \ {b}) /\ SameBlocks(fl_push(h, b), h)
<1>1. PICK f, m : Mid(h, w, n, f, m, X)
  BY DEF Held
<1>2. Mid(fl_push(h, b), w, n, Insert(f, m, 0, b), m + 1, X \ {b})
  BY <1>1, PushMid
<1>3. HeapShape(h) /\ b \in Units
  BY HeldFacts
<1>4. b # h.head
  <2>1. b \notin Members(f, m)
    BY <1>1 DEF Mid
  <2>2. /\ m \in Nat /\ h.head = (IF m = 0 THEN Nil ELSE f[1])
    BY <1>1 DEF Mid, FreeList
  <2>3. CASE m = 0
    BY <1>3, <2>2, <2>3 DEF Nil, Units
  <2>4. CASE m # 0
    <3>1. 1 \in 1 .. m
      BY <2>2, <2>4
    <3> QED
      BY <2>1, <2>2, <2>4, <3>1 DEF Members
  <2> QED
    BY <2>3, <2>4
<1> QED
  BY <1>2, <1>3, <1>4, PushFields DEF Held

LEMMA SplitHeld ==
    ASSUME NEW h, NEW w, NEW n, NEW j \in 1 .. n, Held(h, w, n, {w[j]}),
           j # n => h.hdr[w[j + 1]].used,
           NEW need \in Nat, need >= 2, h.hdr[w[j]].size >= need
    PROVE  \E v, c : /\ Held(Split(h, w[j], need), v, c, {w[j]})
                     /\ KeepsUsed(Split(h, w[j], need), v, c, h, w, n)
                     /\ Split(h, w[j], need).hdr[w[j]].size >= need
<1> DEFINE b == w[j]
           cut == b + need
           rest == h.hdr[b].size - need
           g == SplitOff(h, b, need)
           v == Insert(w, n, j, cut)
<1>1. /\ HeapShape(h) /\ n \in Nat \ {0} /\ w \in [1 .. n -> Units] /\ ~h.hdr[b].used
      /\ \A i, k \in 1 .. n : w[i] = w[k] => i = k
  BY HeldFacts
<1>2. h.hdr[b].size \in Nat
  BY <1>1, HeaderTypes
<1>3. CASE rest < 2
  <2>1. Split(h, b, need) = h
    BY <1>3 DEF Split
  <2>2. KeepsUsed(h, w, n, h, w, n)
    BY DEF KeepsUsed
  <2> QED
    BY <2>1, <2>2
<1>4. CASE ~(rest < 2)
  <2>1. rest >= 2
    BY <1>2, <1>4
  <2>2. PICK f, m : Mid(h, w, n, f, m, {b})
    BY DEF Held
  <2>3. /\ cut \in Units /\ cut \notin Members(w, n)
        /\ \A u : u \in Members(v, n + 1) <=> u \in Members(w, n) \/ u = cut
        /\ v[j + 1] = cut
        /\ Mid(g, v, n + 1, f, m, {b} \cup {cut})
        /\ g.alloc_count = h.alloc_count /\ g.hdr[b].size = need
        /\ \A u \in Members(w, n) : /\ g.hdr[u].used = h.hdr[u].used
                                    /\ u # b => g.hdr[u].size = h.hdr[u].size
    <3>1. PICK Y : Y = {w[j]}
      OBVIOUS
    <3>2. Mid(h, w, n, f, m, Y) /\ w[j] \in Y /\ h.hdr[w[j]].size - need >= 2
      BY <2>1, <2>2, <3>1
    <3>3. Mid(g, v, n + 1, f, m, Y \cup {cut}) /\ CutOff(g, v, h, w, n, j, cut, need)
      BY <3>2, SplitMid
    <3> QED
      BY <3>1, <3>3 DEF CutOff
  <2>4. Split(h, b, need) = fl_push(g, cut)
    BY <1>4 DEF Split, SplitOff
  <2>5. \A i \in 1 .. n + 1 : v[i] = IF i <= j THEN w[i] ELSE IF i = j + 1 THEN cut ELSE w[i - 1]
    BY DEF Insert
  <2> HIDE DEF g, v
  <2>6. Held(g, v, n + 1, {b} \cup {cut})
    BY <2>3 DEF Held
  <2>7. \A i, k \in 1 .. n + 1 : v[i] = v[k] => i = k
    BY <2>6, HeldFacts
  <2> DEFINE X == {b} \cup {cut}
  <2>8. b # cut /\ b \in Members(w, n)
    BY <2>3 DEF Members
  <2>9. ASSUME NEW i \in 2 .. n + 1
        PROVE  /\ v[i] = cut => g.hdr[v[i - 1]].used \/ v[i - 1] \in X \ {cut}
               /\ v[i - 1] = cut => g.hdr[v[i]].used \/ v[i] \in X \ {cut}
    <3>1. j + 1 \in 1 .. n + 1 /\ i \in 1 .. n + 1 /\ i - 1 \in 1 .. n + 1
      BY <1>1
    <3>2. CASE v[i] = cut
      <4>1. i = j + 1
        BY <2>3, <2>7, <3>1, <3>2
      <4>2. v[i - 1] = b
        BY <2>5, <3>1, <4>1
      <4>3. v[i - 1] # cut /\ v[i - 1] \in X \ {cut}
        BY <2>8, <4>2
      <4> QED
        BY <4>3
    <3>3. CASE v[i - 1] = cut
      <4>1. i - 1 = j + 1
        BY <2>3, <2>7, <3>1, <3>3
      <4>2. j + 1 \in 1 .. n /\ j # n /\ v[i] = w[j + 1]
        BY <1>1, <2>5, <3>1, <4>1
      <4>3. w[j + 1] \in Members(w, n)
        BY <4>2 DEF Members
      <4>4. g.hdr[v[i]].used /\ v[i] # cut
        BY <2>3, <4>2, <4>3
      <4> QED
        BY <4>4
    <3>4. CASE v[i] # cut /\ v[i - 1] # cut
      BY <3>4
    <3> QED
      BY <3>2, <3>3, <3>4
  <2>10. Held(fl_push(g, cut), v, n + 1, X \ {cut}) /\ SameBlocks(fl_push(g, cut), g)
    <3>1. cut \in X
      OBVIOUS
    <3> HIDE DEF X, cut
    <3>2. Held(g, v, n + 1, X)
      BY <2>6 DEF X
    <3> QED
      BY <2>9, <3>1, <3>2, PushHeld
  <2>11. X \ {cut} = {b}
    BY <2>8
  <2> DEFINE q == fl_push(g, cut)
  <2>12. Held(q, v, n + 1, {b})
    BY <2>10, <2>11
  <2>13. /\ q.alloc_count = g.alloc_count
         /\ \A u \in Units : q.hdr[u].size = g.hdr[u].size /\ q.hdr[u].used = g.hdr[u].used
    BY <2>10 DEF SameBlocks
  <2> HIDE DEF q
  <2>14. Members(w, n) \subseteq Units /\ ~g.hdr[cut].used
    BY <2>6, HeldFacts
  <2>15. KeepsUsed(q, v, n + 1, h, w, n)
    <3>1. ASSUME NEW u \in Members(w, n)
          PROVE  q.hdr[u].used = h.hdr[u].used /\ (u # b => q.hdr[u].size = h.hdr[u].size)
      BY <2>3, <2>13, <2>14
    <3>2. ~q.hdr[cut].used
      BY <2>3, <2>13, <2>14
    <3>3. \A u : u \in UsedBlocks(q, v, n + 1) <=> u \in UsedBlocks(h, w, n)
      BY <2>3, <3>1, <3>2 DEF UsedBlocks
    <3>4. \A u \in UsedBlocks(h, w, n) : q.hdr[u].size = h.hdr[u].size
      BY <1>1, <3>1 DEF UsedBlocks
    <3> QED
      BY <2>3, <2>13, <3>3, <3>4 DEF KeepsUsed
  <2>16. q.hdr[b].size >= need
    BY <2>3, <2>8, <2>13, <2>14
  <2> QED
    BY <2>4, <2>12, <2>15, <2>16 DEF q
<1> QED
  BY <1>3, <1>4

\* A free neighbour is taken out of the list and becomes one block with the block in hand.
LEMMA AbsorbHeld ==
    ASSUME NEW h, NEW w, NEW n, NEW k \in 1 .. n, k + 1 \in 1 .. n,
           NEW x, NEW y, \/ x = w[k] /\ y = w[k + 1]
                         \/ x = w[k + 1] /\ y = w[k],
           Held(h, w, n, {x}), ~h.hdr[y].used
    PROVE  LET g == Merged(fl_remove(h, y), w[k], w[k + 1])
               v == Cut(w, n, k + 1)
           IN /\ Held(g, v, n - 1, {w[k]}) /\ KeepsUsed(g, v, n - 1, h, w, n)
              /\ Joined(g, v, h, w, n, w[k], w[k + 1])
<1> DEFINE p == w[k]
           q == w[k + 1]
           h0 == fl_remove(h, y)
           g == Merged(h0, p, q)
           v == Cut(w, n, k + 1)
<1>1. /\ HeapShape(h) /\ n \in Nat \ {0} /\ w \in [1 .. n -> Units] /\ Members(w, n) \subseteq Units
      /\ \A i, j \in 1 .. n : w[i] = w[j] => i = j
      /\ ~h.hdr[x].used
  BY HeldFacts
<1>2. p # q /\ p \in Members(w, n) /\ q \in Members(w, n) /\ y \in Members(w, n) /\ y \notin {x}
  <2>1. p # q
    BY <1>1
  <2> QED
    BY <2>1 DEF Members
<1>3. Held(h0, w, n, {x} \cup {y}) /\ SameBlocks(h0, h)
  BY <1>2, RemoveHeld
<1>4. PICK Y : Y = {x} \cup {y}
  OBVIOUS
<1>5. w[k] \in Y /\ w[k + 1] \in Y /\ Y \ {q} = {p} /\ ~h.hdr[q].used
  BY <1>1, <1>2, <1>4
<1> HIDE DEF h0
<1>6. PICK f, m : Mid(h0, w, n, f, m, Y)
  BY <1>3, <1>4 DEF Held
<1>7. Mid(g, v, n - 1, f, m, Y \ {q}) /\ Joined(g, v, h0, w, n, p, q)
  BY <1>5, <1>6, MergeMid
<1> HIDE DEF g, v
<1>8. Held(g, v, n - 1, {p})
  BY <1>5, <1>7 DEF Held
<1>9. Joined(g, v, h, w, n, p, q)
  BY <1>3, <1>7 DEF Joined, SameBlocks
<1>10. ~h.hdr[p].used /\ ~h.hdr[q].used
  BY <1>1
<1> HIDE DEF p, q
<1>11. KeepsUsed(g, v, n - 1, h, w, n)
  <2>1. \A u : u \in UsedBlocks(g, v, n - 1) <=> u \in UsedBlocks(h, w, n)
    BY <1>1, <1>9, <1>10 DEF Joined, UsedBlocks
  <2>2. \A u \in UsedBlocks(h, w, n) : g.hdr[u].size = h.hdr[u].size
    BY <1>1, <1>9, <1>10 DEF Joined, UsedBlocks
  <2> QED
    BY <1>9, <2>1, <2>2 DEF Joined, KeepsUsed
<1> QED
  BY <1>8, <1>9, <1>11 DEF g, v, p, q, h0

LEMMA Neighbours ==
    ASSUME NEW h, HeapShape(h), NEW w, NEW n, Tiles(h, w, n), NEW j \in 1 .. n
    PROVE  /\ prev_block(h, w[j]) = IF j = 1 THEN Nil ELSE w[j - 1]
           /\ next_block(h, w[j]) = IF j = n THEN Nil ELSE w[j + 1]
<1>1. /\ n \in Nat \ {0}
      /\ \A i \in 1 .. n :
            /\ w[i] + h.hdr[w[i]].size = IF i = n THEN HeapUnits + 1 ELSE w[i + 1]
            /\ h.hdr[w[i]].prev_size = IF i = 1 THEN 0 ELSE h.hdr[w[i - 1]].size
  BY DEF Tiles
<1>2. /\ HeapUnits \in Nat
      /\ \A i \in 1 .. n : /\ w[i] \in Nat \ {0} /\ w[i] <= HeapUnits
                           /\ h.hdr[w[i]].size \in Nat /\ h.hdr[w[i]].size >= 2
  BY TilesBounds
<1>3. prev_block(h, w[j]) = IF j = 1 THEN Nil ELSE w[j - 1]
  <2>1. CASE j = 1
    BY <1>1, <2>1 DEF prev_block
  <2>2. CASE j # 1
    <3>1. PICK i \in 1 .. n : i = j - 1 /\ i # n /\ i + 1 = j
      BY <1>1, <2>2
    <3>2. w[i] + h.hdr[w[i]].size = w[j] /\ h.hdr[w[j]].prev_size = h.hdr[w[i]].size
      BY <1>1, <2>2, <3>1
    <3>3. PICK a, s \in Nat : a = w[i] /\ s = h.hdr[w[i]].size /\ s >= 2
      BY <1>2
    <3>4. w[j] = a + s /\ h.hdr[w[j]].prev_size = s /\ a + s - s = a /\ s # 0
      BY <3>2, <3>3
    <3> QED
      BY <2>2, <3>1, <3>3, <3>4 DEF prev_block
  <2> QED
    BY <2>1, <2>2
<1>4. next_block(h, w[j]) = IF j = n THEN Nil ELSE w[j + 1]
  <2>1. CASE j = n
    BY <1>1, <1>2, <2>1 DEF next_block
  <2>2. CASE j # n
    <3>1. PICK i \in 1 .. n : i = j + 1
      BY <1>1, <2>2
    <3>2. w[j] + h.hdr[w[j]].size = w[i] /\ w[i] <= HeapUnits /\ w[i] \in Nat
      BY <1>1, <1>2, <2>2, <3>1
    <3> QED
      BY <1>2, <2>2, <3>1, <3>2 DEF next_block
  <2> QED
    BY <2>1, <2>2
<1> QED
  BY <1>3, <1>4

\* After coalesce_prev the block in hand has no free block before it.
PrevUsed(r, h, w, n) ==
    \E v, c : \E i \in 1 .. c : /\ r[2] = v[i] /\ Held(r[1], v, c, {v[i]})
                                /\ KeepsUsed(r[1], v, c, h, w, n)
                                /\ i # 1 => r[1].hdr[v[i - 1]].used

LEMMA CoalescePrevHeld ==
    ASSUME NEW h, NEW w, NEW n, NEW j \in 1 .. n, Held(h, w, n, {w[j]})
    PROVE  PrevUsed(CoalescePrev(h, w[j]), h, w, n)
<1> DEFINE b == w[j]
           p == prev_block(h, b)
           h1 == fl_remove(h, p)
           r == CoalescePrev(h, b)
<1>1. /\ HeapShape(h) /\ Tiles(h, w, n) /\ NoNeighbours(h, w, n, {w[j]})
      /\ n \in Nat \ {0} /\ w \in [1 .. n -> Units] /\ Members(w, n) \subseteq Units
      /\ \A i, k \in 1 .. n : w[i] = w[k] => i = k
  BY HeldFacts
<1>2. p = IF j = 1 THEN Nil ELSE w[j - 1]
  BY <1>1, Neighbours
<1>3. Nil \notin Units
  BY DEF Nil, Units
<1>4. CASE p = Nil \/ h.hdr[p].used
  <2>1. r = <<h, b>>
    BY <1>4 DEF CoalescePrev
  <2>2. j # 1 => h.hdr[w[j - 1]].used
    <3>1. j # 1 => j - 1 \in 1 .. n
      BY <1>1
    <3> QED
      BY <1>1, <1>2, <1>3, <1>4, <3>1
  <2>3. KeepsUsed(h, w, n, h, w, n)
    BY DEF KeepsUsed
  <2>4. r[1] = h /\ r[2] = w[j]
    BY <2>1
  <2> HIDE DEF r
  <2>5. PrevUsed(r, h, w, n)
    BY <2>2, <2>3, <2>4 DEF PrevUsed
  <2> QED
    BY <2>5 DEF r
<1>5. CASE ~(p = Nil \/ h.hdr[p].used)
  <2> DEFINE g == Merged(h1, p, b)
             v == Cut(w, n, j)
  <2>1. j # 1 /\ p = w[j - 1] /\ ~h.hdr[p].used
    BY <1>2, <1>5
  <2>2. PICK i \in 1 .. n : i = j - 1 /\ i + 1 = j /\ i + 1 \in 1 .. n /\ i \in 1 .. n - 1 /\ i < j
    BY <1>1, <2>1
  <2>3. /\ Held(g, v, n - 1, {w[i]}) /\ KeepsUsed(g, v, n - 1, h, w, n)
        /\ Joined(g, v, h, w, n, w[i], w[i + 1])
    <3>1. PICK x, y : x = w[i + 1] /\ y = w[i]
      OBVIOUS
    <3>2. Held(h, w, n, {x}) /\ ~h.hdr[y].used /\ y = p /\ i + 1 \in 1 .. n
      BY <2>1, <2>2, <3>1
    <3>3. /\ Held(Merged(fl_remove(h, y), w[i], w[i + 1]), Cut(w, n, i + 1), n - 1, {w[i]})
          /\ KeepsUsed(Merged(fl_remove(h, y), w[i], w[i + 1]), Cut(w, n, i + 1), n - 1, h, w, n)
          /\ Joined(Merged(fl_remove(h, y), w[i], w[i + 1]), Cut(w, n, i + 1), h, w, n, w[i], w[i + 1])
      BY <3>1, <3>2, AbsorbHeld
    <3>4. Merged(fl_remove(h, y), w[i], w[i + 1]) = g /\ Cut(w, n, i + 1) = v
      BY <2>1, <2>2, <3>2
    <3> QED
      BY <3>3, <3>4
  <2>4. r = <<g, p>>
    <3>1. p \in Units
      BY <1>1, <2>1, <2>2
    <3>2. SameBlocks(h1, h) /\ b \in Units
      BY <1>1, <3>1, RemoveFields
    <3>3. h1.hdr[b].size = h.hdr[b].size
      BY <3>2 DEF SameBlocks
    <3> HIDE DEF h1, p, b
    <3>4. r = <<TellNext([h1 EXCEPT !.hdr[p].size = h1.hdr[p].size + h.hdr[b].size], p), p>>
      BY <1>5 DEF CoalescePrev, h1, p, b
    <3> QED
      BY <3>3, <3>4 DEF Merged
  <2>5. v[i] = w[i]
    BY <2>2 DEF Cut
  <2>6. ASSUME i # 1
        PROVE  g.hdr[v[i - 1]].used
    <3>1. i - 1 \in 1 .. n /\ i - 1 \in 1 .. n - 1 /\ i - 1 < j /\ i \in 2 .. n /\ i - 1 # j /\ i # j
      BY <1>1, <2>2, <2>6
    <3>2. v[i - 1] = w[i - 1]
      BY <3>1 DEF Cut
    <3>3. w[i - 1] # w[j] /\ w[i] # w[j] /\ w[i - 1] \in Units
      BY <1>1, <3>1
    <3>4. ~h.hdr[w[i]].used
      BY <2>1, <2>2
    <3>5. h.hdr[w[i - 1]].used
      BY <1>1, <3>1, <3>3, <3>4 DEF NoNeighbours
    <3>6. g.hdr[w[i - 1]].used = h.hdr[w[i - 1]].used
      BY <2>3, <3>3 DEF Joined
    <3> QED
      BY <3>2, <3>5, <3>6
  <2>7. r[1] = g /\ r[2] = w[i]
    BY <2>1, <2>2, <2>4
  <2> HIDE DEF r, g, v
  <2>8. PICK c : c = n - 1
    OBVIOUS
  <2>9. /\ i \in 1 .. c /\ r[2] = v[i] /\ Held(r[1], v, c, {v[i]}) /\ KeepsUsed(r[1], v, c, h, w, n)
        /\ i # 1 => r[1].hdr[v[i - 1]].used
    BY <2>2, <2>3, <2>5, <2>6, <2>7, <2>8
  <2>10. PrevUsed(r, h, w, n)
    BY <2>9 DEF PrevUsed
  <2> QED
    BY <2>10 DEF r
<1> QED
  BY <1>4, <1>5

\* After coalesce_next the block in hand has no free block on either side.
Alone(g, v, c, b) ==
    \A i \in 2 .. c : /\ v[i] = b => g.hdr[v[i - 1]].used
                      /\ v[i - 1] = b => g.hdr[v[i]].used

NextUsed(g, b, h, w, n) ==
    \E v, c : Held(g, v, c, {b}) /\ KeepsUsed(g, v, c, h, w, n) /\ Alone(g, v, c, b)

LEMMA CoalesceNextHeld ==
    ASSUME NEW h, NEW w, NEW n, NEW j \in 1 .. n, Held(h, w, n, {w[j]}),
           j # 1 => h.hdr[w[j - 1]].used
    PROVE  NextUsed(CoalesceNext(h, w[j]), w[j], h, w, n)
<1> DEFINE b == w[j]
           s == next_block(h, b)
           h1 == fl_remove(h, s)
           r == CoalesceNext(h, b)
<1>1. /\ HeapShape(h) /\ Tiles(h, w, n) /\ NoNeighbours(h, w, n, {w[j]})
      /\ n \in Nat \ {0} /\ w \in [1 .. n -> Units] /\ Members(w, n) \subseteq Units
      /\ \A i, k \in 1 .. n : w[i] = w[k] => i = k
  BY HeldFacts
<1>2. s = IF j = n THEN Nil ELSE w[j + 1]
  BY <1>1, Neighbours
<1>3. Nil \notin Units
  BY DEF Nil, Units
<1>4. CASE s = Nil \/ h.hdr[s].used
  <2>1. r = h
    BY <1>4 DEF CoalesceNext
  <2>2. j # n => h.hdr[w[j + 1]].used
    <3>1. j # n => j + 1 \in 1 .. n
      BY <1>1
    <3> QED
      BY <1>1, <1>2, <1>3, <1>4, <3>1
  <2>3. KeepsUsed(h, w, n, h, w, n)
    BY DEF KeepsUsed
  <2>4. Alone(h, w, n, b)
    <3> SUFFICES ASSUME NEW i \in 2 .. n
                 PROVE  /\ w[i] = b => h.hdr[w[i - 1]].used
                        /\ w[i - 1] = b => h.hdr[w[i]].used
      BY DEF Alone
    <3>1. i \in 1 .. n /\ i - 1 \in 1 .. n /\ i # 1 /\ i - 1 # n /\ i - 1 + 1 = i
      BY <1>1
    <3>2. (w[i] = b => i = j) /\ (w[i - 1] = b => i - 1 = j)
      BY <1>1, <3>1
    <3> QED
      BY <2>2, <3>1, <3>2
  <2> QED
    BY <2>1, <2>3, <2>4 DEF NextUsed
<1>5. CASE ~(s = Nil \/ h.hdr[s].used)
  <2> DEFINE g == Merged(h1, b, s)
             v == Cut(w, n, j + 1)
  <2>1. j # n /\ s = w[j + 1] /\ ~h.hdr[s].used /\ j + 1 \in 1 .. n
    BY <1>1, <1>2, <1>5
  <2>2. Held(g, v, n - 1, {b}) /\ KeepsUsed(g, v, n - 1, h, w, n) /\ Joined(g, v, h, w, n, b, s)
    <3>1. PICK x, y : x = w[j] /\ y = w[j + 1]
      OBVIOUS
    <3>2. Held(h, w, n, {x}) /\ ~h.hdr[y].used /\ y = s
      BY <2>1, <3>1
    <3>3. /\ Held(Merged(fl_remove(h, y), w[j], w[j + 1]), Cut(w, n, j + 1), n - 1, {w[j]})
          /\ KeepsUsed(Merged(fl_remove(h, y), w[j], w[j + 1]), Cut(w, n, j + 1), n - 1, h, w, n)
          /\ Joined(Merged(fl_remove(h, y), w[j], w[j + 1]), Cut(w, n, j + 1), h, w, n, w[j], w[j + 1])
      BY <2>1, <3>1, <3>2, AbsorbHeld
    <3>4. Merged(fl_remove(h, y), w[j], w[j + 1]) = g
      BY <2>1, <3>2
    <3> QED
      BY <2>1, <3>3, <3>4
  <2>3. r = g
    <3>1. s \in Units
      BY <1>1, <2>1
    <3>2. SameBlocks(h1, h)
      BY <1>1, <3>1, RemoveFields
    <3>3. h1.hdr[s].size = h.hdr[s].size
      BY <3>1, <3>2 DEF SameBlocks
    <3> HIDE DEF h1, s, b
    <3>4. r = TellNext([h1 EXCEPT !.hdr[b].size = h1.hdr[b].size + h.hdr[s].size], b)
      BY <1>5 DEF CoalesceNext, h1, s, b
    <3> QED
      BY <3>3, <3>4 DEF Merged
  <2>4. Alone(g, v, n - 1, b)
    <3> SUFFICES ASSUME NEW i \in 2 .. n - 1
                 PROVE  /\ v[i] = b => g.hdr[v[i - 1]].used
                        /\ v[i - 1] = b => g.hdr[v[i]].used
      BY DEF Alone
    <3>1. /\ i \in 1 .. n /\ i - 1 \in 1 .. n /\ i + 1 \in 1 .. n /\ i # 1 /\ i - 1 + 1 = i /\ i + 1 \in 2 .. n
          /\ i \in 1 .. n - 1 /\ i - 1 \in 1 .. n - 1 /\ i + 1 - 1 = i
      BY <1>1
    <3>2. /\ v[i] = IF i < j + 1 THEN w[i] ELSE w[i + 1]
          /\ v[i - 1] = IF i - 1 < j + 1 THEN w[i - 1] ELSE w[i]
      BY <3>1 DEF Cut
    <3> HIDE DEF v, g
    <3>3. \A u \in Units : g.hdr[u].used = h.hdr[u].used
      BY <2>2 DEF Joined
    <3>4. ASSUME v[i] = b PROVE g.hdr[v[i - 1]].used
      <4>1. i = j
        BY <1>1, <3>1, <3>2, <3>4
      <4>2. v[i - 1] = w[i - 1] /\ w[i - 1] \in Units /\ h.hdr[w[i - 1]].used
        BY <1>1, <3>1, <3>2, <4>1
      <4> QED
        BY <3>3, <4>2
    <3>5. ASSUME v[i - 1] = b PROVE g.hdr[v[i]].used
      <4>1. i - 1 = j
        BY <1>1, <3>1, <3>2, <3>5
      <4>2. v[i] = w[i + 1] /\ w[i + 1] \in Units /\ w[i] = s
        BY <1>1, <2>1, <3>1, <3>2, <4>1
      <4>3. w[i] # w[j] /\ w[i + 1] # w[j] /\ ~h.hdr[w[i]].used
        BY <1>1, <2>1, <3>1, <4>1, <4>2
      <4>4. h.hdr[w[i + 1]].used
        BY <1>1, <3>1, <4>3 DEF NoNeighbours
      <4> QED
        BY <3>3, <4>2, <4>4
    <3> QED
      BY <3>4, <3>5
  <2> HIDE DEF g, v, r, b
  <2>5. NextUsed(r, b, h, w, n)
    BY <2>2, <2>3, <2>4 DEF NextUsed
  <2> QED
    BY <2>5 DEF r, b
<1> QED
  BY <1>4, <1>5

\* What l2_free leaves of the callers' blocks.
Freed(g, h, w, n, b) ==
    \E v, c : /\ Held(g, v, c, {}) /\ g.alloc_count = h.alloc_count - 1
              /\ \A u : u \in UsedBlocks(g, v, c) <=> u \in UsedBlocks(h, w, n) /\ u # b
              /\ \A u \in UsedBlocks(g, v, c) : g.hdr[u].size = h.hdr[u].size

LEMMA FreeHeld ==
    ASSUME NEW h, NEW w, NEW n, Held(h, w, n, {}), NEW b \in UsedBlocks(h, w, n)
    PROVE  Freed(l2_free(h, b), h, w, n, b)
<1>1. HeapShape(h) /\ Members(w, n) \subseteq Units /\ h.hdr[b].used /\ b \in Members(w, n)
  BY HeldFacts DEF UsedBlocks
<1>2. PICK h1 : h1 = Returned(h, b)
  OBVIOUS
<1>3. Held(h1, w, n, {b}) /\ Marked(h1, h, b, FALSE)
  <2>1. PICK f, m : Mid(h, w, n, f, m, {})
    BY DEF Held
  <2>2. Mid(h1, w, n, f, m, {} \cup {b}) /\ Marked(h1, h, b, FALSE)
    BY <1>2, <2>1, ReleaseMid
  <2>3. {} \cup {b} = {b}
    OBVIOUS
  <2> QED
    BY <2>2, <2>3 DEF Held
<1>4. PICK j \in 1 .. n : b = w[j]
  BY <1>1 DEF Members
<1>5. PICK r : r = CoalescePrev(h1, b)
  OBVIOUS
<1>6. PrevUsed(r, h1, w, n)
  BY <1>3, <1>4, <1>5, CoalescePrevHeld
<1>7. PICK v, c : \E i \in 1 .. c : /\ r[2] = v[i] /\ Held(r[1], v, c, {v[i]})
                                    /\ KeepsUsed(r[1], v, c, h1, w, n)
                                    /\ i # 1 => r[1].hdr[v[i - 1]].used
  BY <1>6 DEF PrevUsed
<1>8. PICK i \in 1 .. c : /\ r[2] = v[i] /\ Held(r[1], v, c, {v[i]})
                          /\ KeepsUsed(r[1], v, c, h1, w, n)
                          /\ i # 1 => r[1].hdr[v[i - 1]].used
  BY <1>7
<1>9. PICK x, p : x = r[1] /\ p = r[2]
  OBVIOUS
<1>10. PICK y : y = CoalesceNext(x, p)
  OBVIOUS
<1>11. NextUsed(y, p, x, v, c)
  <2>1. Held(x, v, c, {v[i]}) /\ (i # 1 => x.hdr[v[i - 1]].used) /\ p = v[i]
    BY <1>8, <1>9
  <2>2. NextUsed(CoalesceNext(x, v[i]), v[i], x, v, c)
    BY <2>1, CoalesceNextHeld
  <2> QED
    BY <1>10, <2>1, <2>2
<1>12. PICK e, d : Held(y, e, d, {p}) /\ KeepsUsed(y, e, d, x, v, c) /\ Alone(y, e, d, p)
  BY <1>11 DEF NextUsed
<1>13. PICK g : g = fl_push(y, p)
  OBVIOUS
<1>14. Held(g, e, d, {}) /\ SameBlocks(g, y)
  <2>1. PICK X : X = {p}
    OBVIOUS
  <2>2. Held(y, e, d, X) /\ p \in X /\ X \ {p} = {}
    BY <1>12, <2>1
  <2>3. \A k \in 2 .. d : /\ e[k] = p => y.hdr[e[k - 1]].used \/ e[k - 1] \in X \ {p}
                          /\ e[k - 1] = p => y.hdr[e[k]].used \/ e[k] \in X \ {p}
    BY <1>12 DEF Alone
  <2>4. Held(fl_push(y, p), e, d, X \ {p}) /\ SameBlocks(fl_push(y, p), y)
    BY <2>2, <2>3, PushHeld
  <2> QED
    BY <1>13, <2>2, <2>4
<1>15. l2_free(h, b) = g
  BY <1>1, <1>2, <1>5, <1>9, <1>10, <1>13 DEF l2_free, Returned
<1>16. KeepsUsed(x, v, c, h1, w, n) /\ Members(e, d) \subseteq Units
  BY <1>8, <1>9, <1>12, HeldFacts
<1>17. g.alloc_count = h.alloc_count - 1
  <2>1. g.alloc_count = y.alloc_count /\ y.alloc_count = x.alloc_count /\ x.alloc_count = h1.alloc_count
    BY <1>12, <1>14, <1>16 DEF KeepsUsed, SameBlocks
  <2>2. h1.alloc_count = h.alloc_count + (-1) /\ h.alloc_count \in Int
    BY <1>1, <1>3 DEF Marked, HeapShape
  <2> QED
    BY <2>1, <2>2
<1>18. ASSUME NEW u
       PROVE  u \in UsedBlocks(g, e, d) <=> u \in UsedBlocks(h, w, n) /\ u # b
  <2>1. u \in UsedBlocks(g, e, d) <=> u \in UsedBlocks(y, e, d)
    BY <1>14, <1>16 DEF UsedBlocks, SameBlocks
  <2>2. u \in UsedBlocks(y, e, d) <=> u \in UsedBlocks(h1, w, n)
    BY <1>12, <1>16 DEF KeepsUsed
  <2>3. u \in UsedBlocks(h1, w, n) <=> u \in UsedBlocks(h, w, n) /\ u # b
    BY <1>1, <1>3 DEF UsedBlocks, Marked
  <2> QED
    BY <2>1, <2>2, <2>3
<1>19. ASSUME NEW u \in UsedBlocks(g, e, d)
       PROVE  g.hdr[u].size = h.hdr[u].size
  <2>1. u \in UsedBlocks(h1, w, n) /\ u \in UsedBlocks(x, v, c) /\ u \in Units
    BY <1>12, <1>14, <1>16, <1>19 DEF KeepsUsed, UsedBlocks, SameBlocks
  <2>2. g.hdr[u].size = y.hdr[u].size
    BY <1>14, <2>1 DEF SameBlocks
  <2>3. y.hdr[u].size = x.hdr[u].size /\ x.hdr[u].size = h1.hdr[u].size
    BY <1>12, <1>16, <2>1 DEF KeepsUsed
  <2>4. h1.hdr[u].size = h.hdr[u].size
    BY <1>3, <2>1 DEF Marked
  <2> QED
    BY <2>2, <2>3, <2>4
<1>20. Freed(g, h, w, n, b)
  BY <1>14, <1>17, <1>18, <1>19 DEF Freed
<1> QED
  BY <1>15, <1>20

LEMMA FreeBlocksIs ==
    ASSUME NEW h, HeapShape(h), NEW f, NEW m, FreeList(h, f, m)
    PROVE  FreeBlocks(h) = f
<1>1. /\ m \in Nat /\ f \in [1 .. m -> Units] /\ \A i, j \in 1 .. m : f[i] = f[j] => i = j
      /\ h.head = (IF m = 0 THEN Nil ELSE f[1])
      /\ \A i \in 1 .. m : h.hdr[f[i]].next = IF i = m THEN Nil ELSE f[i + 1]
  BY DEF FreeList
<1>2. m <= HeapUnits
  BY <1>1, AtMostUnits
<1>3. PICK start, next : start = h.head /\ next = [u \in Units |-> h.hdr[u].next]
  OBVIOUS
<1>4. \A i \in 1 .. m : next[f[i]] = IF i = m THEN Nil ELSE f[i + 1]
  BY <1>1, <1>3
<1>5. Leads(start, next, f, m)
  BY <1>1, <1>2, <1>3, <1>4 DEF Leads
<1>6. Met(start, next) = f
  BY <1>5, MetIs
<1> QED
  BY <1>3, <1>6 DEF FreeBlocks

LEMMA WantIsEnough ==
    ASSUME NEW size \in Nat \ {0}, NEW align \in Nat \ {0}
    PROVE  Want(size, align) \in Nat /\ Want(size, align) >= size + 1
<1>1. PICK x \in Nat : x = ((size + align - 1) \div align) * align /\ x >= size
  BY RoundUp
<1> QED
  BY <1>1 DEF Want

\* What l2_alloc leaves of the callers' blocks.
Allocated(r, h, w, n, size) ==
    \/ r[1] = h /\ r[2] = Nil
    \/ \E v, c : /\ Held(r[1], v, c, {}) /\ r[1].alloc_count = h.alloc_count + 1
                 /\ r[2] \in Units /\ r[2] \notin UsedBlocks(h, w, n)
                 /\ r[1].hdr[r[2]].size >= size + 1
                 /\ \A u : u \in UsedBlocks(r[1], v, c) <=> u \in UsedBlocks(h, w, n) \/ u = r[2]
                 /\ \A u \in UsedBlocks(h, w, n) : r[1].hdr[u].size = h.hdr[u].size

LEMMA AllocHeld ==
    ASSUME NEW h, NEW w, NEW n, Held(h, w, n, {}),
           NEW size \in Nat \ {0}, NEW align \in Nat \ {0}
    PROVE  Allocated(l2_alloc(h, size, align), h, w, n, size)
<1>1. PICK f, m : Mid(h, w, n, f, m, {})
  BY DEF Held
<1>2. /\ HeapShape(h) /\ Tiles(h, w, n) /\ NoNeighbours(h, w, n, {}) /\ Members(w, n) \subseteq Units
      /\ n \in Nat \ {0} /\ w \in [1 .. n -> Units] /\ \A i, j \in 1 .. n : w[i] = w[j] => i = j
  BY HeldFacts
<1>3. FreeList(h, f, m) /\ Members(f, m) = {b \in Members(w, n) : ~h.hdr[b].used}
  BY <1>1 DEF Mid
<1>4. FreeBlocks(h) = f /\ m \in Nat /\ f \in [1 .. m -> Units] /\ DOMAIN f = 1 .. m
  <2>1. m \in Nat /\ f \in [1 .. m -> Units]
    BY <1>3 DEF FreeList
  <2> QED
    BY <1>2, <1>3, <2>1, FreeBlocksIs
<1>5. PICK need \in Nat : need = Want(size, align) /\ need >= size + 1 /\ need >= 2
  BY WantIsEnough
<1>6. PICK fits : fits = {i \in 1 .. m : h.hdr[f[i]].size >= need}
  OBVIOUS
<1>7. CASE fits = {}
  <2>1. l2_alloc(h, size, align) = <<h, Nil>>
    BY <1>4, <1>5, <1>6, <1>7 DEF l2_alloc
  <2>2. PICK r : r = l2_alloc(h, size, align)
    OBVIOUS
  <2>3. r[1] = h /\ r[2] = Nil
    BY <2>1, <2>2
  <2> QED
    BY <2>2, <2>3 DEF Allocated
<1>8. CASE fits # {}
  <2>1. PICK i \in fits : i = Min(fits)
    <3>1. fits \in SUBSET Nat
      BY <1>6
    <3>2. \E x \in fits : \A y \in fits : x <= y
      BY <1>8, <3>1, LeastNat
    <3> QED
      BY <3>2 DEF Min
  <2>2. PICK b : b = f[i]
    OBVIOUS
  <2>3. i \in 1 .. m /\ b \in Units /\ h.hdr[b].size >= need /\ b \in Members(f, m)
    BY <1>4, <1>6, <2>1, <2>2 DEF Members
  <2>4. b \in Members(w, n) /\ ~h.hdr[b].used
    BY <1>3, <2>3
  <2>5. PICK j \in 1 .. n : b = w[j]
    BY <2>4 DEF Members
  <2>6. PICK h0 : h0 = fl_remove(h, b)
    OBVIOUS
  <2>7. Held(h0, w, n, {b}) /\ SameBlocks(h0, h)
    <3>1. Held(fl_remove(h, b), w, n, {} \cup {b}) /\ SameBlocks(fl_remove(h, b), h)
      BY <2>4, RemoveHeld
    <3>2. {} \cup {b} = {b}
      OBVIOUS
    <3> QED
      BY <2>6, <3>1, <3>2
  <2>8. \A u \in Units : h0.hdr[u].used = h.hdr[u].used /\ h0.hdr[u].size = h.hdr[u].size
    BY <2>7 DEF SameBlocks
  <2>9. j # n => h0.hdr[w[j + 1]].used
    <3> SUFFICES ASSUME j # n PROVE h0.hdr[w[j + 1]].used
      OBVIOUS
    <3>1. PICK k \in 2 .. n : k = j + 1 /\ k - 1 = j /\ k \in 1 .. n
      BY <1>2
    <3>2. h.hdr[w[k]].used
      BY <1>2, <2>4, <2>5, <3>1 DEF NoNeighbours
    <3> QED
      BY <1>2, <2>8, <3>1, <3>2
  <2>10. PICK h1 : h1 = Split(h0, b, need)
    OBVIOUS
  <2>11. PICK v, c : Held(h1, v, c, {b}) /\ KeepsUsed(h1, v, c, h0, w, n) /\ h1.hdr[b].size >= need
    <3>1. Held(h0, w, n, {w[j]}) /\ h0.hdr[w[j]].size >= need
      BY <2>3, <2>5, <2>7, <2>8
    <3>2. \E v, c : /\ Held(Split(h0, w[j], need), v, c, {w[j]})
                    /\ KeepsUsed(Split(h0, w[j], need), v, c, h0, w, n)
                    /\ Split(h0, w[j], need).hdr[w[j]].size >= need
      BY <1>5, <2>9, <3>1, SplitHeld
    <3> QED
      BY <2>5, <2>10, <3>2
  <2>12. PICK g : g = Given(h1, b)
    OBVIOUS
  <2>13. Held(g, v, c, {}) /\ Marked(g, h1, b, TRUE)
    <3>1. PICK e, d : Mid(h1, v, c, e, d, {b})
      BY <2>11 DEF Held
    <3>2. PICK X : X = {b}
      OBVIOUS
    <3>3. Mid(h1, v, c, e, d, X) /\ b \in X /\ X \ {b} = {}
      BY <3>1, <3>2
    <3>4. Mid(Given(h1, b), v, c, e, d, X \ {b}) /\ Marked(Given(h1, b), h1, b, TRUE)
      BY <3>3, UseMid
    <3> QED
      BY <2>12, <3>3, <3>4 DEF Held
  <2>14. l2_alloc(h, size, align) = <<g, b>>
    BY <1>4, <1>5, <1>6, <1>8, <2>1, <2>2, <2>6, <2>10, <2>12 DEF l2_alloc, Given
  <2>15. Members(v, c) \subseteq Units /\ HeapShape(h1) /\ b \in Members(v, c)
    BY <2>11, HeldFacts
  <2>16. g.alloc_count = h.alloc_count + 1
    <3>1. h1.alloc_count = h.alloc_count
      BY <2>7, <2>11 DEF KeepsUsed, SameBlocks
    <3> QED
      BY <2>13, <3>1 DEF Marked
  <2>17. \A u : u \in UsedBlocks(h0, w, n) <=> u \in UsedBlocks(h, w, n)
    BY <1>2, <2>8 DEF UsedBlocks
  <2>18. \A u : u \in UsedBlocks(g, v, c) <=> u \in UsedBlocks(h, w, n) \/ u = b
    <3>1. \A u : u \in UsedBlocks(g, v, c) <=> u \in UsedBlocks(h1, v, c) \/ u = b
      BY <2>13, <2>15 DEF UsedBlocks, Marked
    <3>2. \A u : u \in UsedBlocks(h1, v, c) <=> u \in UsedBlocks(h0, w, n)
      BY <2>11 DEF KeepsUsed
    <3> QED
      BY <2>17, <3>1, <3>2
  <2>19. \A u \in UsedBlocks(h, w, n) : g.hdr[u].size = h.hdr[u].size
    <3>1. \A u \in UsedBlocks(h, w, n) : u \in Units /\ u \in UsedBlocks(h0, w, n)
      BY <1>2, <2>17 DEF UsedBlocks
    <3>2. \A u \in UsedBlocks(h0, w, n) : h1.hdr[u].size = h0.hdr[u].size
      BY <2>11 DEF KeepsUsed
    <3>3. \A u \in Units : g.hdr[u].size = h1.hdr[u].size
      BY <2>13 DEF Marked
    <3> QED
      BY <2>8, <3>1, <3>2, <3>3
  <2>20. b \notin UsedBlocks(h, w, n)
    BY <2>4 DEF UsedBlocks
  <2>21. g.hdr[b].size >= size + 1
    <3>1. g.hdr[b].size = h1.hdr[b].size
      BY <2>3, <2>13 DEF Marked
    <3>2. h1.hdr[b].size \in Nat
      BY <2>3, <2>15, HeaderTypes
    <3> QED
      BY <1>5, <2>11, <3>1, <3>2
  <2>22. PICK r : r = l2_alloc(h, size, align)
    OBVIOUS
  <2>23. r[1] = g /\ r[2] = b
    BY <2>14, <2>22
  <2>24. Allocated(r, h, w, n, size)
    BY <2>3, <2>13, <2>16, <2>18, <2>19, <2>20, <2>21, <2>23 DEF Allocated
  <2> QED
    BY <2>22, <2>24
<1> QED
  BY <1>7, <1>8
-----------------------------------------------------------------------------
(* The L2 heap: the invariant. *)

LEMMA ChainIs ==
    ASSUME NEW h, HeapShape(h), NEW w, NEW n, Tiles(h, w, n)
    PROVE  Chain(h) = w
<1>1. /\ n \in Nat \ {0} /\ w \in [1 .. n -> Units] /\ w[1] = 1
  BY DEF Tiles
<1>2. n <= HeapUnits
  <2>1. \A i, j \in 1 .. n : w[i] = w[j] => i = j
    BY TilesInjective
  <2> QED
    BY <1>1, <2>1, AtMostUnits
<1>3. PICK next : next = [u \in Units |-> next_block(h, u)]
  OBVIOUS
<1>4. ASSUME NEW i \in 1 .. n
      PROVE  next[w[i]] = IF i = n THEN Nil ELSE w[i + 1]
  <2>1. w[i] \in Units
    BY <1>1
  <2>2. next_block(h, w[i]) = IF i = n THEN Nil ELSE w[i + 1]
    BY Neighbours
  <2> QED
    BY <1>3, <2>1, <2>2
<1>5. PICK start : start = 1
  OBVIOUS
<1>6. Leads(start, next, w, n)
  BY <1>1, <1>2, <1>4, <1>5 DEF Leads
<1>7. Met(start, next) = w
  BY <1>6, MetIs
<1> QED
  BY <1>3, <1>5, <1>7 DEF Chain

\* The used blocks are the live allocations, each large enough.
OwnedOK(h, w, n) ==
    /\ DOMAIN owned = {b + 1 : b \in UsedBlocks(h, w, n)}
    /\ \A p \in DOMAIN owned : owned[p].size \in Nat /\ owned[p].size <= h.hdr[p - 1].size - 1
    /\ h.alloc_count = Cardinality(DOMAIN owned)

\* Inductive: between two calls no block is in hand.
L2Inv ==
    /\ l2 = NoHeap => owned = <<>>
    /\ l2 # NoHeap => \E w, n : Held(l2, w, n, {}) /\ OwnedOK(l2, w, n)

LEMMA ShapeIsHeap == ASSUME NEW h, HeapShape(h) PROVE h # NoHeap
<1>1. "head" \in DOMAIN h
  BY DEF HeapShape
<1>2. "head" \notin DOMAIN NoHeap
  BY DEF NoHeap
<1> QED
  BY <1>1, <1>2

LEMMA UsedUnits ==
    ASSUME NEW h, NEW w, NEW n, Held(h, w, n, {})
    PROVE  /\ UsedBlocks(h, w, n) \subseteq Units
           /\ \A b \in UsedBlocks(h, w, n) : b \in Nat /\ b + 1 \in Nat /\ b + 1 - 1 = b
                                             /\ h.hdr[b].size \in Nat
           /\ \A p : p \in {b + 1 : b \in UsedBlocks(h, w, n)} => p \in Nat /\ p - 1 \in UsedBlocks(h, w, n)
           /\ IsFiniteSet({b + 1 : b \in UsedBlocks(h, w, n)})
<1>1. UsedBlocks(h, w, n) \subseteq Units /\ HeapShape(h)
  BY HeldFacts DEF UsedBlocks
<1>2. \A b \in UsedBlocks(h, w, n) : b \in Nat /\ b + 1 \in Nat /\ b + 1 - 1 = b /\ b + 1 \in 1 .. HeapUnits + 1
  BY <1>1, L2Assumption DEF Units
<1>3. \A b \in UsedBlocks(h, w, n) : h.hdr[b].size \in Nat
  BY <1>1, HeaderTypes
<1>4. \A p : p \in {b + 1 : b \in UsedBlocks(h, w, n)} => p \in Nat /\ p - 1 \in UsedBlocks(h, w, n)
  BY <1>2
<1>5. {b + 1 : b \in UsedBlocks(h, w, n)} \subseteq 1 .. HeapUnits + 1
  BY <1>2
<1>6. IsFiniteSet(1 .. HeapUnits + 1)
  BY L2Assumption, FS_Interval
<1> QED
  BY <1>1, <1>2, <1>3, <1>4, <1>5, <1>6, FS_Subset

LEMMA CreateHeld ==
    \E w, n : /\ Held(l2_create, w, n, {}) /\ l2_create.alloc_count = 0
              /\ UsedBlocks(l2_create, w, n) = {}
<1> DEFINE hdr == [u \in Units |-> IF u = 1 THEN Header(HeapUnits, 0) ELSE Header(0, 0)]
           h == [hdr |-> hdr, head |-> Nil, alloc_count |-> 0, free_block_count |-> 0]
           w == [i \in 1 .. 1 |-> 1]
           f == [i \in 1 .. 0 |-> 1]
<1>1. 1 \in Units /\ HeapUnits \in Nat /\ HeapUnits >= 2 /\ Nil \in 0 .. HeapUnits
  BY L2Assumption DEF Units, Nil
<1>2. \A x \in Nat : Header(x, 0) \in HeaderType
  BY <1>1 DEF Header, HeaderType
<1>3. Header(HeapUnits, 0) \in HeaderType /\ Header(0, 0) \in HeaderType
  BY <1>1, <1>2
<1>4. hdr \in [Units -> HeaderType]
  BY <1>3
<1>5. hdr[1] = Header(HeapUnits, 0)
  BY <1>1
<1>6. hdr[1].size = HeapUnits /\ hdr[1].prev_size = 0 /\ hdr[1].used = FALSE
  BY <1>5 DEF Header
<1> HIDE DEF hdr
<1>7. h.hdr = hdr /\ h.head = Nil /\ h.alloc_count = 0 /\ h.free_block_count = 0
  OBVIOUS
<1>8. HeapShape(h)
  BY <1>1, <1>4 DEF HeapShape
<1> HIDE DEF h
<1>9. w \in [1 .. 1 -> Units] /\ w[1] = 1 /\ \A i \in 1 .. 1 : i = 1
  BY <1>1
<1>10. f \in [1 .. 0 -> Units] /\ \A i \in 1 .. 0 : FALSE
  BY <1>1
<1> HIDE DEF w, f
<1>11. Tiles(h, w, 1)
  BY <1>1, <1>6, <1>7, <1>9 DEF Tiles
<1>12. FreeList(h, f, 0)
  BY <1>7, <1>10 DEF FreeList
<1>13. Members(w, 1) = {1} /\ Members(f, 0) = {}
  BY <1>9, <1>10 DEF Members
<1>14. NoNeighbours(h, w, 1, {1})
  BY DEF NoNeighbours
<1>15. ~h.hdr[1].used
  BY <1>6, <1>7
<1>16. Mid(h, w, 1, f, 0, {1})
  BY <1>8, <1>11, <1>12, <1>13, <1>14, <1>15 DEF Mid
<1>17. PICK X, b, n : X = {1} /\ b = 1 /\ n = 1
  OBVIOUS
<1>18. Held(h, w, n, X) /\ b \in X /\ X \ {b} = {}
  BY <1>16, <1>17 DEF Held
<1>19. \A i \in 2 .. n : FALSE
  BY <1>17
<1>20. Held(fl_push(h, b), w, n, X \ {b}) /\ SameBlocks(fl_push(h, b), h)
  BY <1>18, <1>19, PushHeld
<1>21. l2_create = fl_push(h, b)
  BY <1>17 DEF l2_create, h, hdr
<1>22. Held(l2_create, w, n, {}) /\ SameBlocks(l2_create, h)
  BY <1>18, <1>20, <1>21
<1>23. l2_create.alloc_count = 0 /\ ~l2_create.hdr[1].used
  BY <1>1, <1>7, <1>15, <1>22 DEF SameBlocks
<1>24. UsedBlocks(l2_create, w, n) = {}
  BY <1>13, <1>17, <1>23 DEF UsedBlocks
<1> QED
  BY <1>22, <1>23, <1>24

LEMMA L2AllocStep ==
    ASSUME L2Inv, NEW size \in L2Sizes, NEW align \in L2Aligns, h_l2_alloc(size, align)
    PROVE  L2Inv'
<1>1. l2 # NoHeap /\ size \in Nat \ {0} /\ align \in Nat \ {0}
  BY L2Assumption DEF h_l2_alloc
<1>2. PICK w, n : Held(l2, w, n, {}) /\ OwnedOK(l2, w, n)
  BY <1>1 DEF L2Inv
<1>3. PICK r : r = l2_alloc(l2, size, align)
  OBVIOUS
<1>4. /\ l2' = r[1]
      /\ owned' = IF r[2] = Nil THEN owned
                  ELSE [p \in DOMAIN owned \cup {r[2] + 1} |->
                            IF p = r[2] + 1 THEN [size |-> size, align |-> align] ELSE owned[p]]
  BY <1>3 DEF h_l2_alloc
<1>5. Allocated(r, l2, w, n, size)
  BY <1>1, <1>2, <1>3, AllocHeld
<1>6. CASE r[1] = l2 /\ r[2] = Nil
  <2>1. l2' = l2 /\ owned' = owned
    BY <1>4, <1>6
  <2>2. Held(l2', w, n, {}) /\ OwnedOK(l2, w, n)'
    BY <1>2, <2>1 DEF OwnedOK
  <2> QED
    BY <1>1, <2>1, <2>2 DEF L2Inv
<1>7. CASE ~(r[1] = l2 /\ r[2] = Nil)
  <2>1. PICK v, c : /\ Held(r[1], v, c, {}) /\ r[1].alloc_count = l2.alloc_count + 1
                    /\ r[2] \in Units /\ r[2] \notin UsedBlocks(l2, w, n)
                    /\ r[1].hdr[r[2]].size >= size + 1
                    /\ \A u : u \in UsedBlocks(r[1], v, c) <=> u \in UsedBlocks(l2, w, n) \/ u = r[2]
                    /\ \A u \in UsedBlocks(l2, w, n) : r[1].hdr[u].size = l2.hdr[u].size
    BY <1>5, <1>7 DEF Allocated
  <2>2. PICK g, b : g = r[1] /\ b = r[2]
    OBVIOUS
  <2>3. b # Nil /\ b \in Nat /\ b + 1 - 1 = b
    BY <2>1, <2>2, L2Assumption DEF Units, Nil
  <2>4. /\ UsedBlocks(l2, w, n) \subseteq Units
        /\ \A u \in UsedBlocks(l2, w, n) : u \in Nat /\ u + 1 \in Nat /\ u + 1 - 1 = u
        /\ \A p : p \in {u + 1 : u \in UsedBlocks(l2, w, n)} => p \in Nat /\ p - 1 \in UsedBlocks(l2, w, n)
        /\ IsFiniteSet({u + 1 : u \in UsedBlocks(l2, w, n)})
    BY <1>2, UsedUnits
  <2>5. /\ DOMAIN owned = {u + 1 : u \in UsedBlocks(l2, w, n)}
        /\ \A p \in DOMAIN owned : owned[p].size \in Nat /\ owned[p].size <= l2.hdr[p - 1].size - 1
        /\ l2.alloc_count = Cardinality(DOMAIN owned)
    BY <1>2 DEF OwnedOK
  <2>6. b + 1 \notin DOMAIN owned
    <3>1. b + 1 \in DOMAIN owned => b \in UsedBlocks(l2, w, n)
      BY <2>3, <2>4, <2>5
    <3> QED
      BY <2>1, <2>2, <3>1
  <2>7. /\ DOMAIN owned' = DOMAIN owned \cup {b + 1}
        /\ owned'[b + 1] = [size |-> size, align |-> align]
        /\ \A p \in DOMAIN owned : owned'[p] = owned[p]
    BY <1>4, <2>2, <2>3, <2>6
  <2>8. DOMAIN owned' = {u + 1 : u \in UsedBlocks(g, v, c)}
    <3>1. \A u : u \in UsedBlocks(g, v, c) <=> u \in UsedBlocks(l2, w, n) \/ u = b
      BY <2>1, <2>2
    <3>2. {u + 1 : u \in UsedBlocks(g, v, c)} = {u + 1 : u \in UsedBlocks(l2, w, n)} \cup {b + 1}
      BY <3>1
    <3> QED
      BY <2>5, <2>7, <3>2
  <2>9. ASSUME NEW p \in DOMAIN owned'
        PROVE  owned'[p].size \in Nat /\ owned'[p].size <= g.hdr[p - 1].size - 1
    <3>1. CASE p = b + 1
      <4>1. owned'[p].size = size /\ p - 1 = b /\ g.hdr[b].size >= size + 1
        BY <2>1, <2>2, <2>3, <2>7, <3>1
      <4>2. g.hdr[b].size \in Nat
        <5>1. b \in UsedBlocks(g, v, c) /\ Held(g, v, c, {})
          BY <2>1, <2>2
        <5> QED
          BY <5>1, UsedUnits
      <4> QED
        BY <1>1, <4>1, <4>2
    <3>2. CASE p \in DOMAIN owned
      <4>1. owned'[p] = owned[p] /\ p - 1 \in UsedBlocks(l2, w, n)
        BY <2>4, <2>5, <2>7, <3>2
      <4>2. g.hdr[p - 1].size = l2.hdr[p - 1].size
        BY <2>1, <2>2, <4>1
      <4> QED
        BY <2>5, <3>2, <4>1, <4>2
    <3> QED
      BY <2>7, <3>1, <3>2
  <2>10. g.alloc_count = Cardinality(DOMAIN owned')
    BY <2>1, <2>2, <2>4, <2>5, <2>6, <2>7, FS_AddElement
  <2>11. Held(l2', v, c, {}) /\ l2' = g
    BY <1>4, <2>1, <2>2
  <2>12. OwnedOK(l2, v, c)'
    BY <2>8, <2>9, <2>10, <2>11 DEF OwnedOK
  <2>13. l2' # NoHeap
    BY <2>11, HeldFacts, ShapeIsHeap
  <2> QED
    BY <2>11, <2>12, <2>13 DEF L2Inv
<1> QED
  BY <1>6, <1>7

LEMMA L2FreeStep ==
    ASSUME L2Inv, NEW p \in DOMAIN owned, h_l2_free(p)
    PROVE  L2Inv'
<1>1. l2 # NoHeap /\ l2' = l2_free(l2, p - 1) /\ owned' = [q \in DOMAIN owned \ {p} |-> owned[q]]
  BY DEF h_l2_free
<1>2. PICK w, n : Held(l2, w, n, {}) /\ OwnedOK(l2, w, n)
  BY <1>1 DEF L2Inv
<1>3. /\ UsedBlocks(l2, w, n) \subseteq Units
      /\ \A u \in UsedBlocks(l2, w, n) : u \in Nat /\ u + 1 \in Nat /\ u + 1 - 1 = u
      /\ \A q : q \in {u + 1 : u \in UsedBlocks(l2, w, n)} => q \in Nat /\ q - 1 \in UsedBlocks(l2, w, n)
      /\ IsFiniteSet({u + 1 : u \in UsedBlocks(l2, w, n)})
  BY <1>2, UsedUnits
<1>4. /\ DOMAIN owned = {u + 1 : u \in UsedBlocks(l2, w, n)}
      /\ \A q \in DOMAIN owned : owned[q].size \in Nat /\ owned[q].size <= l2.hdr[q - 1].size - 1
      /\ l2.alloc_count = Cardinality(DOMAIN owned)
  BY <1>2 DEF OwnedOK
<1>5. PICK b \in UsedBlocks(l2, w, n) : b = p - 1 /\ p = b + 1
  BY <1>3, <1>4
<1>6. Freed(l2', l2, w, n, b)
  <2>1. Freed(l2_free(l2, b), l2, w, n, b)
    BY <1>2, FreeHeld
  <2> QED
    BY <1>1, <1>5, <2>1
<1>7. PICK g : g = l2'
  OBVIOUS
<1>8. PICK v, c : /\ Held(g, v, c, {}) /\ g.alloc_count = l2.alloc_count - 1
                  /\ \A u : u \in UsedBlocks(g, v, c) <=> u \in UsedBlocks(l2, w, n) /\ u # b
                  /\ \A u \in UsedBlocks(g, v, c) : g.hdr[u].size = l2.hdr[u].size
  BY <1>6, <1>7 DEF Freed
<1>9. DOMAIN owned' = DOMAIN owned \ {p} /\ \A q \in DOMAIN owned' : owned'[q] = owned[q]
  BY <1>1
<1>10. DOMAIN owned' = {u + 1 : u \in UsedBlocks(g, v, c)}
  <2>1. {u + 1 : u \in UsedBlocks(g, v, c)} = {u + 1 : u \in UsedBlocks(l2, w, n)} \ {b + 1}
    BY <1>3, <1>8
  <2> QED
    BY <1>4, <1>5, <1>9, <2>1
<1>11. ASSUME NEW q \in DOMAIN owned'
       PROVE  owned'[q].size \in Nat /\ owned'[q].size <= g.hdr[q - 1].size - 1
  <2>1. q \in DOMAIN owned /\ owned'[q] = owned[q]
    BY <1>9
  <2>2. q - 1 \in UsedBlocks(g, v, c)
    BY <1>3, <1>4, <1>8, <1>9, <1>10
  <2>3. g.hdr[q - 1].size = l2.hdr[q - 1].size
    BY <1>8, <2>2
  <2> QED
    BY <1>4, <2>1, <2>3
<1>12. g.alloc_count = Cardinality(DOMAIN owned')
  <2>2. IsFiniteSet(DOMAIN owned)
    BY <1>3, <1>4
  <2>1. Cardinality(DOMAIN owned \ {p}) = Cardinality(DOMAIN owned) - 1
    BY <2>2, FS_RemoveElement
  <2> QED
    BY <1>4, <1>8, <1>9, <2>1
<1>13. Held(l2', v, c, {}) /\ OwnedOK(l2, v, c)'
  BY <1>7, <1>8, <1>10, <1>11, <1>12 DEF OwnedOK
<1>14. l2' # NoHeap
  BY <1>13, HeldFacts, ShapeIsHeap
<1> QED
  BY <1>13, <1>14 DEF L2Inv

LEMMA L2InvInit == L2Init => L2Inv
  BY DEF L2Init, L2Inv

LEMMA L2InvStep == L2Inv /\ [L2Next]_l2vars => L2Inv'
<1> SUFFICES ASSUME L2Inv, [L2Next]_l2vars PROVE L2Inv'
  OBVIOUS
<1>1. CASE mgapi_l2_init
  <2>1. l2' = l2_create /\ owned' = <<>>
    BY <1>1 DEF mgapi_l2_init, L2Inv
  <2>2. PICK w, n : /\ Held(l2_create, w, n, {}) /\ l2_create.alloc_count = 0
                    /\ UsedBlocks(l2_create, w, n) = {}
    BY CreateHeld
  <2>3. DOMAIN owned' = {} /\ Cardinality({}) = 0
    BY <2>1, FS_EmptySet
  <2>4. Held(l2', w, n, {}) /\ OwnedOK(l2, w, n)'
    BY <2>1, <2>2, <2>3 DEF OwnedOK
  <2> QED
    BY <2>1, <2>4 DEF L2Inv
<1>2. CASE mgapi_l2_shutdown
  BY <1>2 DEF mgapi_l2_shutdown, L2Inv
<1>3. CASE \E s \in L2Sizes, a \in L2Aligns : h_l2_alloc(s, a)
  BY <1>3, L2AllocStep
<1>4. CASE \E p \in DOMAIN owned : h_l2_free(p)
  BY <1>4, L2FreeStep
<1>5. CASE UNCHANGED l2vars
  <2>1. l2' = l2 /\ owned' = owned
    BY <1>5 DEF l2vars
  <2> QED
    BY <2>1 DEF L2Inv, OwnedOK
<1> QED
  BY <1>1, <1>2, <1>3, <1>4, <1>5 DEF L2Next

LEMMA MembersCardinality ==
    ASSUME NEW m \in Nat, NEW f \in [1 .. m -> Units], \A i, j \in 1 .. m : f[i] = f[j] => i = j
    PROVE  Cardinality(Members(f, m)) = m
<1>1. f \in Bijection(1 .. m, Members(f, m))
  BY DEF Bijection, Injection, IsInjective, Surjection, Members
<1> QED
  BY <1>1, FS_Interval, FS_Bijection DEF ExistsBijection

\* Max of a set of sizes.
LEMMA MaxBounds ==
    ASSUME NEW N \in Nat, NEW S \in SUBSET (0 .. N), NEW x \in S
    PROVE  Max(S) \in S /\ x <= Max(S)
<1> DEFINE T == {N - y : y \in S}
<1>1. T \in SUBSET Nat /\ T # {}
  <2>1. \A y \in S : N - y \in Nat
    OBVIOUS
  <2> QED
    BY <2>1
<1>2. PICK k \in T : \A j \in T : k <= j
  BY <1>1, LeastNat
<1>3. PICK y \in S : k = N - y
  BY <1>2
<1>4. ASSUME NEW z \in S PROVE y >= z
  <2>1. N - z \in T
    OBVIOUS
  <2>2. N - y <= N - z
    BY <1>2, <1>3, <2>1
  <2> QED
    BY <2>2
<1> QED
  BY <1>4 DEF Max

\* What the statistics are computed from: the free blocks and the others share the region.
LEMMA HeapSums ==
    ASSUME NEW h, NEW w, NEW n, Held(h, w, n, {})
    PROVE  LET used == Total(Sizes(h), UsedBlocks(h, w, n))
               free == Total(Sizes(h), {b \in Members(w, n) : ~h.hdr[b].used})
           IN used \in Nat /\ free \in Nat /\ used + free = HeapUnits
<1> DEFINE U == UsedBlocks(h, w, n)
           F == {b \in Members(w, n) : ~h.hdr[b].used}
           S == Members(w, n)
<1>1. IsFiniteSet(S) /\ (\A u \in S : Sizes(h)[u] \in Nat) /\ Total(Sizes(h), S) = HeapUnits
  BY HeldFacts, TilesTotal
<1>2. U \in SUBSET S /\ F \in SUBSET S /\ S \ U = F
  BY DEF UsedBlocks
<1> HIDE DEF U, F, S
<1>3. IsFiniteSet(U) /\ IsFiniteSet(F)
  BY <1>1, <1>2, FS_Subset
<1>4. Total(Sizes(h), U) \in Nat /\ Total(Sizes(h), F) \in Nat
  <2>1. (\A u \in U : Sizes(h)[u] \in Nat) /\ (\A u \in F : Sizes(h)[u] \in Nat)
    BY <1>1, <1>2
  <2> QED
    BY <1>3, <2>1, TotalType
<1>5. Total(Sizes(h), S) = Total(Sizes(h), U) + Total(Sizes(h), S \ U)
  BY <1>1, <1>2, TotalUnion
<1> QED
  BY <1>1, <1>2, <1>4, <1>5 DEF U, F

LEMMA L2InvExact == L2Inv => L2Exact
<1> SUFFICES ASSUME L2Inv, l2 # NoHeap
             PROVE  LET blocks == Chain(l2)
                        free == FreeBlocks(l2)
                        size(b) == l2.hdr[b].size
                        n == Len(blocks)
                    IN /\ blocks[n] + size(blocks[n]) = HeapUnits + 1
                       /\ \A i \in 1 .. n :
                            /\ size(blocks[i]) >= 2
                            /\ l2.hdr[blocks[i]].prev_size = IF i = 1 THEN 0 ELSE size(blocks[i - 1])
                            /\ i > 1 => l2.hdr[blocks[i]].used \/ l2.hdr[blocks[i - 1]].used
                       /\ Cardinality(ToSet(free)) = Len(free)
                       /\ ToSet(free) = {b \in ToSet(blocks) : ~l2.hdr[b].used}
                       /\ \A i \in DOMAIN free : l2.hdr[free[i]].prev = IF i = 1 THEN Nil ELSE free[i - 1]
                       /\ {b + 1 : b \in ToSet(blocks) \ ToSet(free)} = DOMAIN owned
                       /\ \A p \in DOMAIN owned : owned[p].size <= size(p - 1) - 1
                       /\ l2_stats(l2) = [used_bytes |-> Total(Sizes(l2), {p - 1 : p \in DOMAIN owned}),
                                          free_bytes |-> HeapUnits - Total(Sizes(l2), {p - 1 : p \in DOMAIN owned}),
                                          alloc_count |-> Cardinality(DOMAIN owned), free_block_count |-> Len(free)]
                       /\ \A b \in ToSet(free) : l2_largest_free(l2) >= size(b) - 1
  BY DEF L2Exact
<1>1. PICK w, n : Held(l2, w, n, {}) /\ OwnedOK(l2, w, n)
  BY DEF L2Inv
<1>2. PICK f, m : Mid(l2, w, n, f, m, {})
  BY <1>1 DEF Held
<1>3. /\ HeapShape(l2) /\ Tiles(l2, w, n) /\ NoNeighbours(l2, w, n, {}) /\ Members(w, n) \subseteq Units
      /\ n \in Nat \ {0} /\ w \in [1 .. n -> Units]
  BY <1>1, HeldFacts
<1>4. FreeList(l2, f, m) /\ Members(f, m) = {b \in Members(w, n) : ~l2.hdr[b].used}
  BY <1>2 DEF Mid
<1>5. /\ m \in Nat /\ f \in [1 .. m -> Units] /\ \A i, j \in 1 .. m : f[i] = f[j] => i = j
      /\ l2.free_block_count = m
      /\ \A i \in 1 .. m : l2.hdr[f[i]].prev = IF i = 1 THEN Nil ELSE f[i - 1]
  BY <1>4 DEF FreeList
<1>6. Chain(l2) = w /\ FreeBlocks(l2) = f
  BY <1>3, <1>4, ChainIs, FreeBlocksIs
<1>7. /\ Len(w) = n /\ DOMAIN w = 1 .. n /\ ToSet(w) = Members(w, n)
      /\ Len(f) = m /\ DOMAIN f = 1 .. m /\ ToSet(f) = Members(f, m)
  <2>1. DOMAIN w = 1 .. n /\ DOMAIN f = 1 .. m
    BY <1>3, <1>5
  <2>2. Len(w) = n /\ Len(f) = m
    BY <1>3, <1>5, <2>1
  <2> QED
    BY <2>1, <2>2 DEF ToSet, Members
<1>8. Cardinality(Members(f, m)) = m
  BY <1>5, MembersCardinality
<1>9. /\ w[n] + l2.hdr[w[n]].size = HeapUnits + 1
      /\ \A i \in 1 .. n : /\ l2.hdr[w[i]].size >= 2
                           /\ l2.hdr[w[i]].prev_size = IF i = 1 THEN 0 ELSE l2.hdr[w[i - 1]].size
  <2>1. n \in 1 .. n
    BY <1>3
  <2> QED
    BY <1>3, <2>1 DEF Tiles
<1>10. \A i \in 1 .. n : i > 1 => l2.hdr[w[i]].used \/ l2.hdr[w[i - 1]].used
  <2>1. \A i \in 1 .. n : i > 1 => i \in 2 .. n
    OBVIOUS
  <2> QED
    BY <1>3, <2>1 DEF NoNeighbours
<1>11. /\ DOMAIN owned = {b + 1 : b \in UsedBlocks(l2, w, n)}
       /\ \A p \in DOMAIN owned : owned[p].size \in Nat /\ owned[p].size <= l2.hdr[p - 1].size - 1
       /\ l2.alloc_count = Cardinality(DOMAIN owned)
  BY <1>1 DEF OwnedOK
<1>12. Members(w, n) \ Members(f, m) = UsedBlocks(l2, w, n)
  BY <1>4 DEF UsedBlocks
<1>13. {p - 1 : p \in DOMAIN owned} = UsedBlocks(l2, w, n)
  <2>1. /\ \A b \in UsedBlocks(l2, w, n) : b \in Nat /\ b + 1 \in Nat /\ b + 1 - 1 = b
        /\ \A p : p \in {b + 1 : b \in UsedBlocks(l2, w, n)} => p - 1 \in UsedBlocks(l2, w, n)
    BY <1>1, UsedUnits
  <2>2. \A p \in DOMAIN owned : p - 1 \in UsedBlocks(l2, w, n)
    BY <1>11, <2>1
  <2>3. \A b \in UsedBlocks(l2, w, n) : b \in Nat /\ b + 1 \in DOMAIN owned
    BY <1>11, <2>1
  <2>4. ASSUME NEW b \in UsedBlocks(l2, w, n)
        PROVE  \E p \in DOMAIN owned : b = p - 1
    <3>1. PICK p \in DOMAIN owned : p = b + 1
      BY <2>3
    <3>2. b = p - 1
      BY <2>3, <3>1
    <3> QED
      BY <3>2
  <2> QED
    BY <2>2, <2>4
<1>14. PICK used, free \in Nat : /\ used = Total(Sizes(l2), UsedBlocks(l2, w, n))
                                 /\ free = Total(Sizes(l2), Members(f, m)) /\ used + free = HeapUnits
  BY <1>1, <1>4, HeapSums
<1>15. l2_stats(l2) = [used_bytes |-> used, free_bytes |-> HeapUnits - used,
                       alloc_count |-> Cardinality(DOMAIN owned), free_block_count |-> m]
  <2>1. HeapUnits - free = used /\ HeapUnits - used = free
    BY <1>14
  <2>2. l2_stats(l2) = [used_bytes |-> HeapUnits - free, free_bytes |-> free,
                        alloc_count |-> l2.alloc_count, free_block_count |-> l2.free_block_count]
    BY <1>6, <1>7, <1>14 DEF l2_stats
  <2> QED
    BY <1>5, <1>11, <2>1, <2>2
<1>16. ASSUME NEW b \in Members(f, m)
       PROVE  l2_largest_free(l2) >= l2.hdr[b].size - 1
  <2> DEFINE S == {0} \cup {l2.hdr[u].size : u \in Members(f, m)}
  <2>1. \A u \in Members(w, n) : l2.hdr[u].size \in 2 .. HeapUnits
    <3>1. /\ HeapUnits \in Nat
          /\ \A i \in 1 .. n : /\ w[i] \in Nat \ {0} /\ l2.hdr[w[i]].size \in Nat /\ l2.hdr[w[i]].size >= 2
                               /\ w[i] + l2.hdr[w[i]].size <= HeapUnits + 1
      BY <1>3, TilesBounds
    <3>2. \A i \in 1 .. n : l2.hdr[w[i]].size \in 2 .. HeapUnits
      BY <3>1
    <3> QED
      BY <3>2 DEF Members
  <2>2. \A u \in Members(f, m) : l2.hdr[u].size \in 2 .. HeapUnits
    BY <1>4, <2>1
  <2>3. HeapUnits \in Nat
    BY L2Assumption
  <2>4. S \in SUBSET (0 .. HeapUnits)
    BY <2>2, <2>3
  <2>5. PICK x \in S : x = l2.hdr[b].size /\ x >= 2
    BY <2>2
  <2>6. PICK big : big = Max(S)
    OBVIOUS
  <2>7. big \in S /\ x <= big
    <3> HIDE DEF S
    <3> QED
      BY <2>3, <2>4, <2>6, MaxBounds
  <2>8. l2_largest_free(l2) = IF big > 1 THEN big - 1 ELSE 0
    BY <1>6, <1>7, <2>6 DEF l2_largest_free
  <2>9. big \in Nat /\ x \in Nat
    BY <2>4, <2>7
  <2> QED
    BY <2>5, <2>7, <2>8, <2>9
<1>17. {b + 1 : b \in ToSet(w) \ ToSet(f)} = DOMAIN owned
  BY <1>7, <1>11, <1>12
<1>18. l2_stats(l2) = [used_bytes |-> Total(Sizes(l2), {p - 1 : p \in DOMAIN owned}),
                       free_bytes |-> HeapUnits - Total(Sizes(l2), {p - 1 : p \in DOMAIN owned}),
                       alloc_count |-> Cardinality(DOMAIN owned), free_block_count |-> Len(f)]
  BY <1>7, <1>13, <1>14, <1>15
<1>19. ToSet(f) = {b \in ToSet(w) : ~l2.hdr[b].used} /\ Cardinality(ToSet(f)) = Len(f)
  BY <1>4, <1>7, <1>8
<1>20. \A b \in ToSet(f) : l2_largest_free(l2) >= l2.hdr[b].size - 1
  BY <1>7, <1>16
<1>21. \A i \in DOMAIN f : l2.hdr[f[i]].prev = IF i = 1 THEN Nil ELSE f[i - 1]
  BY <1>5, <1>7
<1>22. \A p \in DOMAIN owned : owned[p].size <= l2.hdr[p - 1].size - 1
  BY <1>11
<1> QED
  BY <1>6, <1>7, <1>9, <1>10, <1>17, <1>18, <1>19, <1>20, <1>21, <1>22

L2Spec == L2Init /\ [][L2Next]_l2vars

\* For every size of the region and all the sizes and alignments the guests ask for: the
\* headers of the L2 heap lead from block to block both ways and cover the region, no two
\* free blocks touch, the free list is the free blocks, and the callers' blocks and the
\* statistics are what l2_alloc, l2_free, l2_stats and l2_largest_free say (l2_alloc.c).
THEOREM L2StaysExact == L2Spec => []L2Exact
<1>1. L2Init => L2Inv
  BY L2InvInit
<1>2. L2Inv /\ [L2Next]_l2vars => L2Inv'
  BY L2InvStep
<1>3. L2Inv => L2Exact
  BY L2InvExact
<1> QED
  BY <1>1, <1>2, <1>3, PTL DEF L2Spec
=============================================================================
