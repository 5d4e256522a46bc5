------------------------------ MODULE SpscRing ------------------------------
(***************************************************************************)
(* containers/spsc_ring.c: the lock-free single-producer/single-consumer   *)
(* ring.  One action per atomic access: a push loads head, loads tail,     *)
(* copies the element into storage[head] and publishes head; a pop loads   *)
(* tail, loads head, copies storage[tail] out and publishes tail.  The     *)
(* acquire/release pairs make each publication carry the copy before it,   *)
(* so the interleavings of these steps are the behaviours of the C code.   *)
(* spsc_ring_full and spsc_ring_empty are modelled from the side that      *)
(* stream_arbiter.c calls them on (full: producer, empty: consumer).       *)
(***************************************************************************)
EXTENDS Integers, Sequences

CONSTANTS
    Capacity,   \* slots; the C code also insists on a power of two
    Element,    \* what a slot can hold
    NoElement   \* a slot never written, an out-parameter never set

ASSUME CapacityAssumption == Capacity \in Nat /\ Capacity >= 2
ASSUME ElementAssumption == NoElement \notin Element

VARIABLES
    storage,    \* the slots
    head,       \* next push index, written only by the producer
    tail,       \* next pop index, written only by the consumer
    ppc,        \* where the producer is in push / full
    phead,      \* the producer's local copy of head
    element,    \* the element being pushed
    sawRoom,    \* spsc_ring_full returned false and no push happened since
    cpc,        \* where the consumer is in pop / empty
    ctail,      \* the consumer's local copy of tail
    chead,      \* the head that spsc_ring_empty loaded
    out,        \* the consumer's out buffer
    sawData,    \* spsc_ring_empty returned false and no pop happened since
    delivered   \* the element the last pop that returned true delivered

pvars == <<ppc, phead, element, sawRoom>>
cvars == <<cpc, ctail, chead, out, sawData, delivered>>
vars == <<storage, head, tail, pvars, cvars>>

Slot == 0 .. Capacity - 1
Content == Element \cup {NoElement}


\* (i + 1) & mask, for an index already in range.
Succ(i) == IF i + 1 = Capacity THEN 0 ELSE i + 1

\* (h - t) & mask: the live elements between two indices.
Distance(h, t) == IF h >= t THEN h - t ELSE h - t + Capacity

spsc_ring_count == Distance(head, tail)
spsc_ring_capacity == Capacity - 1

Init ==                                        \* spsc_ring_init
    /\ storage = [i \in Slot |-> NoElement]
    /\ head = 0
    /\ tail = 0
    /\ ppc = "idle" /\ phead = 0 /\ element = NoElement /\ sawRoom = FALSE
    /\ cpc = "idle" /\ ctail = 0 /\ chead = 0 /\ out = NoElement
    /\ sawData = FALSE
    /\ delivered = NoElement

-----------------------------------------------------------------------------
(* spsc_ring_push, producer only *)

PushLoadHead(e) ==
    /\ ppc = "idle"
    /\ phead' = head
    /\ element' = e
    /\ ppc' = "loadTail"
    /\ UNCHANGED <<storage, head, tail, sawRoom, cvars>>

\* The full test rejects; the caller keeps its element.
PushReject ==
    /\ ppc = "loadTail"
    /\ Succ(phead) = tail
    /\ ppc' = "idle"
    /\ UNCHANGED <<storage, head, tail, phead, element, sawRoom, cvars>>

\* Mutant: no slot is reserved, a full ring is pushed to.
PushAdmit_NoFullTest ==
    /\ ppc = "loadTail"
    /\ ppc' = "copy"
    /\ UNCHANGED <<storage, head, tail, phead, element, sawRoom, cvars>>

PushAdmit ==
    /\ ppc = "loadTail"
    /\ Succ(phead) # tail
    /\ ppc' = "copy"
    /\ UNCHANGED <<storage, head, tail, phead, element, sawRoom, cvars>>

\* memcpy into the slot; it is under way while ppc = "copy".
PushCopy ==
    /\ ppc = "copy"
    /\ storage' = [storage EXCEPT ![phead] = element]
    /\ ppc' = "publish"
    /\ UNCHANGED <<head, tail, phead, element, sawRoom, cvars>>

PushPublish ==
    /\ ppc = "publish"
    /\ head' = Succ(phead)
    /\ ppc' = "idle"
    /\ sawRoom' = FALSE
    /\ UNCHANGED <<storage, tail, phead, element, cvars>>

\* spsc_ring_full as the producer calls it before it fills a slot.
FullLoadHead ==
    /\ ppc = "idle"
    /\ phead' = head
    /\ ppc' = "full"
    /\ UNCHANGED <<storage, head, tail, element, sawRoom, cvars>>

FullLoadTail ==
    /\ ppc = "full"
    /\ sawRoom' = (Succ(phead) # tail)
    /\ ppc' = "idle"
    /\ UNCHANGED <<storage, head, tail, phead, element, cvars>>

-----------------------------------------------------------------------------
(* spsc_ring_pop, consumer only *)

PopLoadTail ==
    /\ cpc = "idle"
    /\ ctail' = tail
    /\ cpc' = "loadHead"
    /\ UNCHANGED <<storage, head, tail, pvars, chead, out, sawData, delivered>>

PopReject ==
    /\ cpc = "loadHead"
    /\ ctail = head
    /\ cpc' = "idle"
    /\ UNCHANGED <<storage, head, tail, pvars, ctail, chead, out, sawData,
                   delivered>>

PopAdmit ==
    /\ cpc = "loadHead"
    /\ ctail # head
    /\ cpc' = "copy"
    /\ UNCHANGED <<storage, head, tail, pvars, ctail, chead, out, sawData,
                   delivered>>

\* memcpy out of the slot; it is under way while cpc = "copy".
PopCopy ==
    /\ cpc = "copy"
    /\ out' = storage[ctail]
    /\ cpc' = "retire"
    /\ UNCHANGED <<storage, head, tail, pvars, ctail, chead, sawData,
                   delivered>>

PopRetire ==
    /\ cpc = "retire"
    /\ tail' = Succ(ctail)
    /\ delivered' = out
    /\ cpc' = "idle"
    /\ sawData' = FALSE
    /\ UNCHANGED <<storage, head, pvars, ctail, chead, out>>

\* spsc_ring_empty as the consumer calls it.
EmptyLoadHead ==
    /\ cpc = "idle"
    /\ chead' = head
    /\ cpc' = "empty"
    /\ UNCHANGED <<storage, head, tail, pvars, ctail, out, sawData, delivered>>

EmptyLoadTail ==
    /\ cpc = "empty"
    /\ sawData' = (chead # tail)
    /\ cpc' = "idle"
    /\ UNCHANGED <<storage, head, tail, pvars, ctail, chead, out, delivered>>

-----------------------------------------------------------------------------

\* spsc_ring_reset: its contract is that neither side is running.
Reset ==
    /\ ppc = "idle" /\ cpc = "idle"
    /\ head' = 0
    /\ tail' = 0
    /\ sawRoom' = FALSE
    /\ sawData' = FALSE
    /\ UNCHANGED <<storage, ppc, phead, element, cpc, ctail, chead, out,
                   delivered>>

Producer ==
    \/ \E e \in Element : PushLoadHead(e)
    \/ PushReject \/ PushAdmit \/ PushCopy \/ PushPublish
    \/ FullLoadHead \/ FullLoadTail

Consumer ==
    \/ PopLoadTail \/ PopReject \/ PopAdmit \/ PopCopy \/ PopRetire
    \/ EmptyLoadHead \/ EmptyLoadTail

Next == Producer \/ Consumer \/ Reset

Spec == Init /\ [][Next]_vars

-----------------------------------------------------------------------------
(* Properties *)

\* Every variable holds a value of its type: the indices stay inside the
\* storage array whatever the two sides do (spsc_ring.c masks every store).
TypeOK ==
    /\ storage \in [Slot -> Content]
    /\ head \in Slot /\ tail \in Slot
    /\ ppc \in {"idle", "loadTail", "copy", "publish", "full"}
    /\ phead \in Slot
    /\ element \in Content
    /\ ppc \in {"loadTail", "copy", "publish"} => element \in Element
    /\ sawRoom \in BOOLEAN
    /\ cpc \in {"idle", "loadHead", "copy", "retire", "empty"}
    /\ ctail \in Slot /\ chead \in Slot
    /\ out \in Content /\ delivered \in Content
    /\ sawData \in BOOLEAN

\* The two memcpys never touch the same slot at the same time: the reserved
\* slot and the two publications keep push's write and pop's read apart.
NoSlotRace == ~ (ppc = "copy" /\ cpc = "copy" /\ phead = ctail)

\* A slot between its copy-out and its retirement still holds the element the
\* consumer copied: push cannot reuse the slot before tail is published.
CopiedOutIsHead == cpc = "retire" => out = storage[tail] /\ head # tail

\* Once spsc_ring_full has told the producer there is room, no interleaving
\* takes the room away: stream_arbiter_tick fills its scratch buffer between
\* the test and the push, and would lose the chunk if the push were rejected.
RoomIsStable == sawRoom => Succ(head) # tail

\* Once spsc_ring_empty has told the consumer there is data, the data stays.
DataIsStable == sawData => head # tail

\* The slot of the i-th element of a ring whose tail is t.
SlotAt(t, i) == IF t + i - 1 < Capacity THEN t + i - 1
                ELSE t + i - 1 - Capacity

\* The live elements, oldest first.
Queue == [i \in 1 .. spsc_ring_count |-> storage[SlotAt(tail, i)]]

Fifo == INSTANCE BoundedFifo WITH
            Depth <- spsc_ring_capacity, queue <- Queue

\* The ring, step by atomic step, is a bounded FIFO: an element becomes
\* visible at the store of head and leaves at the store of tail, in order,
\* once, unchanged, and never more than Capacity - 1 are live.
ImplementsFifo == Fifo!Spec

=============================================================================
