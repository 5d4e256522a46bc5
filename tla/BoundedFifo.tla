---------------------------- MODULE BoundedFifo ----------------------------
(***************************************************************************)
(* What a lock-free ring promises to its two users, with the indices, the  *)
(* slots and the interleaving of the two sides hidden: a first-in first-   *)
(* out queue of at most Depth elements that rejects when it is full.       *)
(***************************************************************************)
EXTENDS Naturals, Sequences

CONSTANTS
    Element,    \* what a slot can hold
    Depth,      \* usable capacity
    NoElement   \* the consumer's out-parameter before its first pop

VARIABLES
    queue,      \* the live elements, oldest first
    delivered   \* the element the last successful pop returned

vars == <<queue, delivered>>

Init ==
    /\ queue = <<>>
    /\ delivered = NoElement

Push(e) ==
    /\ Len(queue) < Depth
    /\ queue' = Append(queue, e)
    /\ UNCHANGED delivered

Pop ==
    /\ queue # <<>>
    /\ delivered' = Head(queue)
    /\ queue' = Tail(queue)

Clear ==
    /\ queue' = <<>>
    /\ UNCHANGED delivered

Next == Pop \/ Clear \/ \E e \in Element : Push(e)

Spec == Init /\ [][Next]_vars
=============================================================================
