---------------------------- MODULE StreamArbiter ----------------------------
(***************************************************************************)
(* The stream arbiter (io/stream_arbiter.c) and its ECALLs: a table of     *)
(* slots, each a producer that reads fixed-size elements from a file       *)
(* descriptor and a lock-free ring its consumer pops.  stream_arbiter_tick *)
(* runs on the worker thread, in steps, since the consumer of an FMV slot  *)
(* runs on another; a push and a pop are atomic here, which is what        *)
(* SpscRing proves of them.  An element is its number in the file.         *)
(***************************************************************************)
EXTENDS Integers, Sequences, SequencesExt

CONSTANTS MaxStreams,   \* STREAM_ARBITER_MAX
          Depth,        \* slots of a ring, a power of two; one stays free
          FileLen       \* the full elements of each file, a function of the descriptor

ASSUME StreamAssumption == /\ MaxStreams \in Nat \ {0}
                           /\ Depth \in {2, 4, 8}
                           /\ \A f \in DOMAIN FileLen : FileLen[f] \in Nat

VARIABLES slots,        \* [in_use, fd, eof (the producer's), ring, latched (the atomic eof)]
          fpos,         \* read position of each descriptor
          rotation,
          tick,         \* the tick in progress: [at, start, scratch]
          guest         \* the guest's stream: handle, elements it got, last answer

Fds == DOMAIN FileLen
Handles == 0 .. MaxStreams - 1
NoHandle == -1
NoFd == -1
Unused == [in_use |-> FALSE, fd |-> NoFd, eof |-> FALSE, ring |-> <<>>, latched |-> FALSE]
Idle == [at |-> MaxStreams, start |-> 0, scratch |-> <<>>]
NoGuest == [h |-> NoHandle, fd |-> NoFd, first |-> 0, got |-> <<>>, answer |-> "none"]

stream_arbiter_init ==
    /\ slots = [h \in Handles |-> Unused]
    /\ fpos = [f \in Fds |-> 0]
    /\ rotation = 0
    /\ tick = Idle
    /\ guest = NoGuest

slot_for(h) == h \in Handles /\ slots[h].in_use
FreeHandles == {h \in Handles : ~slots[h].in_use}
FreeHandle == CHOOSE h \in FreeHandles : \A k \in FreeHandles : h <= k
spsc_ring_full(s) == Len(s.ring) = Depth - 1

\* The slot a registration takes; an allocation may fail, which leaves the table alone.
Registered(h, fd) == [slots EXCEPT ![h] = [Unused EXCEPT !.in_use = TRUE, !.fd = fd]]
stream_arbiter_unregister(s, h) == IF h \in Handles /\ s[h].in_use THEN [s EXCEPT ![h] = Unused] ELSE s

\* eof is looked at first, the ring after it.
is_eof_latched(h) == slot_for(h) => slots[h].latched
is_eof_empty(h) == slot_for(h) => slots[h].ring = <<>>
chunks_available(h) == IF slot_for(h) THEN Len(slots[h].ring) ELSE 0

-----------------------------------------------------------------------------
At == (tick.start + tick.at) % MaxStreams
\* Slots that are not in use are passed over; only the worker thread itself changes in_use.
Reach(start, from) == LET at == {a \in from .. MaxStreams - 1 : slots[(start + a) % MaxStreams].in_use}
                      IN IF at = {} THEN MaxStreams ELSE CHOOSE a \in at : \A b \in at : a <= b
Advance == [tick EXCEPT !.at = Reach(tick.start, tick.at + 1), !.scratch = <<>>]

TickBegin ==
    /\ tick.at = MaxStreams
    /\ tick' = [at |-> Reach(rotation, 0), start |-> rotation, scratch |-> <<>>]
    /\ rotation' = (rotation + 1) % MaxStreams
    /\ UNCHANGED <<slots, fpos, guest>>

TickSkip ==
    /\ tick.at < MaxStreams /\ tick.scratch = <<>>
    /\ slots[At].latched \/ spsc_ring_full(slots[At])
    /\ tick' = Advance
    /\ UNCHANGED <<slots, fpos, rotation, guest>>

\* fill: one element is read into the scratch buffer, or the producer notes that its file is
\* at its end (a short read counts as the end).
TickFill ==
    /\ tick.at < MaxStreams /\ tick.scratch = <<>>
    /\ ~slots[At].latched /\ ~slots[At].eof
    /\ ~spsc_ring_full(slots[At])
    /\ LET fd == slots[At].fd
       IN IF fpos[fd] < FileLen[fd]
          THEN /\ tick' = [tick EXCEPT !.scratch = <<fpos[fd]>>]
               /\ fpos' = [fpos EXCEPT ![fd] = @ + 1]
               /\ UNCHANGED slots
          ELSE /\ slots' = [slots EXCEPT ![At].eof = TRUE]
               /\ UNCHANGED <<tick, fpos>>
    /\ UNCHANGED <<rotation, guest>>

TickPush_DropsLast ==
    /\ tick.at < MaxStreams /\ tick.scratch # <<>>
    /\ LET fd == slots[At].fd
       IN slots' = [slots EXCEPT ![At].ring = IF Len(@) < Depth - 1 /\ fpos[fd] < FileLen[fd] THEN @ \o tick.scratch ELSE @]
    /\ tick' = Advance
    /\ UNCHANGED <<fpos, rotation, guest>>

TickPush ==
    /\ tick.at < MaxStreams /\ tick.scratch # <<>>
    /\ slots' = [slots EXCEPT ![At].ring = IF Len(@) < Depth - 1 THEN @ \o tick.scratch ELSE @]
    /\ tick' = Advance
    /\ UNCHANGED <<fpos, rotation, guest>>

TickLatch ==
    /\ tick.at < MaxStreams /\ tick.scratch = <<>>
    /\ slots[At].eof /\ ~slots[At].latched
    /\ slots' = [slots EXCEPT ![At].latched = TRUE]
    /\ tick' = Advance
    /\ UNCHANGED <<fpos, rotation, guest>>

stream_arbiter_tick == TickBegin \/ TickSkip \/ TickFill \/ TickPush \/ TickLatch

-----------------------------------------------------------------------------
\* The guest's ECALLs run on the worker thread, between two ticks.
h_stream_register(fd) ==
    /\ guest.h = NoHandle
    /\ FreeHandles # {}
    /\ slots' = Registered(FreeHandle, fd)
    /\ guest' = [NoGuest EXCEPT !.h = FreeHandle, !.fd = fd, !.first = fpos[fd]]
    /\ UNCHANGED <<fpos, rotation, tick>>

\* An element, "later" when the ring is empty, or the end.
h_stream_consume ==
    /\ guest.h # NoHandle /\ guest.answer # "end"
    /\ IF slots[guest.h].ring # <<>>
       THEN /\ slots' = [slots EXCEPT ![guest.h].ring = Tail(@)]
            /\ guest' = [guest EXCEPT !.got = Append(@, Head(slots[guest.h].ring)), !.answer = "data"]
       ELSE /\ guest' = [guest EXCEPT !.answer = IF is_eof_latched(guest.h) THEN "end" ELSE "later"]
            /\ UNCHANGED slots
    /\ UNCHANGED <<fpos, rotation, tick>>

h_stream_close ==
    /\ guest.h # NoHandle
    /\ slots' = stream_arbiter_unregister(slots, guest.h)
    /\ guest' = NoGuest
    /\ UNCHANGED <<fpos, rotation, tick>>

StreamNext ==
    \/ stream_arbiter_tick
    \/ /\ tick.at = MaxStreams
       /\ (\E fd \in Fds : h_stream_register(fd)) \/ h_stream_consume \/ h_stream_close

\* The elements first .. last of a file.
Run(first, last) == [i \in 1 .. last - first + 1 |-> first + i - 1]

\* What the guest of a stream got is the file from where it stood, in order and without a gap,
\* and it is told of the end only when it has all of it.
GuestStreamExact ==
    guest.h # NoHandle =>
        /\ guest.got = Run(guest.first, guest.first + Len(guest.got) - 1)
        /\ guest.answer = "end" => guest.first + Len(guest.got) = FileLen[guest.fd]
=============================================================================
