----------------------------- MODULE FrameFlow -----------------------------
(***************************************************************************)
(* How a guest's frames reach the SNES: h_frame_commit and h_wait_vblank   *)
(* (copro_ecalls.c) and mg_state_build_frame (copro_mg_state.c) on the     *)
(* worker thread, against the reads of the SNES kernel that cart_window.c  *)
(* serves on the emulator thread.  The two threads share the commit-ahead  *)
(* queue, which has a lock, and the frame-ready byte, the two frame        *)
(* counters and the scheduler's bitmaps, which have none; one action here  *)
(* is what happens between two accesses of the other thread.               *)
(*                                                                         *)
(* One guest draws; a frame is its number, a DMA list the frame and the    *)
(* sub-frame it belongs to.  The FMV player and the 3D path, which stage   *)
(* frames of their own, are not part of this module.                       *)
(***************************************************************************)
EXTENDS Integers

CONSTANTS
    MaxInflight,    \* pipeline_max_inflight()
    CountMod,       \* 2^32 in the code: the width of the frame counters
    MaxFrames,      \* bound: frames the guests build
    MaxSub,         \* MG_MAX_SUBFRAMES
    Cancels,        \* guests commit with byte 0
    Empties,        \* guests commit with nothing staged
    Unloads,        \* the drawing VM is unloaded and another takes over
    Resets          \* the user resets the console

ASSUME FrameAssumption ==
    /\ MaxInflight \in {1, 2} /\ MaxSub \in Nat \ {0}
    /\ MaxFrames \in Nat /\ CountMod \in Nat /\ MaxFrames + 2 < CountMod

Frame == 1 .. MaxFrames
NoList == [frame |-> 0, sub |-> 0]

VARIABLES
    gpc,            \* worker thread: where the guest's ECALL is
    byte,           \* the argument of the commit under way
    built,          \* frames built so far
    stale,          \* s_prev_mg_slots goes past the persistent slots
    active, acount, index, avalid,  \* the active frame: s_subframes, ...
    queued, qcount, qvalid,         \* the queued frame: s_queued_*
    list, payload,  \* the cart window: DMA list, and whose payload
    frame_ready, staged, consumed,  \* g_frame_ready, g_frame_staged, ...
    bpc,            \* emulator thread: where the FRAME_DONE read is
    adv,            \* what mg_state_advance_subframe returned to it
    waits, deadline,\* the guest's block_reason and block_deadline
    blocked,        \* its bit in the scheduler's blocked bitmap
    cancelled,      \* history: frames built by a commit with byte 0
    clean           \* history: none of what Upset stands for has happened

queuevars == <<active, acount, index, avalid, queued, qcount, qvalid, list, payload>>
countvars == <<frame_ready, staged, consumed>>
schedvars == <<waits, deadline, blocked>>
guestvars == <<gpc, byte, built, stale, cancelled>>
emuvars == <<bpc, adv>>
vars == <<queuevars, countvars, schedvars, guestvars, emuvars, clean>>

InFlight == (staged - consumed) % CountMod

Init ==
    /\ gpc = "run" /\ byte = 0 /\ built = 0 /\ stale = FALSE /\ cancelled = {} /\ clean = TRUE
    /\ active = 0 /\ acount = 0 /\ index = 0 /\ avalid = FALSE
    /\ queued = 0 /\ qcount = 0 /\ qvalid = FALSE
    /\ list = NoList /\ payload = 0
    /\ frame_ready = 0 /\ staged = 0 /\ consumed = 0
    /\ bpc = "idle" /\ adv = "empty"
    /\ waits = FALSE /\ deadline = 0 /\ blocked = FALSE

\* The sequences the pipeline's bookkeeping does not survive: a commit of 0 or of
\* nothing, an unload, a console reset, and a worker held up between its flush and
\* its last write for as long as the kernel takes to transfer what it flushed.
Upset(happens) == clean' = (clean /\ ~happens)

-----------------------------------------------------------------------------
\* h_frame_commit on the worker thread.

CommitDropped ==
    /\ gpc = "run" /\ InFlight >= MaxInflight
    /\ UNCHANGED vars

Commit_OneTooMany(b) ==
    /\ gpc = "run" /\ built < MaxFrames
    /\ b # 0 => InFlight <= MaxInflight
    /\ gpc' = "build" /\ byte' = b
    /\ UNCHANGED <<queuevars, countvars, schedvars, built, stale, cancelled, emuvars, clean>>

Commit(b) ==
    /\ gpc = "run" /\ built < MaxFrames
    /\ b # 0 => InFlight < MaxInflight
    /\ gpc' = "build" /\ byte' = b
    /\ UNCHANGED <<queuevars, countvars, schedvars, built, stale, cancelled, emuvars, clean>>

\* mg_state_build_frame up to the lock of flush_subframes: empty the DMA slots
\* the last build filled, stage what is dirty, pack it into n sub-frames.
BuildFrame(n) ==
    /\ gpc = "build"
    /\ list' = IF stale THEN NoList ELSE list
    /\ built' = built + 1
    /\ cancelled' = IF byte = 0 THEN cancelled \cup {built + 1} ELSE cancelled
    /\ queued' = built + 1 /\ qcount' = n
    /\ stale' \in BOOLEAN                               \* more than persistent slots?
    /\ gpc' = "flush"
    /\ Upset(byte = 0)
    /\ UNCHANGED <<active, acount, index, avalid, qvalid, payload,
                   countvars, schedvars, byte, emuvars>>

\* ... with nothing to stage.
BuildNothing ==
    /\ gpc = "build" /\ Empties
    /\ list' = IF stale \/ ~avalid THEN NoList ELSE list
    /\ stale' = FALSE
    /\ gpc' = "ready"
    /\ Upset(TRUE)
    /\ UNCHANGED <<active, acount, index, avalid, queued, qcount, qvalid, payload,
                   countvars, schedvars, byte, built, cancelled, emuvars>>

activate_queued_NoPayload ==
    /\ payload' = IF avalid THEN payload ELSE queued
    /\ active' = queued /\ acount' = qcount /\ index' = 0 /\ avalid' = TRUE
    /\ list' = [frame |-> queued, sub |-> 0]

\* activate_queued_locked
activate_queued ==
    /\ payload' = queued
    /\ active' = queued /\ acount' = qcount /\ index' = 0 /\ avalid' = TRUE
    /\ list' = [frame |-> queued, sub |-> 0]

FlushSubframes ==
    /\ gpc = "flush"
    /\ IF ~avalid
       THEN activate_queued /\ UNCHANGED qvalid
       ELSE qvalid' = TRUE /\ UNCHANGED <<active, acount, index, avalid, list, payload>>
    /\ gpc' = "ready"
    /\ UNCHANGED <<queued, qcount, countvars, schedvars, byte, built, stale, cancelled, emuvars, clean>>

SetFrameReady_NoCount ==
    /\ gpc = "ready"
    /\ frame_ready' = byte
    /\ gpc' = "run"
    /\ UNCHANGED <<queuevars, staged, consumed, schedvars, byte, built, stale, cancelled, emuvars, clean>>

\* cart_window_set_frame_ready: the byte, then the counter.
SetFrameReady ==
    /\ gpc = "ready"
    /\ frame_ready' = byte
    /\ gpc' = IF byte = 0 THEN "run" ELSE "count"
    /\ UNCHANGED <<queuevars, staged, consumed, schedvars, byte, built, stale, cancelled, emuvars, clean>>

CountStaged ==
    /\ gpc = "count"
    /\ staged' = (staged + 1) % CountMod
    /\ gpc' = "run"
    /\ UNCHANGED <<queuevars, frame_ready, consumed, schedvars, byte, built, stale, cancelled, emuvars, clean>>

-----------------------------------------------------------------------------
\* h_wait_vblank, which returns at once unless the queue is full, and then the
\* scheduler's apply_block_transition.

WaitVblank ==
    /\ gpc = "run" /\ InFlight >= MaxInflight
    /\ gpc' = "block"
    /\ UNCHANGED <<queuevars, countvars, schedvars, byte, built, stale, cancelled, emuvars, clean>>

SetBlockReason ==
    /\ gpc = "block"
    /\ waits' = TRUE /\ deadline' = (staged - (MaxInflight - 1)) % CountMod
    /\ gpc' = "park"
    /\ UNCHANGED <<queuevars, countvars, blocked, byte, built, stale, cancelled, emuvars, clean>>

Park ==
    /\ gpc = "park"
    /\ blocked' = TRUE
    /\ gpc' = "parked"
    /\ UNCHANGED <<queuevars, countvars, waits, deadline, byte, built, stale, cancelled, emuvars, clean>>

\* The scheduler finds it ready again.
Resume ==
    /\ gpc = "parked" /\ ~blocked
    /\ gpc' = "run"
    /\ UNCHANGED <<queuevars, countvars, schedvars, byte, built, stale, cancelled, emuvars, clean>>

-----------------------------------------------------------------------------
\* mg_state_reset, from the unload hook of the VM that drew; the next VM starts.

Unload ==
    /\ Unloads /\ gpc \in {"run", "parked"}
    /\ acount' = 0 /\ index' = 0 /\ stale' = FALSE
    /\ waits' = FALSE /\ deadline' = 0 /\ blocked' = FALSE
    /\ gpc' = "reset"
    /\ Upset(TRUE)
    /\ UNCHANGED <<active, avalid, queued, qcount, qvalid, list, payload, countvars,
                   byte, built, cancelled, emuvars>>

DropQueue ==
    /\ gpc = "reset"
    /\ avalid' = FALSE /\ qvalid' = FALSE /\ qcount' = 0
    /\ gpc' = "run"
    /\ UNCHANGED <<active, acount, index, queued, list, payload, countvars, schedvars,
                   byte, built, stale, cancelled, emuvars, clean>>

-----------------------------------------------------------------------------
\* The FRAME_DONE read of cart_window_read on the emulator thread.

MoreSubframes == avalid /\ index + 1 < acount

\* mg_state_advance_subframe
FrameDone ==
    /\ bpc = "idle" /\ frame_ready # 0
    /\ Upset(gpc \in {"ready", "count"} /\ active = built)
    /\ \/ /\ MoreSubframes                                \* MG_ADVANCE_MORE
          /\ index' = index + 1
          /\ list' = [frame |-> active, sub |-> index + 1]
          /\ UNCHANGED <<active, acount, avalid, qvalid, payload, bpc, adv>>
       \/ /\ ~MoreSubframes /\ qvalid
          /\ activate_queued /\ qvalid' = FALSE
          /\ adv' = "promoted" /\ bpc' = "count"
       \/ /\ ~MoreSubframes /\ ~qvalid
          /\ avalid' = FALSE /\ acount' = 0 /\ index' = 0
          /\ adv' = "empty" /\ bpc' = "count"
          /\ UNCHANGED <<active, qvalid, list, payload>>
    /\ UNCHANGED <<queued, qcount, countvars, schedvars, guestvars>>

CountConsumed_EmptyOnly ==
    /\ bpc = "count"
    /\ consumed' = IF adv = "empty" THEN (consumed + 1) % CountMod ELSE consumed
    /\ bpc' = IF adv = "empty" THEN "clear" ELSE "hook"
    /\ UNCHANGED <<queuevars, frame_ready, staged, schedvars, guestvars, adv, clean>>

CountConsumed ==
    /\ bpc = "count"
    /\ consumed' = (consumed + 1) % CountMod
    /\ bpc' = IF adv = "empty" THEN "clear" ELSE "hook"
    /\ UNCHANGED <<queuevars, frame_ready, staged, schedvars, guestvars, adv, clean>>

ClearReady ==
    /\ bpc = "clear"
    /\ frame_ready' = 0
    /\ bpc' = "hook"
    /\ UNCHANGED <<queuevars, staged, consumed, schedvars, guestvars, adv, clean>>

\* frame_consumed_wake_hook: vm_sched_wake_frame_consumed
WakeHook ==
    /\ bpc = "hook"
    /\ IF blocked /\ waits /\ consumed >= deadline
       THEN waits' = FALSE /\ deadline' = 0 /\ blocked' = FALSE
       ELSE UNCHANGED schedvars
    /\ bpc' = "idle"
    /\ UNCHANGED <<queuevars, countvars, guestvars, adv, clean>>

\* cart_window_reset_begin: restages the window and its registers, not the rest.
ResetBegin ==
    /\ Resets /\ bpc = "idle"
    /\ list' = NoList /\ payload' = 0 /\ frame_ready' = 0
    /\ Upset(TRUE)
    /\ UNCHANGED <<active, acount, index, avalid, queued, qcount, qvalid, staged, consumed,
                   schedvars, guestvars, emuvars>>

-----------------------------------------------------------------------------
Commits == {1} \cup (IF Cancels THEN {0} ELSE {})

Worker ==
    \/ CommitDropped \/ \E b \in Commits : Commit(b)
    \/ \E n \in 1 .. MaxSub : BuildFrame(n)
    \/ BuildNothing \/ FlushSubframes \/ SetFrameReady \/ CountStaged
    \/ WaitVblank \/ SetBlockReason \/ Park \/ Resume
    \/ Unload \/ DropQueue
Emulator == FrameDone \/ CountConsumed \/ ClearReady \/ WakeHook \/ ResetBegin

Next == Worker \/ Emulator

\* Both threads keep running what they have begun, and the kernel goes on
\* reading FRAME_DONE as long as it is shown a frame.
Fairness ==
    /\ WF_vars(BuildNothing \/ FlushSubframes \/ SetFrameReady \/ CountStaged)
    /\ WF_vars(SetBlockReason \/ Park \/ Resume \/ DropQueue)
    /\ WF_vars(\E n \in 1 .. MaxSub : BuildFrame(n))
    /\ WF_vars(FrameDone \/ CountConsumed \/ ClearReady \/ WakeHook)

Spec == Init /\ [][Next]_vars /\ Fairness

-----------------------------------------------------------------------------
\* Every variable has its type.
TypeOK ==
    /\ gpc \in {"run", "build", "flush", "ready", "count", "block", "park", "parked", "reset"}
    /\ bpc \in {"idle", "count", "clear", "hook"} /\ adv \in {"promoted", "empty"}
    /\ byte \in {0, 1} /\ frame_ready \in {0, 1}
    /\ built \in 0 .. MaxFrames /\ stale \in BOOLEAN /\ cancelled \subseteq Frame
    /\ clean \in BOOLEAN
    /\ active \in 0 .. MaxFrames /\ queued \in 0 .. MaxFrames /\ payload \in 0 .. MaxFrames
    /\ acount \in 0 .. MaxSub /\ qcount \in 0 .. MaxSub /\ index \in 0 .. MaxSub - 1
    /\ avalid \in BOOLEAN /\ qvalid \in BOOLEAN
    /\ list \in [frame : 0 .. MaxFrames, sub : 0 .. MaxSub - 1]
    /\ staged \in 0 .. CountMod - 1 /\ consumed \in 0 .. CountMod - 1
    /\ waits \in BOOLEAN /\ blocked \in BOOLEAN /\ deadline \in 0 .. CountMod - 1

\* Neither thread is between two of its accesses.
Settled == bpc = "idle" /\ gpc \in {"run", "block", "park", "parked"}

\* Whatever the two threads do meanwhile, a frame that waits in the queue is not
\* overwritten: h_frame_commit sees that the queue is full.
QueuedIsProtected == clean /\ qvalid /\ gpc = "run" => InFlight >= MaxInflight

\* cart_window.c on the counters: "compare the two to see whether the prior frame
\* has been picked up yet": they say how many frames are queued.
CountersMatchQueue ==
    clean /\ Settled => InFlight = (IF avalid THEN 1 ELSE 0) + (IF qvalid THEN 1 ELSE 0)

\* cart_window.c, FRAME_DONE: "Clear frame_ready ONLY when the queue is empty": while
\* two frames are queued the kernel is told that there is one to fetch.
FullQueueIsOffered == Settled /\ avalid /\ qvalid => frame_ready # 0

\* Every frame built becomes the active one, once, in the order of the commits.
FramesInOrder == [][clean' /\ active' # active => active' = active + 1]_vars

\* The DMA list the kernel walks never meets another frame's payload, whatever is
\* cancelled, unloaded or reset meanwhile (a reset leaves no payload at all).
ListMatchesPayload == list.frame # 0 /\ payload # 0 => list.frame = payload

\* vm_init.c, where the hook is set: "BLOCK_FRAME_CONSUMED waiters wake
\* deterministically when the SNES kernel acks a frame".
WaitReturns == gpc = "parked" ~> gpc # "parked"

\* flush_subframes: clearing the slots "while a frame is being consumed would
\* yank the active frame's DMA list out from under the kernel".
ActiveListIntact == Settled /\ avalid => list = [frame |-> active, sub |-> index]

\* h_frame_commit: a commit of 0 is how "a guest signals 'this frame is
\* cancelled'": the kernel is never told to fetch such a frame.
CancelledNotShown == frame_ready # 0 /\ avalid => active \notin cancelled

\* h_wait_vblank: "block only when the 2-deep queue is FULL".
BlocksOnlyWhenFull ==
    [][gpc = "run" /\ gpc' = "block" /\ bpc = "idle" => avalid /\ (MaxInflight = 2 => qvalid)]_vars

=============================================================================
