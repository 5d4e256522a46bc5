---------------------------- MODULE FramesProofs ----------------------------
(***************************************************************************)
(* The console side of the host, each part and the run that composes them. *)
(*                                                                         *)
(* The frame pipeline, for every number of frames and sub-frames and both  *)
(* depths of the commit-ahead queue.  QueuedIsProtected and                *)
(* CountersMatchQueue are about moments when one thread is between its     *)
(* accesses; in between the counters lag behind the queue by the frame the *)
(* worker has flushed but not counted (Uncounted) and run ahead of it by   *)
(* the one the kernel has finished but not counted (Unacked).  Ledger says *)
(* so exactly, and where the frames are, for as long as none of the        *)
(* sequences that Upset lists has happened.                                *)
(*                                                                         *)
(* The runtime, for every set of stages that fail (but the start of the    *)
(* audio thread), number of calls and width of the clock.  Every list of   *)
(* parts to take down is the end of one order, that of mgapi_shutdown, in  *)
(* which a part goes down before what it uses; so how far the runtime is   *)
(* down is one number (Gone), what is up are the parts above it            *)
(* (Standing), and a thread is safe as long as that number is below what   *)
(* it uses (Threads).                                                      *)
(***************************************************************************)
EXTENDS MCFrames, PreschedProofs, SequenceTheorems, TLAPS

-----------------------------------------------------------------------------
(* The frame pipeline. *)

Bit(b) == IF b THEN 1 ELSE 0

\* The worker has built a frame that g_frame_staged does not count yet, has put it in the
\* queue; the emulator thread has taken one out that g_frame_consumed does not count yet.
Building == gpc \in {"flush", "ready", "count"}
Uncounted == gpc \in {"ready", "count"}
Unacked == bpc = "count"

Ledger ==
    /\ staged = built - Bit(Building)
    /\ staged - consumed = Bit(avalid) + Bit(qvalid) + Bit(Unacked) - Bit(Uncounted)
    /\ active = built - Bit(qvalid \/ gpc = "flush")
    /\ qvalid => avalid /\ queued = built /\ gpc # "flush" /\ built >= 1
    /\ gpc = "flush" => queued = built /\ built >= 1
    /\ Building => byte # 0
    /\ Uncounted => avalid
    /\ gpc = "build" /\ byte # 0 => ~qvalid
    /\ frame_ready # 0 /\ ~avalid => bpc \in {"count", "clear"} /\ adv = "empty"
    /\ gpc # "reset"

\* The DMA list and the payload in the cart window are the active frame's, or nobody's.
WindowIsActive == payload \in {0, active} /\ list.frame \in {0, active}

IInv ==
    /\ TypeOK
    /\ gpc = "build" => built < MaxFrames
    /\ WindowIsActive
    /\ clean => Ledger

-----------------------------------------------------------------------------
\* The width of the frame counters.
LEMMA CountType ==
    ASSUME NEW x \in Int
    PROVE  x % CountMod \in 0 .. CountMod - 1
  BY FrameAssumption, SMT

\* No frame counter wraps within the frames that are built.
LEMMA CountExact ==
    ASSUME NEW x \in 0 .. MaxFrames + 2
    PROVE  x % CountMod = x
  BY FrameAssumption, SMT

\* Zero is a frame, a sub-frame and a count, and a list is of a frame and a sub-frame.
LEMMA ZeroTypes ==
    /\ 0 \in 0 .. MaxFrames /\ 0 \in 0 .. MaxSub /\ 0 \in 0 .. MaxSub - 1 /\ 0 \in 0 .. CountMod - 1
    /\ NoList \in [frame : 0 .. MaxFrames, sub : 0 .. MaxSub - 1] /\ NoList.frame = 0
  BY FrameAssumption DEF NoList

LEMMA ListTypes ==
    ASSUME NEW f \in 0 .. MaxFrames, NEW i \in 0 .. MaxSub - 1
    PROVE  /\ [frame |-> f, sub |-> i] \in [frame : 0 .. MaxFrames, sub : 0 .. MaxSub - 1]
           /\ [frame |-> f, sub |-> i].frame = f
  OBVIOUS

LEMMA InitIInv == Init => IInv
<1> SUFFICES ASSUME Init PROVE IInv
  OBVIOUS
<1>1. TypeOK /\ WindowIsActive
  BY ZeroTypes DEF Init, TypeOK, WindowIsActive
<1>2. Ledger
  <2>1. ~Building /\ ~Uncounted /\ ~Unacked /\ ~(qvalid \/ gpc = "flush")
    BY DEF Init, Building, Uncounted, Unacked
  <2>2. /\ built = 0 /\ staged = 0 /\ consumed = 0 /\ active = 0 /\ gpc = "run" /\ ~avalid /\ ~qvalid
        /\ frame_ready = 0
    BY DEF Init
  <2>3. Bit(Building) = 0 /\ Bit(avalid) = 0 /\ Bit(qvalid) = 0 /\ Bit(Unacked) = 0
        /\ Bit(Uncounted) = 0 /\ Bit(qvalid \/ gpc = "flush") = 0
    BY <2>1, <2>2, Zenon DEF Bit
  <2>4. gpc # "flush" /\ gpc # "build" /\ gpc # "reset"
    BY <2>2
  <2>5. staged = built - Bit(Building) /\ active = built - Bit(qvalid \/ gpc = "flush")
        /\ staged - consumed = Bit(avalid) + Bit(qvalid) + Bit(Unacked) - Bit(Uncounted)
    BY <2>2, <2>3
  <2> QED
    BY <2>1, <2>2, <2>4, <2>5 DEF Ledger
<1> QED
  BY <1>1, <1>2 DEF Init, IInv

\* What the two counters say while the ledger holds.
LEMMA InFlightExact ==
    ASSUME TypeOK, Ledger
    PROVE  InFlight = Bit(avalid) + Bit(qvalid) + Bit(Unacked) - Bit(Uncounted)
<1>1. staged - consumed \in 0 .. MaxFrames + 2
  <2>1. staged - consumed \in 0 .. 3
    BY DEF TypeOK, Ledger, Bit, Uncounted
  <2>2. staged - consumed <= MaxFrames
    BY FrameAssumption DEF TypeOK, Ledger, Bit
  <2> QED
    BY <2>1, <2>2, FrameAssumption DEF TypeOK
<1> QED
  BY <1>1, CountExact DEF InFlight, Ledger

LEMMA CommitIInv ==
    ASSUME IInv, NEW b \in Commits, Commit(b)
    PROVE  IInv'
<1> USE DEF Commit, queuevars, countvars, schedvars, guestvars, emuvars
<1>1. TypeOK' /\ (gpc' = "build" => built' < MaxFrames) /\ WindowIsActive'
  BY DEF IInv, TypeOK, WindowIsActive, Commits
<1>2. ASSUME clean' PROVE Ledger'
  <2>1. Ledger /\ TypeOK /\ (b # 0 => InFlight < MaxInflight)
    BY <1>2 DEF IInv
  <2>2. b # 0 => ~qvalid
    BY <2>1, InFlightExact, FrameAssumption DEF Ledger, Bit, Uncounted, Unacked
  <2> QED
    BY <2>1, <2>2 DEF Ledger, Building, Uncounted, Unacked
<1> QED
  BY <1>1, <1>2 DEF IInv

LEMMA BuildFrameIInv ==
    ASSUME IInv, NEW n \in 1 .. MaxSub, BuildFrame(n)
    PROVE  IInv'
<1> USE DEF BuildFrame, Upset, queuevars, countvars, schedvars, guestvars, emuvars
<1>1. TypeOK' /\ (gpc' = "build" => built' < MaxFrames) /\ WindowIsActive'
  BY FrameAssumption DEF IInv, TypeOK, WindowIsActive, NoList, Frame
<1>2. ASSUME clean' PROVE Ledger'
  <2>1. Ledger /\ TypeOK /\ byte # 0
    BY <1>2 DEF IInv
  <2> QED
    BY <2>1 DEF TypeOK, Ledger, Building, Uncounted, Unacked, Bit
<1> QED
  BY <1>1, <1>2 DEF IInv

LEMMA FlushIInv ==
    ASSUME IInv, FlushSubframes
    PROVE  IInv'
<1> USE DEF FlushSubframes, activate_queued, queuevars, countvars, schedvars, guestvars, emuvars
<1>1. TypeOK' /\ (gpc' = "build" => built' < MaxFrames) /\ WindowIsActive'
  <2>1. CASE avalid
    BY <2>1 DEF IInv, TypeOK, WindowIsActive
  <2>2. CASE ~avalid
    <3>1. list' \in [frame : 0 .. MaxFrames, sub : 0 .. MaxSub - 1] /\ list'.frame = queued
      BY <2>2, ZeroTypes, ListTypes DEF IInv, TypeOK
    <3>2. /\ gpc' = "ready" /\ payload' = queued /\ active' = queued /\ acount' = qcount
          /\ index' = 0 /\ avalid' = TRUE
          /\ UNCHANGED <<qvalid, queued, qcount, countvars, schedvars, byte, built, stale,
                         cancelled, emuvars, clean>>
      BY <2>2
    <3> QED
      BY <3>1, <3>2, ZeroTypes DEF IInv, TypeOK, WindowIsActive
  <2> QED
    BY <2>1, <2>2
<1>2. ASSUME clean' PROVE Ledger'
  BY <1>2 DEF IInv, TypeOK, Ledger, Building, Uncounted, Unacked, Bit
<1> QED
  BY <1>1, <1>2 DEF IInv

\* The worker's other steps: none of them touches the queue.
LEMMA WorkerIInv ==
    ASSUME IInv,
           \/ CommitDropped \/ BuildNothing \/ SetFrameReady \/ CountStaged
           \/ WaitVblank \/ SetBlockReason \/ Park \/ Resume \/ Unload \/ DropQueue
    PROVE  IInv'
<1> USE DEF Upset, queuevars, countvars, schedvars, guestvars, emuvars
<1>1. CASE CommitDropped
  BY <1>1 DEF CommitDropped, vars, IInv, TypeOK, WindowIsActive, Ledger, Building, Uncounted, Unacked
<1>2. CASE BuildNothing
  BY <1>2, ZeroTypes DEF BuildNothing, IInv, TypeOK, WindowIsActive
<1>3. CASE SetFrameReady
  BY <1>3 DEF SetFrameReady, IInv, TypeOK, WindowIsActive, Ledger, Building, Uncounted, Unacked
<1>4. CASE CountStaged
  <2>1. TypeOK' /\ WindowIsActive'
    BY <1>4, CountType DEF CountStaged, IInv, TypeOK, WindowIsActive
  <2>2. ASSUME clean PROVE Ledger'
    <3>1. Ledger /\ TypeOK
      BY <2>2 DEF IInv
    <3>2. staged + 1 \in 0 .. MaxFrames + 2
      BY <3>1, FrameAssumption DEF TypeOK, Ledger, Bit
    <3>3. staged' = staged + 1
      BY <1>4, <3>2, CountExact DEF CountStaged
    <3> QED
      BY <1>4, <3>1, <3>3 DEF CountStaged, TypeOK, Ledger, Building, Uncounted, Unacked, Bit
  <2> QED
    BY <1>4, <2>1, <2>2 DEF CountStaged, IInv
<1>5. CASE WaitVblank
  BY <1>5 DEF WaitVblank, IInv, TypeOK, WindowIsActive, Ledger, Building, Uncounted, Unacked
<1>6. CASE SetBlockReason
  <2>1. deadline' \in 0 .. CountMod - 1
    BY <1>6, CountType, FrameAssumption DEF SetBlockReason, IInv, TypeOK
  <2> QED
    BY <1>6, <2>1 DEF SetBlockReason, IInv, TypeOK, WindowIsActive, Ledger, Building, Uncounted, Unacked
<1>7. CASE Park
  BY <1>7 DEF Park, IInv, TypeOK, WindowIsActive, Ledger, Building, Uncounted, Unacked
<1>8. CASE Resume
  BY <1>8 DEF Resume, IInv, TypeOK, WindowIsActive, Ledger, Building, Uncounted, Unacked
<1>9. CASE Unload
  BY <1>9, ZeroTypes DEF Unload, IInv, TypeOK, WindowIsActive
<1>10. CASE DropQueue
  BY <1>10, ZeroTypes DEF DropQueue, IInv, TypeOK, WindowIsActive, Ledger
<1> QED
  BY <1>1, <1>2, <1>3, <1>4, <1>5, <1>6, <1>7, <1>8, <1>9, <1>10

\* What mg_state_advance_subframe does: go on, promote the queued frame, or run empty.
LEMMA FrameDoneCases ==
    ASSUME FrameDone
    PROVE  /\ bpc = "idle" /\ frame_ready # 0
           /\ clean' => clean /\ ~(Uncounted /\ active = built)
           /\ UNCHANGED <<queued, qcount, frame_ready, staged, consumed, waits, deadline, blocked,
                          gpc, byte, built, stale, cancelled>>
           /\ \/ /\ avalid /\ index + 1 < acount /\ index' = index + 1
                 /\ list' = [frame |-> active, sub |-> index + 1]
                 /\ UNCHANGED <<active, acount, avalid, qvalid, payload, bpc, adv>>
              \/ /\ qvalid /\ qvalid' = FALSE /\ payload' = queued /\ active' = queued
                 /\ acount' = qcount /\ index' = 0 /\ avalid' = TRUE
                 /\ list' = [frame |-> queued, sub |-> 0] /\ adv' = "promoted" /\ bpc' = "count"
              \/ /\ ~qvalid /\ avalid' = FALSE /\ acount' = 0 /\ index' = 0
                 /\ adv' = "empty" /\ bpc' = "count"
                 /\ UNCHANGED <<active, qvalid, list, payload>>
  BY DEF FrameDone, MoreSubframes, activate_queued, Upset, Uncounted, countvars, schedvars, guestvars

LEMMA FrameDoneIInv ==
    ASSUME IInv, FrameDone
    PROVE  IInv'
<1>1. TypeOK' /\ (gpc' = "build" => built' < MaxFrames) /\ WindowIsActive'
  <2>1. TypeOK /\ (gpc = "build" => built < MaxFrames) /\ WindowIsActive
    BY DEF IInv
  <2>2. /\ index' \in 0 .. MaxSub - 1 /\ acount' \in 0 .. MaxSub
        /\ list' \in [frame : 0 .. MaxFrames, sub : 0 .. MaxSub - 1] /\ WindowIsActive'
    <3>1. /\ active \in 0 .. MaxFrames /\ queued \in 0 .. MaxFrames /\ qcount \in 0 .. MaxSub
          /\ acount \in 0 .. MaxSub /\ index \in 0 .. MaxSub - 1
          /\ list \in [frame : 0 .. MaxFrames, sub : 0 .. MaxSub - 1]
          /\ payload \in {0, active} /\ list.frame \in {0, active}
      BY <2>1 DEF TypeOK, WindowIsActive
    <3>2. CASE /\ index + 1 < acount /\ index' = index + 1
               /\ list' = [frame |-> active, sub |-> index + 1]
               /\ UNCHANGED <<active, acount, payload>>
      <4>1. index' \in 0 .. MaxSub - 1 /\ acount' \in 0 .. MaxSub
        BY <3>1, <3>2, FrameAssumption
      <4>2. list' \in [frame : 0 .. MaxFrames, sub : 0 .. MaxSub - 1] /\ list'.frame = active
        BY <3>1, <3>2, <4>1, ListTypes
      <4> QED
        BY <3>1, <3>2, <4>1, <4>2 DEF WindowIsActive
    <3>3. CASE /\ payload' = queued /\ active' = queued /\ acount' = qcount /\ index' = 0
               /\ list' = [frame |-> queued, sub |-> 0]
      <4>1. list' \in [frame : 0 .. MaxFrames, sub : 0 .. MaxSub - 1] /\ list'.frame = queued
        BY <3>1, <3>3, ZeroTypes, ListTypes
      <4> QED
        BY <3>1, <3>3, <4>1, ZeroTypes DEF WindowIsActive
    <3>4. CASE acount' = 0 /\ index' = 0 /\ UNCHANGED <<active, list, payload>>
      BY <3>1, <3>4, ZeroTypes DEF WindowIsActive
    <3> QED
      BY <3>2, <3>3, <3>4, FrameDoneCases
  <2>4. clean' \in BOOLEAN /\ avalid' \in BOOLEAN /\ qvalid' \in BOOLEAN
    BY <2>1, FrameDoneCases DEF TypeOK, FrameDone, Upset
  <2>5. /\ active' \in 0 .. MaxFrames /\ payload' \in 0 .. MaxFrames
        /\ bpc' \in {"idle", "count", "clear", "hook"} /\ adv' \in {"promoted", "empty"}
    BY <2>1, FrameDoneCases DEF TypeOK
  <2> QED
    BY <2>1, <2>2, <2>4, <2>5, FrameDoneCases DEF TypeOK
<1>2. ASSUME clean' PROVE Ledger'
  <2>1. Ledger /\ TypeOK /\ ~(Uncounted /\ active = built) /\ bpc = "idle" /\ frame_ready # 0
    BY <1>2, FrameDoneCases DEF IInv
  <2>2. avalid /\ (Uncounted => qvalid) /\ ~Unacked
    BY <2>1 DEF TypeOK, Ledger, Bit, Uncounted, Unacked
  <2>3. Building' = Building /\ Uncounted' = Uncounted
    BY FrameDoneCases DEF Building, Uncounted
  <2>4. CASE UNCHANGED <<active, avalid, qvalid, bpc, adv>>
    BY <2>1, <2>3, <2>4, FrameDoneCases DEF Ledger, Unacked
  <2>5. CASE /\ qvalid /\ qvalid' = FALSE /\ active' = queued /\ avalid' = TRUE
             /\ adv' = "promoted" /\ bpc' = "count"
    <3>1. Unacked'
      BY <2>5 DEF Unacked
    <3> QED
      BY <2>1, <2>2, <2>3, <2>5, <3>1, FrameDoneCases DEF TypeOK, Ledger, Bit
  <2>6. CASE /\ ~qvalid /\ avalid' = FALSE /\ adv' = "empty" /\ bpc' = "count"
             /\ UNCHANGED <<active, qvalid>>
    <3>1. Unacked' /\ ~Uncounted
      BY <2>2, <2>6 DEF Unacked
    <3> QED
      BY <2>1, <2>2, <2>3, <2>6, <3>1, FrameDoneCases DEF TypeOK, Ledger, Bit
  <2> QED
    BY <2>4, <2>5, <2>6, FrameDoneCases
<1> QED
  BY <1>1, <1>2 DEF IInv

LEMMA EmulatorIInv ==
    ASSUME IInv, CountConsumed \/ ClearReady \/ WakeHook \/ ResetBegin
    PROVE  IInv'
<1> USE DEF Upset, queuevars, countvars, schedvars, guestvars, emuvars
<1>1. CASE CountConsumed
  <2>1. TypeOK' /\ WindowIsActive' /\ (gpc' = "build" => built' < MaxFrames)
    BY <1>1, CountType DEF CountConsumed, IInv, TypeOK, WindowIsActive
  <2>2. ASSUME clean PROVE Ledger'
    <3>1. Ledger /\ TypeOK
      BY <2>2 DEF IInv
    <3>2. consumed + 1 \in 0 .. MaxFrames + 2
      BY <1>1, <3>1, FrameAssumption DEF CountConsumed, TypeOK, Ledger, Bit, Uncounted, Unacked
    <3>3. consumed' = consumed + 1
      BY <1>1, <3>2, CountExact DEF CountConsumed
    <3>4. frame_ready # 0 /\ ~avalid => bpc' = "clear"
      BY <1>1, <3>1 DEF CountConsumed, Ledger
    <3> QED
      BY <1>1, <3>1, <3>3, <3>4 DEF CountConsumed, TypeOK, Ledger, Building, Uncounted, Unacked, Bit
  <2> QED
    BY <1>1, <2>1, <2>2 DEF CountConsumed, IInv
<1>2. CASE ClearReady
  BY <1>2 DEF ClearReady, IInv, TypeOK, WindowIsActive, Ledger, Building, Uncounted, Unacked
<1>3. CASE WakeHook
  <2>1. waits' \in BOOLEAN /\ blocked' \in BOOLEAN /\ deadline' \in 0 .. CountMod - 1
    BY <1>3, ZeroTypes DEF WakeHook, IInv, TypeOK
  <2>2. /\ bpc = "hook" /\ bpc' = "idle"
        /\ UNCHANGED <<queuevars, countvars, guestvars, adv, clean>>
    BY <1>3 DEF WakeHook
  <2> QED
    BY <2>1, <2>2 DEF IInv, TypeOK, WindowIsActive, Ledger, Building, Uncounted, Unacked
<1>4. CASE ResetBegin
  BY <1>4, ZeroTypes DEF ResetBegin, IInv, TypeOK, WindowIsActive
<1> QED
  BY <1>1, <1>2, <1>3, <1>4

LEMMA NextIInv == IInv /\ [Next]_vars => IInv'
<1>1. ASSUME IInv, UNCHANGED vars PROVE IInv'
  BY <1>1 DEF vars, queuevars, countvars, schedvars, guestvars, emuvars, IInv, TypeOK,
              WindowIsActive, Ledger, Building, Uncounted, Unacked
<1> QED
  BY <1>1, CommitIInv, BuildFrameIInv, FlushIInv, WorkerIInv, FrameDoneIInv, EmulatorIInv
  DEF Next, Worker, Emulator

-----------------------------------------------------------------------------
\* The two threads keep the ledger, for every depth and every number of frames.
THEOREM Invariance == Spec => []IInv
  BY InitIInv, NextIInv, PTL DEF Spec

\* TypeOK: the sub-frame index stays within the frame and the counters within their width.
THEOREM TypeCorrect == Spec => []TypeOK
<1>1. IInv => TypeOK
  BY DEF IInv
<1> QED
  BY <1>1, Invariance, PTL

\* QueuedIsProtected: h_frame_commit never overwrites a frame that waits in the queue.
THEOREM QueuedFramesAreProtected == Spec => []QueuedIsProtected
<1>1. IInv => QueuedIsProtected
  <2> SUFFICES ASSUME IInv, clean, qvalid, gpc = "run"
               PROVE  InFlight >= MaxInflight
    BY DEF QueuedIsProtected
  <2>1. TypeOK /\ Ledger
    BY DEF IInv
  <2> QED
    BY <2>1, InFlightExact, FrameAssumption DEF Ledger, Bit, Uncounted
<1> QED
  BY <1>1, Invariance, PTL

\* CountersMatchQueue: between accesses the two counters say how many frames are queued.
THEOREM CountersAlwaysMatch == Spec => []CountersMatchQueue
<1>1. IInv => CountersMatchQueue
  <2> SUFFICES ASSUME IInv, clean, Settled
               PROVE  InFlight = (IF avalid THEN 1 ELSE 0) + (IF qvalid THEN 1 ELSE 0)
    BY DEF CountersMatchQueue
  <2>1. TypeOK /\ Ledger
    BY DEF IInv
  <2> QED
    BY <2>1, InFlightExact DEF Settled, Bit, Uncounted, Unacked
<1> QED
  BY <1>1, Invariance, PTL

\* ListMatchesPayload: the list the kernel walks never meets another frame's payload.
THEOREM ListAlwaysMatchesPayload == Spec => []ListMatchesPayload
<1>1. IInv => ListMatchesPayload
  BY DEF IInv, WindowIsActive, ListMatchesPayload
<1> QED
  BY <1>1, Invariance, PTL

\* FramesInOrder: every frame built becomes the active one, once, in the order of the commits.
THEOREM FramesStayInOrder == Spec => FramesInOrder
<1> DEFINE A == clean' /\ active' # active => active' = active + 1
<1>1. IInv /\ [Next]_vars => [A]_vars
  <2> SUFFICES ASSUME IInv, Next, clean', active' # active
               PROVE  active' = active + 1
    OBVIOUS
  <2>1. CASE FlushSubframes
    BY <2>1 DEF FlushSubframes, activate_queued, IInv, TypeOK, Ledger, Bit, queuevars
  <2>2. CASE FrameDone
    BY <2>2 DEF FrameDone, activate_queued, Upset, IInv, TypeOK, Ledger, Bit
  <2>3. CASE ~FlushSubframes /\ ~FrameDone
    BY <2>3 DEF Next, Worker, Emulator, CommitDropped, Commit, BuildFrame, BuildNothing,
       SetFrameReady, CountStaged, WaitVblank, SetBlockReason, Park, Resume, Unload, DropQueue,
       CountConsumed, ClearReady, WakeHook, ResetBegin, vars, queuevars
  <2> QED
    BY <2>1, <2>2, <2>3
<1> QED
  BY <1>1, Invariance, PTL DEF Spec, FramesInOrder

-----------------------------------------------------------------------------
(* The runtime. *)
Heads == {"worker", "fmv", "arbiter", "tcp", "vm", "l2", "volume", "audioThread", "sink", "service",
          "channel", "psram", "window", "flag"}
Names == Heads \cup PartsOfVm

\* Where in mgapi_shutdown a part goes down.
Rank == [p \in Names |->
    CASE p = "worker" -> 1 [] p = "fmv" -> 2 [] p = "arbiter" -> 3 [] p = "tcp" -> 4
      [] p \in PartsOfVm -> 5 [] p = "l2" -> 6 [] p = "volume" -> 7 [] p = "audioThread" -> 8
      [] p = "sink" -> 9 [] p = "service" -> 10 [] p = "channel" -> 11 [] p = "psram" -> 12
      [] p = "window" -> 13 [] p = "flag" -> 14]

\* A list in the order of Rank, without a gap, from the r-th on.
Ranked(L, r) == L \in Seq(Heads) /\ \A i \in 1 .. Len(L) : Rank[L[i]] = r + i

\* What is left of the list of n names.
Tidy(L, n) == Len(L) <= n /\ Ranked(L, n - Len(L))

Listed == IF g_initialized THEN 14 ELSE 13
\* How many of them are down.
Gone == IF releasing = <<>> /\ g_initialized THEN 0 ELSE Listed - Len(releasing)

RunTypes ==
    /\ runtimeUp \subseteq Names \ {"flag"} /\ mounts \subseteq Mountable /\ g_initialized \in BOOLEAN
    /\ initStage \in 0 .. 19 /\ Tidy(releasing, Listed)
    /\ tickPc \in {"none", "idle", "tcp", "arbiter", "fmv", "vm"}
    /\ audioPc \in {"none", "top", "process", "render", "write", "wait", "ended"}

\* The fatal stages before n have brought their parts up.
Done(n) == \A i \in 1 .. 19 : i < n /\ Stages[i].fatal => Stages[i].gets \in runtimeUp \cup mounts

Starting ==
    initStage > 0 =>
        /\ releasing = <<>> /\ tickPc = "none" /\ (g_initialized <=> initStage = 19)
        /\ Done(initStage)
        /\ \A p \in runtimeUp : p = "arbiter" \/ \E i \in 1 .. 19 : i < initStage /\ p = Stages[i].gets

\* Down in the order of Rank; the arbiter's table may outlive its call.
Standing ==
    initStage = 0 =>
        /\ \A p \in runtimeUp : p = "arbiter" \/ Rank[p] > Gone
        /\ \A p \in {"l2", "volume", "service", "channel", "psram", "window"} : Rank[p] > Gone => p \in runtimeUp
        /\ Gone < 3 => "arbiter" \in runtimeUp
        /\ Gone < 4 => "vm" \in runtimeUp
        /\ g_initialized /\ releasing = <<>> => Done(20)

Threads ==
    /\ tickPc # "none" => initStage = 0 /\ Gone = 0
    /\ audioPc # "none" => initStage > 6 \/ (initStage = 0 /\ Gone < 8)
    /\ audioPc = "write" => "sink" \in runtimeUp

Held ==
    /\ clock \in Nat /\ resetAt \in Nat
    /\ resetAt > 0 => /\ resetAt - 1 <= clock
                      /\ g_reset_t_start_ms = (resetAt - 1) % 2^MsBits

RuntimeInv == RunTypes /\ Starting /\ Standing /\ Threads /\ Held

-----------------------------------------------------------------------------
LEMMA StageFacts ==
    /\ Len(Stages) = 19
    /\ Stages[1] = cart_window_init /\ Stages[2] = psram_pool_init /\ Stages[3] = service_channel_init
    /\ Stages[4] = audio_service_create /\ Stages[5] = audio_sink_open /\ Stages[6] = audio_worker_start
    /\ Stages[7] = mgapi_cart_volume_init /\ Stages[8] = mgapi_l2_init /\ Stages[9] = vm_system_init
    /\ Stages[10] = install_bridges /\ Stages[11] = StartArbiter /\ Stages[12] = install_media
    /\ Stages[13] = mount_td0 /\ Stages[14] = mount_cart /\ Stages[15] = mount_host
    /\ Stages[16] = audio_install_ecalls /\ Stages[17] = load_shell /\ Stages[18] = mgapi_tcp_listen_init
    /\ Stages[19] = StartWorker
  BY DEF Stages

LEMMA RankFacts ==
    /\ Rank["worker"] = 1 /\ Rank["fmv"] = 2 /\ Rank["arbiter"] = 3 /\ Rank["tcp"] = 4 /\ Rank["vm"] = 5
    /\ Rank["l2"] = 6 /\ Rank["volume"] = 7 /\ Rank["audioThread"] = 8 /\ Rank["sink"] = 9
    /\ Rank["service"] = 10 /\ Rank["channel"] = 11 /\ Rank["psram"] = 12 /\ Rank["window"] = 13
    /\ Rank["flag"] = 14
    /\ \A p \in PartsOfVm : Rank[p] = 5
    /\ \A p \in Names : Rank[p] \in 1 .. 14
  BY DEF Rank, Names, Heads, PartsOfVm

\* The name that is taken down at its place takes all of that rank with it.
LEMMA TakenFacts ==
    ASSUME NEW s \in Heads, NEW p \in Names
    PROVE  p \in (IF s = "vm" THEN PartsOfVm ELSE {s}) <=> Rank[p] = Rank[s]
  BY DEF Rank, Names, Heads, PartsOfVm

-----------------------------------------------------------------------------
(* What is left to be taken down. *)

LEMMA CatRun ==
    ASSUME NEW r \in Int, NEW q \in Int, NEW a, NEW b, Ranked(a, r), Ranked(b, q), q = r + Len(a)
    PROVE  Ranked(a \o b, r) /\ Len(a \o b) = Len(a) + Len(b) /\ Len(a \o b) \in Nat
<1>1. a \in Seq(Heads) /\ b \in Seq(Heads) /\ Len(a) \in Nat /\ Len(b) \in Nat
  BY DEF Ranked
<1>2. a \o b \in Seq(Heads) /\ Len(a \o b) = Len(a) + Len(b)
  BY <1>1
<1>3. ASSUME NEW i \in 1 .. Len(a) + Len(b)
      PROVE  Rank[(a \o b)[i]] = r + i
  <2>1. CASE i <= Len(a)
    <3>1. i \in 1 .. Len(a) /\ (a \o b)[i] = a[i]
      BY <1>1, <2>1
    <3> QED
      BY <3>1 DEF Ranked
  <2>2. CASE i > Len(a)
    <3>1. i - Len(a) \in 1 .. Len(b) /\ (a \o b)[i] = b[i - Len(a)]
      BY <1>1, <2>2
    <3>2. Rank[b[i - Len(a)]] = q + (i - Len(a))
      BY <3>1 DEF Ranked
    <3> QED
      BY <1>1, <3>1, <3>2
  <2> QED
    BY <1>1, <2>1, <2>2
<1> QED
  BY <1>1, <1>2, <1>3 DEF Ranked

\* CatRun for a list of m names.
Joins(r, m, q) ==
    \A a, b : Ranked(a, r) /\ Len(a) = m /\ Ranked(b, q) => Ranked(a \o b, r) /\ Len(a \o b) = Len(a) + Len(b)

LEMMA JoinFacts == ASSUME NEW r \in Nat, NEW m \in Nat, NEW q \in Nat, q = r + m PROVE Joins(r, m, q)
  BY CatRun DEF Joins

LEMMA OneRun == ASSUME NEW s \in Heads PROVE Ranked(<<s>>, Rank[s] - 1) /\ Len(<<s>>) = 1
<1>1. <<s>> \in Seq(Heads) /\ Len(<<s>>) = 1 /\ <<s>>[1] = s
  OBVIOUS
<1>2. Rank[s] \in Int
  BY RankFacts DEF Names
<1> QED
  BY <1>1, <1>2 DEF Ranked

LEMMA MemoryRun ==
    /\ Ranked(Memory, 11) /\ Len(Memory) = 2
    /\ Ranked(AudioShutdown, 7) /\ Len(AudioShutdown) = 4
    /\ Ranked(AudioShutdown \o Memory, 7) /\ Len(AudioShutdown \o Memory) = 6
<1>1. Ranked(Memory, 11) /\ Len(Memory) = 2
  <2>1. Memory \in Seq(Heads) /\ Len(Memory) = 2 /\ Memory[1] = "psram" /\ Memory[2] = "window"
    BY DEF Memory, Heads
  <2> QED
    BY <2>1, RankFacts DEF Ranked
<1>2. Ranked(AudioShutdown, 7) /\ Len(AudioShutdown) = 4
  <2>1. /\ AudioShutdown \in Seq(Heads) /\ Len(AudioShutdown) = 4
        /\ AudioShutdown[1] = "audioThread" /\ AudioShutdown[2] = "sink"
        /\ AudioShutdown[3] = "service" /\ AudioShutdown[4] = "channel"
    BY DEF AudioShutdown, Heads
  <2> QED
    BY <2>1, RankFacts DEF Ranked
<1>3. Ranked(AudioShutdown \o Memory, 7) /\ Len(AudioShutdown \o Memory) = 6
  <2>1. Joins(7, 4, 11)
    BY JoinFacts
  <2>2. Ranked(AudioShutdown \o Memory, 7) /\ Len(AudioShutdown \o Memory) = Len(AudioShutdown) + Len(Memory)
    BY <1>1, <1>2, <2>1 DEF Joins
  <2> QED
    BY <1>1, <1>2, <2>2
<1> QED
  BY <1>1, <1>2, <1>3

\* The lists of the failing stages end with the cart window, as the list of mgapi_shutdown does
\* but for its flag.
LEMMA UndoFacts ==
    /\ Ranked(<<>>, 13) /\ Ranked(<<"window">>, 12) /\ Ranked(<<"channel">> \o Memory, 10)
    /\ Ranked(<<"volume">> \o AudioShutdown \o Memory, 6)
    /\ Ranked(<<"l2", "volume">> \o AudioShutdown \o Memory, 5)
    /\ Ranked(FailSys, 4)
    /\ Len(<<>>) = 0 /\ Len(<<"window">>) = 1 /\ Len(<<"channel">> \o Memory) = 3
    /\ Len(<<"volume">> \o AudioShutdown \o Memory) = 7
    /\ Len(<<"l2", "volume">> \o AudioShutdown \o Memory) = 8
    /\ Len(FailSys) = 9
<1>1. Ranked(<<>>, 13) /\ Len(<<>>) = 0
  BY DEF Ranked
<1>2. /\ Ranked(<<"window">>, 12) /\ Ranked(<<"channel">>, 10) /\ Ranked(<<"volume">>, 6)
      /\ Len(<<"window">>) = 1 /\ Len(<<"channel">>) = 1 /\ Len(<<"volume">>) = 1
  BY OneRun, RankFacts DEF Heads
<1>3. Ranked(<<"l2", "volume">>, 5) /\ Len(<<"l2", "volume">>) = 2
  <2>1. /\ <<"l2", "volume">> \in Seq(Heads) /\ Len(<<"l2", "volume">>) = 2
        /\ <<"l2", "volume">>[1] = "l2" /\ <<"l2", "volume">>[2] = "volume"
    BY DEF Heads
  <2> QED
    BY <2>1, RankFacts DEF Ranked
<1>4. Ranked(<<"vm", "l2", "volume">>, 4) /\ Len(<<"vm", "l2", "volume">>) = 3
  <2>1. /\ <<"vm", "l2", "volume">> \in Seq(Heads) /\ Len(<<"vm", "l2", "volume">>) = 3
        /\ <<"vm", "l2", "volume">>[1] = "vm" /\ <<"vm", "l2", "volume">>[2] = "l2"
        /\ <<"vm", "l2", "volume">>[3] = "volume"
    BY DEF Heads
  <2> QED
    BY <2>1, RankFacts DEF Ranked
<1>5. Ranked(<<"channel">> \o Memory, 10) /\ Len(<<"channel">> \o Memory) = 3
  <2>1. Joins(10, 1, 11)
    BY JoinFacts
  <2>2. Ranked(<<"channel">> \o Memory, 10) /\ Len(<<"channel">> \o Memory) = Len(<<"channel">>) + Len(Memory)
    BY <1>2, MemoryRun, <2>1 DEF Joins
  <2> QED
    BY <1>2, MemoryRun, <2>2
<1>6. Ranked(<<"volume">> \o AudioShutdown \o Memory, 6) /\ Len(<<"volume">> \o AudioShutdown \o Memory) = 7
  <2>1. Ranked(<<"volume">> \o AudioShutdown, 6) /\ Len(<<"volume">> \o AudioShutdown) = 5
    <3>1. Joins(6, 1, 7)
      BY JoinFacts
    <3>2. Ranked(<<"volume">> \o AudioShutdown, 6) /\ Len(<<"volume">> \o AudioShutdown) = Len(<<"volume">>) + Len(AudioShutdown)
      BY <1>2, MemoryRun, <3>1 DEF Joins
    <3> QED
      BY <1>2, MemoryRun, <3>2
  <2> QED
    <3>1. Joins(6, 5, 11)
      BY JoinFacts
    <3>2. Ranked(<<"volume">> \o AudioShutdown \o Memory, 6) /\ Len(<<"volume">> \o AudioShutdown \o Memory) = Len(<<"volume">> \o AudioShutdown) + Len(Memory)
      BY <2>1, MemoryRun, <3>1 DEF Joins
    <3> QED
      BY <2>1, MemoryRun, <3>2
<1>7. /\ Ranked(<<"l2", "volume">> \o AudioShutdown \o Memory, 5)
      /\ Len(<<"l2", "volume">> \o AudioShutdown \o Memory) = 8
  <2>1. Ranked(<<"l2", "volume">> \o AudioShutdown, 5) /\ Len(<<"l2", "volume">> \o AudioShutdown) = 6
    <3>1. Joins(5, 2, 7)
      BY JoinFacts
    <3>2. Ranked(<<"l2", "volume">> \o AudioShutdown, 5) /\ Len(<<"l2", "volume">> \o AudioShutdown) = Len(<<"l2", "volume">>) + Len(AudioShutdown)
      BY <1>3, MemoryRun, <3>1 DEF Joins
    <3> QED
      BY <1>3, MemoryRun, <3>2
  <2> QED
    <3>1. Joins(5, 6, 11)
      BY JoinFacts
    <3>2. Ranked(<<"l2", "volume">> \o AudioShutdown \o Memory, 5) /\ Len(<<"l2", "volume">> \o AudioShutdown \o Memory) = Len(<<"l2", "volume">> \o AudioShutdown) + Len(Memory)
      BY <2>1, MemoryRun, <3>1 DEF Joins
    <3> QED
      BY <2>1, MemoryRun, <3>2
<1>8. Ranked(FailSys, 4) /\ Len(FailSys) = 9
  <2>1. Ranked(<<"vm", "l2", "volume">> \o AudioShutdown, 4) /\ Len(<<"vm", "l2", "volume">> \o AudioShutdown) = 7
    <3>1. Joins(4, 3, 7)
      BY JoinFacts
    <3>2. Ranked(<<"vm", "l2", "volume">> \o AudioShutdown, 4) /\ Len(<<"vm", "l2", "volume">> \o AudioShutdown) = Len(<<"vm", "l2", "volume">>) + Len(AudioShutdown)
      BY <1>4, MemoryRun, <3>1 DEF Joins
    <3> QED
      BY <1>4, MemoryRun, <3>2
  <2> QED
    <3>1. Joins(4, 7, 11)
      BY JoinFacts
    <3>2. Ranked(<<"vm", "l2", "volume">> \o AudioShutdown \o Memory, 4) /\ Len(<<"vm", "l2", "volume">> \o AudioShutdown \o Memory) = Len(<<"vm", "l2", "volume">> \o AudioShutdown) + Len(Memory)
      BY <2>1, MemoryRun, <3>1 DEF Joins
    <3> QED
      BY <2>1, MemoryRun, <3>2 DEF FailSys
<1> QED
  BY <1>1, <1>2, <1>5, <1>6, <1>7, <1>8

Shutdown == <<"worker", "fmv", "arbiter", "tcp", "vm", "l2", "volume">> \o AudioShutdown \o Memory \o <<"flag">>

LEMMA ShutdownRun == Ranked(Shutdown, 0) /\ Len(Shutdown) = 14
<1> DEFINE top == <<"worker", "fmv", "arbiter", "tcp", "vm", "l2", "volume">>
<1>1. Ranked(top, 0) /\ Len(top) = 7
  <2>1. /\ top \in Seq(Heads) /\ Len(top) = 7
        /\ top[1] = "worker" /\ top[2] = "fmv" /\ top[3] = "arbiter" /\ top[4] = "tcp"
        /\ top[5] = "vm" /\ top[6] = "l2" /\ top[7] = "volume"
    BY DEF Heads
  <2> QED
    BY <2>1, RankFacts DEF Ranked
<1> HIDE DEF top
<1>2. Ranked(top \o AudioShutdown, 0) /\ Len(top \o AudioShutdown) = 11
  <2>1. Joins(0, 7, 7)
    BY JoinFacts
  <2>2. Ranked(top \o AudioShutdown, 0) /\ Len(top \o AudioShutdown) = Len(top) + Len(AudioShutdown)
    BY <1>1, MemoryRun, <2>1 DEF Joins
  <2> QED
    BY <1>1, MemoryRun, <2>2
<1>3. Ranked(top \o AudioShutdown \o Memory, 0) /\ Len(top \o AudioShutdown \o Memory) = 13
  <2>1. Joins(0, 11, 11)
    BY JoinFacts
  <2>2. Ranked(top \o AudioShutdown \o Memory, 0) /\ Len(top \o AudioShutdown \o Memory) = Len(top \o AudioShutdown) + Len(Memory)
    BY <1>2, MemoryRun, <2>1 DEF Joins
  <2> QED
    BY <1>2, MemoryRun, <2>2
<1>4. Ranked(<<"flag">>, 13) /\ Len(<<"flag">>) = 1
  BY OneRun, RankFacts DEF Heads
<1>5. /\ Ranked(top \o AudioShutdown \o Memory \o <<"flag">>, 0)
      /\ Len(top \o AudioShutdown \o Memory \o <<"flag">>) = 14
  <2>1. Joins(0, 13, 13)
    BY JoinFacts
  <2>2. Ranked(top \o AudioShutdown \o Memory \o <<"flag">>, 0) /\ Len(top \o AudioShutdown \o Memory \o <<"flag">>) = Len(top \o AudioShutdown \o Memory) + Len(<<"flag">>)
    BY <1>3, <1>4, <2>1 DEF Joins
  <2> QED
    BY <1>3, <1>4, <2>2
<1> QED
  BY <1>5 DEF Shutdown, top

-----------------------------------------------------------------------------
(* The stages. *)

LEMMA StageGets ==
    /\ Stages[1].gets = "window" /\ Stages[1].fatal = TRUE
    /\ Stages[2].gets = "psram" /\ Stages[2].fatal = TRUE
    /\ Stages[3].gets = "channel" /\ Stages[3].fatal = TRUE
    /\ Stages[4].gets = "service" /\ Stages[4].fatal = TRUE
    /\ Stages[5].gets = "sink" /\ Stages[5].fatal = FALSE
    /\ Stages[6].gets = "audioThread" /\ Stages[6].fatal = TRUE
    /\ Stages[7].gets = "volume" /\ Stages[7].fatal = TRUE
    /\ Stages[8].gets = "l2" /\ Stages[8].fatal = TRUE
    /\ Stages[9].gets = "vm" /\ Stages[9].fatal = TRUE
    /\ Stages[10].gets = "bridges" /\ Stages[10].fatal = TRUE
    /\ Stages[11].gets = "arbiter" /\ Stages[11].fatal = TRUE
    /\ Stages[12].gets = "media" /\ Stages[12].fatal = TRUE
    /\ Stages[13].gets = "td0" /\ Stages[13].fatal = TRUE
    /\ Stages[14].gets = "cart" /\ Stages[14].fatal = FALSE
    /\ Stages[15].gets = "host" /\ Stages[15].fatal = FALSE
    /\ Stages[16].gets = "audioEcalls" /\ Stages[16].fatal = FALSE
    /\ Stages[17].gets = "shell" /\ Stages[17].fatal = FALSE
    /\ Stages[18].gets = "tcp" /\ Stages[18].fatal = FALSE
    /\ Stages[19].gets = "worker" /\ Stages[19].fatal = FALSE
  BY StageFacts DEF Stage,
        cart_window_init, psram_pool_init, service_channel_init, audio_service_create,
        audio_sink_open, audio_worker_start, mgapi_cart_volume_init, mgapi_l2_init, vm_system_init,
        install_bridges, StartArbiter, install_media, mount_td0, mount_cart, mount_host,
        audio_install_ecalls, load_shell, mgapi_tcp_listen_init, StartWorker

\* How much is down before a failing stage takes the first part down itself.
Level(n) == IF n <= 9 THEN 14 - n ELSE 4

LEMMA FailSysTidy == Tidy(FailSys, 13) /\ Len(FailSys) = 9
<1>1. Ranked(FailSys, 4) /\ Len(FailSys) = 9 /\ 13 - 9 = 4
  BY UndoFacts
<1> QED
  BY <1>1 DEF Tidy

LEMMA StageUndo ==
    ASSUME NEW n \in 1 .. 19, Stages[n].fatal, n # 6
    PROVE  n <= 13 /\ Tidy(Stages[n].undo, 13) /\ 13 - Len(Stages[n].undo) = Level(n)
<1>1. n = 1 \/ n = 2 \/ n = 3 \/ n = 4 \/ n = 7 \/ n = 8 \/ n = 9 \/ n = 10 \/ n = 11 \/ n = 12 \/ n = 13
  BY StageGets
<1>2. CASE n = 1
  BY <1>2, StageFacts, UndoFacts, MemoryRun DEF cart_window_init, Stage, Level, Tidy
<1>3. CASE n = 2
  BY <1>3, StageFacts, UndoFacts, MemoryRun DEF psram_pool_init, Stage, Level, Tidy
<1>4. CASE n = 3
  BY <1>4, StageFacts, UndoFacts, MemoryRun DEF service_channel_init, Stage, Level, Tidy
<1>5. CASE n = 4
  BY <1>5, StageFacts, UndoFacts, MemoryRun DEF audio_service_create, Stage, Level, Tidy
<1>6. CASE n = 7
  BY <1>6, StageFacts, UndoFacts, MemoryRun DEF mgapi_cart_volume_init, Stage, Level, Tidy
<1>7. CASE n = 8
  BY <1>7, StageFacts, UndoFacts, MemoryRun DEF mgapi_l2_init, Stage, Level, Tidy
<1>8. CASE n = 9
  BY <1>8, StageFacts, UndoFacts, MemoryRun DEF vm_system_init, Stage, Level, Tidy
<1>9. CASE n = 10
  <2>1. Stages[n].undo = FailSys
    BY <1>9, StageFacts DEF install_bridges, Stage
  <2>2. n <= 13 /\ Level(n) = 4
    BY <1>9 DEF Level
  <2> QED
    BY <2>1, <2>2, FailSysTidy
<1>10. CASE n = 11
  <2>1. Stages[n].undo = FailSys
    BY <1>10, StageFacts DEF StartArbiter, Stage
  <2>2. n <= 13 /\ Level(n) = 4
    BY <1>10 DEF Level
  <2> QED
    BY <2>1, <2>2, FailSysTidy
<1>11. CASE n = 12
  <2>1. Stages[n].undo = FailSys
    BY <1>11, StageFacts DEF install_media, Stage
  <2>2. n <= 13 /\ Level(n) = 4
    BY <1>11 DEF Level
  <2> QED
    BY <2>1, <2>2, FailSysTidy
<1>12. CASE n = 13
  <2>1. Stages[n].undo = FailSys
    BY <1>12, StageFacts DEF mount_td0, Stage
  <2>2. n <= 13 /\ Level(n) = 4
    BY <1>12 DEF Level
  <2> QED
    BY <2>1, <2>2, FailSysTidy
<1> QED
  BY <1>1, <1>2, <1>3, <1>4, <1>5, <1>6, <1>7, <1>8, <1>9, <1>10, <1>11, <1>12

\* The parts come up against the order they go down in.
LEMMA StageRank ==
    ASSUME NEW i \in 1 .. 19
    PROVE  /\ Stages[i].gets \in (Names \ {"flag"}) \cup Mountable
           /\ i <= 9 => Stages[i].gets \in Names /\ Rank[Stages[i].gets] = 14 - i
           /\ i \in 10 .. 12 => \/ Stages[i].gets = "arbiter"
                                \/ Stages[i].gets \in Names /\ Rank[Stages[i].gets] = 5
           /\ i = 13 => Stages[i].gets = "td0"
<1>1. i \in 1 .. 9 \/ i \in 10 .. 12 \/ i = 13 \/ i \in 14 .. 19
  OBVIOUS
<1>2. CASE i \in 1 .. 9
  <2>1. i = 1 \/ i = 2 \/ i = 3 \/ i = 4 \/ i = 5 \/ i = 6 \/ i = 7 \/ i = 8 \/ i = 9
    BY <1>2
  <2> QED
    BY <2>1, StageGets, RankFacts DEF Names, Heads, PartsOfVm
<1>3. CASE i \in 10 .. 12
  <2>1. i = 10 \/ i = 11 \/ i = 12
    BY <1>3
  <2> QED
    BY <2>1, StageGets, RankFacts DEF Names, Heads, PartsOfVm
<1>4. CASE i = 13
  BY <1>4, StageGets DEF Mountable
<1>5. CASE i \in 14 .. 19
  <2>1. i = 14 \/ i = 15 \/ i = 16 \/ i = 17 \/ i = 18 \/ i = 19
    BY <1>5
  <2> QED
    BY <2>1, StageGets DEF Names, Heads, PartsOfVm, Mountable
<1> QED
  BY <1>1, <1>2, <1>3, <1>4, <1>5

-----------------------------------------------------------------------------
(* The steps. *)

LEMMA RuntimeInitInv == RuntimeInit => RuntimeInv
<1> SUFFICES ASSUME RuntimeInit PROVE RuntimeInv
  OBVIOUS
<1>1. /\ runtimeUp = {} /\ mounts = {} /\ ~g_initialized /\ initStage = 0 /\ releasing = <<>>
      /\ tickPc = "none" /\ audioPc = "none" /\ clock = 0 /\ resetAt = 0 /\ g_initialized \in BOOLEAN
  BY DEF RuntimeInit
<1>2. Listed = 13 /\ Gone = 13 /\ Tidy(releasing, Listed)
  BY <1>1, UndoFacts DEF Listed, Gone, Tidy
<1>3. RunTypes
  BY <1>1, <1>2 DEF RunTypes
<1>4. Starting /\ Threads /\ Held
  BY <1>1 DEF Starting, Threads, Held
<1>5. Standing
  BY <1>1, <1>2, RankFacts DEF Standing
<1> QED
  BY <1>3, <1>4, <1>5 DEF RuntimeInv

\* The list, and how much of it is down.
LEMMA GoneFacts ==
    ASSUME RunTypes
    PROVE  /\ Listed \in {13, 14} /\ (g_initialized <=> Listed = 14)
           /\ Len(releasing) \in 0 .. Listed /\ releasing \in Seq(Heads)
           /\ Gone \in 0 .. 13
           /\ ~g_initialized /\ releasing = <<>> => Gone = 13
           /\ releasing # <<>> => /\ Head(releasing) \in Heads /\ Len(releasing) >= 1
                                  /\ Gone = Listed - Len(releasing)
                                  /\ Rank[Head(releasing)] = Gone + 1
<1>1. Listed \in {13, 14} /\ (g_initialized <=> Listed = 14)
  BY DEF RunTypes, Listed
<1>2. releasing \in Seq(Heads) /\ Len(releasing) <= Listed
      /\ \A i \in 1 .. Len(releasing) : Rank[releasing[i]] = (Listed - Len(releasing)) + i
  BY DEF RunTypes, Tidy, Ranked
<1>3. Len(releasing) \in Nat /\ (releasing = <<>> <=> Len(releasing) = 0)
  BY <1>2, UndoFacts, EmptySeq
<1>4. releasing # <<>> => Head(releasing) \in Heads /\ Len(releasing) >= 1 /\ Head(releasing) = releasing[1]
  BY <1>2, <1>3
<1>5. Gone \in 0 .. 13 /\ (~g_initialized /\ releasing = <<>> => Gone = 13)
  BY <1>1, <1>2, <1>3 DEF Gone
<1>6. releasing # <<>> => Gone = Listed - Len(releasing)
  BY DEF Gone
<1>7. releasing # <<>> => Rank[Head(releasing)] = Gone + 1
  BY <1>1, <1>2, <1>3, <1>4, <1>6
<1> QED
  BY <1>1, <1>2, <1>3, <1>4, <1>5, <1>6, <1>7

\* With no call under way and nothing initialised only the arbiter can be up.
LEMMA DownFacts ==
    ASSUME RuntimeInv, initStage = 0, releasing = <<>>, ~g_initialized
    PROVE  runtimeUp \subseteq {"arbiter"} /\ tickPc = "none" /\ audioPc = "none"
<1>1. Gone = 13
  BY GoneFacts DEF RuntimeInv
<1>2. ASSUME NEW p \in runtimeUp, p # "arbiter" PROVE FALSE
  <2>1. p \in Names /\ p # "flag" /\ Rank[p] > 13
    BY <1>1, <1>2 DEF RuntimeInv, RunTypes, Standing
  <2> QED
    BY <2>1 DEF Rank, Names, Heads, PartsOfVm
<1> QED
  BY <1>1, <1>2 DEF RuntimeInv, Threads

\* Everything but the threads' places, the clock and the counts stays.
LEMMA SameRuntime ==
    ASSUME RunTypes, Starting, Standing,
           UNCHANGED <<runtimeUp, mounts, g_initialized, releasing, initStage>>
    PROVE  /\ Starting' <=> (initStage > 0 => tickPc' = "none")
           /\ Standing' /\ Gone' = Gone /\ Tidy(releasing, Listed)'
<1>1. Gone' = Gone /\ Listed' = Listed
  BY DEF Gone, Listed
<1>2. Tidy(releasing, Listed)'
  BY <1>1 DEF RunTypes, Tidy, Ranked
<1>3. Done(initStage)' <=> Done(initStage)
  BY DEF Done
<1>4. Done(20)' <=> Done(20)
  BY DEF Done
<1> QED
  BY <1>1, <1>2, <1>3, <1>4 DEF Starting, Standing

LEMMA InitCall == ASSUME RuntimeInv, mgapi_init PROVE RuntimeInv'
<1>1. /\ initStage = 0 /\ releasing = <<>>
      /\ UNCHANGED <<runtimeUp, mounts, g_initialized, releasing, tickPc, audioPc, clock,
                     g_reset_t_start_ms, resetAt>>
  BY DEF mgapi_init, EmbedderIdle, threadvars, resetvars
<1>2. Held'
  BY <1>1 DEF RuntimeInv, Held
<1>3. CASE initStage' = initStage
  BY <1>1, <1>2, <1>3, SameRuntime DEF RuntimeInv, RunTypes, Threads
<1>4. CASE ~g_initialized /\ initStage' = 1
  <2>1. runtimeUp \subseteq {"arbiter"} /\ tickPc = "none" /\ audioPc = "none"
    BY <1>1, <1>4, DownFacts
  <2>2. Tidy(releasing, Listed)'
    BY <1>1 DEF RuntimeInv, RunTypes, Tidy, Ranked, Listed
  <2>3. RunTypes'
    BY <1>1, <1>4, <2>2 DEF RuntimeInv, RunTypes
  <2>4. Starting' /\ Standing' /\ Threads'
    BY <1>1, <1>4, <2>1 DEF Starting, Standing, Threads, Done
  <2> QED
    BY <1>2, <2>3, <2>4 DEF RuntimeInv
<1> QED
  BY <1>3, <1>4 DEF mgapi_init

LEMMA ShutdownCall == ASSUME RuntimeInv, mgapi_shutdown PROVE RuntimeInv'
<1>1. /\ initStage = 0 /\ releasing = <<>> /\ g_initialized
      /\ UNCHANGED <<runtimeUp, mounts, g_initialized, initStage, tickPc, audioPc, clock,
                     g_reset_t_start_ms, resetAt>>
  BY DEF mgapi_shutdown, EmbedderIdle, threadvars, resetvars
<1>2. releasing' = Shutdown
  BY DEF mgapi_shutdown, Shutdown
<1>3. Listed' = 14 /\ Gone = 0
  BY <1>1 DEF Listed, Gone
<1>4. Tidy(releasing, Listed)' /\ Len(releasing') = 14
  <2>1. Tidy(Shutdown, 14)
    <3>1. Ranked(Shutdown, 0) /\ Len(Shutdown) = 14 /\ 14 - 14 = 0
      BY ShutdownRun
    <3> QED
      BY <3>1 DEF Tidy
  <2>2. Tidy(releasing, Listed)' = Tidy(Shutdown, 14)
    BY <1>2, <1>3 DEF Tidy, Ranked
  <2> QED
    BY <1>2, <2>1, <2>2, ShutdownRun
<1>5. Gone' = 0 /\ releasing' # <<>>
  <2>1. releasing' # <<>>
    BY <1>4
  <2> QED
    BY <1>3, <1>4, <2>1 DEF Gone
<1>6. RunTypes'
  BY <1>1, <1>4 DEF RuntimeInv, RunTypes
<1>7. Starting' /\ Standing' /\ Threads' /\ Held'
  BY <1>1, <1>3, <1>5 DEF RuntimeInv, Starting, Standing, Threads, Held
<1> QED
  BY <1>6, <1>7 DEF RuntimeInv

\* The names in the core of the runtime, each by the stage that brings it up.
LEMMA CoreStages ==
    /\ Stages[1].gets = "window" /\ Stages[2].gets = "psram" /\ Stages[3].gets = "channel"
    /\ Stages[4].gets = "service" /\ Stages[7].gets = "volume" /\ Stages[8].gets = "l2"
    /\ Stages[9].gets = "vm" /\ Stages[11].gets = "arbiter"
    /\ \A i \in {1, 2, 3, 4, 7, 8, 9, 11} : Stages[i].fatal /\ Stages[i].gets \notin Mountable
  BY StageGets DEF Mountable

LEMMA DoneFacts ==
    ASSUME RunTypes, NEW n \in 1 .. 20, Done(n)
    PROVE  /\ n > 1 => "window" \in runtimeUp
           /\ n > 2 => "psram" \in runtimeUp
           /\ n > 3 => "channel" \in runtimeUp
           /\ n > 4 => "service" \in runtimeUp
           /\ n > 7 => "volume" \in runtimeUp
           /\ n > 8 => "l2" \in runtimeUp
           /\ n > 9 => "vm" \in runtimeUp
           /\ n > 11 => "arbiter" \in runtimeUp
<1>1. ASSUME NEW i \in {1, 2, 3, 4, 7, 8, 9, 11}, i < n
      PROVE  Stages[i].gets \in runtimeUp
  <2>1. Stages[i].fatal /\ Stages[i].gets \notin Mountable /\ i \in 1 .. 19
    BY CoreStages
  <2> QED
    BY <1>1, <2>1 DEF Done, RunTypes
<1> QED
  BY <1>1, CoreStages

\* A stage is over, its part up or passed over.
LEMMA StageStep ==
    ASSUME RuntimeInv, initStage > 0, NEW acquired, acquired \subseteq {Here.gets}, NextStage(acquired),
           Here.fatal => acquired = {Here.gets},
           audioPc' = (IF Here.gets = "audioThread" /\ acquired # {} THEN "top" ELSE audioPc),
           tickPc' = (IF Here.gets = "worker" /\ acquired # {} THEN "idle" ELSE tickPc),
           UNCHANGED resetvars
    PROVE  RuntimeInv'
<1>0. PICK n \in 1 .. 19 : n = initStage
  BY DEF RuntimeInv, RunTypes
<1>1. initStage = n /\ Here = Stages[n] /\ Len(Stages) = 19
  BY <1>0, StageFacts DEF Here
<1>2. /\ releasing = <<>> /\ releasing' = <<>> /\ tickPc = "none" /\ (g_initialized <=> n = 19) /\ Done(n)
      /\ \A p \in runtimeUp : p = "arbiter" \/ \E i \in 1 .. 19 : i < n /\ p = Stages[i].gets
  BY <1>1 DEF RuntimeInv, Starting, NextStage
<1>3. /\ runtimeUp' = runtimeUp \cup (acquired \ Mountable)
      /\ mounts' = mounts \cup (acquired \cap Mountable)
      /\ initStage' = (IF n = 19 THEN 0 ELSE n + 1)
      /\ (g_initialized' <=> n \in {18, 19}) /\ g_initialized' \in BOOLEAN
  <2>1. initStage = 19 <=> initStage = Len(Stages)
    BY <1>1
  <2>2. initStage + 1 = Len(Stages) <=> n = 18
    BY <1>1
  <2>3. g_initialized' = (g_initialized \/ initStage + 1 = Len(Stages))
    BY DEF NextStage
  <2>4. (g_initialized' <=> n \in {18, 19}) /\ g_initialized' \in BOOLEAN
    BY <1>2, <2>2, <2>3
  <2> QED
    BY <1>1, <2>1, <2>4 DEF NextStage
<1>4. Here.gets \in (Names \ {"flag"}) \cup Mountable
  BY <1>1, StageRank
<1>5. Tidy(releasing, Listed)'
  <2>1. Listed' \in {13, 14}
    BY DEF Listed
  <2>2. Ranked(<<>>, Listed' - Len(<<>>)) /\ Len(<<>>) <= Listed'
    BY <2>1, UndoFacts DEF Ranked
  <2> QED
    BY <1>2, <2>2 DEF Tidy, Ranked
<1>6. RunTypes'
  BY <1>1, <1>3, <1>4, <1>5 DEF RuntimeInv, RunTypes
<1>7. Done(n + 1)'
  <2>1. ASSUME NEW i \in 1 .. 19, i < n + 1, Stages[i].fatal
        PROVE  Stages[i].gets \in runtimeUp' \cup mounts'
    <3>1. CASE i < n
      BY <1>2, <1>3, <2>1, <3>1 DEF Done
    <3>2. CASE i = n
      BY <1>1, <1>3, <2>1, <3>2
    <3> QED
      BY <1>1, <2>1, <3>1, <3>2
  <2> QED
    BY <2>1 DEF Done
<1>8. \A p \in runtimeUp' : p = "arbiter" \/ \E i \in 1 .. 19 : i < n + 1 /\ p = Stages[i].gets
  <2>1. ASSUME NEW p \in runtimeUp', p # "arbiter"
        PROVE  \E i \in 1 .. 19 : i < n + 1 /\ p = Stages[i].gets
    <3>1. CASE p \in runtimeUp
      <4>1. PICK i \in 1 .. 19 : i < n /\ p = Stages[i].gets
        BY <1>2, <2>1, <3>1
      <4> QED
        BY <4>1
    <3>2. CASE p = Stages[n].gets
      BY <3>2
    <3>3. p \in runtimeUp \/ p \in acquired
      BY <1>3, <2>1
    <3>4. p \in acquired => p = Stages[n].gets
      BY <1>1
    <3> QED
      BY <3>1, <3>2, <3>3, <3>4
  <2> QED
    BY <2>1
<1>9. Starting'
  <2> SUFFICES ASSUME initStage' > 0 PROVE Starting'
    BY DEF Starting
  <2>1. initStage' = n + 1 /\ n \in 1 .. 18
    BY <1>3
  <2>2. tickPc' = "none"
    <3>1. Stages[n].gets # "worker"
      BY <2>1, StageGets
    <3> QED
      BY <1>1, <1>2, <3>1
  <2>3. Done(initStage)'
    BY <1>7, <2>1 DEF Done
  <2>4. g_initialized' <=> initStage' = 19
    BY <1>3, <2>1
  <2> QED
    BY <1>2, <1>8, <2>1, <2>2, <2>3, <2>4 DEF Starting
<1>10. n = 19 => Gone' = 0
  BY <1>2, <1>3 DEF Gone
<1>11. Standing'
  <2> SUFFICES ASSUME n = 19 PROVE Standing'
    BY <1>1, <1>3 DEF Standing
  <2>1. Done(20)' /\ Gone' = 0
    BY <1>7, <1>10
  <2>2. \A p \in runtimeUp' : Rank[p] > 0
    BY <1>6, RankFacts DEF RunTypes
  <2>3. {"l2", "volume", "service", "channel", "psram", "window", "arbiter", "vm"} \subseteq runtimeUp'
    <3>1. Done(n)
      BY <1>2
    <3>2. {"l2", "volume", "service", "channel", "psram", "window", "arbiter", "vm"} \subseteq runtimeUp
      BY <3>1, <1>1, DoneFacts DEF RuntimeInv
    <3> QED
      BY <1>3, <3>2
  <2> QED
    BY <2>1, <2>2, <2>3 DEF Standing
<1>12. Threads'
  <2>1. n # 19 => tickPc' = "none"
    <3> SUFFICES ASSUME n # 19 PROVE tickPc' = "none"
      OBVIOUS
    <3>1. n \in 1 .. 18
      OBVIOUS
    <3>2. Stages[n].gets # "worker"
      BY <3>1, StageGets
    <3> QED
      BY <1>1, <1>2, <3>2
  <2>2. audioPc' # "none" => n >= 6
    BY <1>1, StageGets DEF RuntimeInv, Threads
  <2>3. audioPc' = "write" => "sink" \in runtimeUp'
    BY <1>3 DEF RuntimeInv, Threads
  <2> QED
    BY <1>1, <1>3, <1>10, <2>1, <2>2, <2>3 DEF Threads
<1>13. Held'
  BY DEF RuntimeInv, Held, resetvars
<1> QED
  BY <1>6, <1>9, <1>11, <1>12, <1>13 DEF RuntimeInv

LEMMA OkInv == ASSUME RuntimeInv, StageOk PROVE RuntimeInv'
<1>1. /\ initStage > 0 /\ NextStage({Here.gets})
      /\ audioPc' = (IF Here.gets = "audioThread" /\ {Here.gets} # {} THEN "top" ELSE audioPc)
      /\ tickPc' = (IF Here.gets = "worker" /\ {Here.gets} # {} THEN "idle" ELSE tickPc)
      /\ UNCHANGED resetvars
  BY DEF StageOk
<1> QED
  BY <1>1, StageStep

LEMMA SkippedInv == ASSUME RuntimeInv, StageSkipped PROVE RuntimeInv'
<1>1. /\ initStage > 0 /\ NextStage({}) /\ UNCHANGED resetvars /\ audioPc' = audioPc /\ tickPc' = tickPc
  BY DEF StageSkipped, threadvars
<1>2. initStage \in 1 .. 19 /\ Here = Stages[initStage]
  BY <1>1 DEF RuntimeInv, RunTypes, Here
<1>3. ~Here.fatal
  <2>1. CASE Here.gets \in {"tcp", "audioEcalls"}
    BY <1>2, <2>1, StageGets
  <2> QED
    BY <2>1 DEF StageSkipped, Skipped
<1>4. {} \subseteq {Here.gets}
  OBVIOUS
<1> QED
  BY <1>1, <1>3, <1>4, StageStep

LEMMA FailInv == ASSUME "audioThread" \notin MayFail, RuntimeInv, StageFails PROVE RuntimeInv'
<1>0. PICK n \in 1 .. 19 : n = initStage
  BY DEF StageFails, RuntimeInv, RunTypes
<1>1. initStage = n /\ Here = Stages[n] /\ Stages[n].fatal
  BY <1>0 DEF StageFails, Here
<1>2. n # 6
  BY <1>1, StageGets DEF StageFails, Refused, RuntimeInv, RunTypes, Mountable
<1>3. /\ releasing' = Stages[n].undo /\ initStage' = 0
      /\ UNCHANGED <<runtimeUp, mounts, g_initialized, tickPc, audioPc, resetvars>>
  BY <1>1 DEF StageFails, threadvars
<1>4. n <= 13 /\ Tidy(Stages[n].undo, 13) /\ 13 - Len(Stages[n].undo) = Level(n)
  BY <1>1, <1>2, StageUndo
<1>5. ~g_initialized /\ tickPc = "none" /\ Done(n)
      /\ \A p \in runtimeUp : p = "arbiter" \/ \E i \in 1 .. 19 : i < n /\ p = Stages[i].gets
  BY <1>1, <1>4 DEF RuntimeInv, Starting
<1>6. Listed' = 13 /\ Gone' = Level(n)
  BY <1>3, <1>4, <1>5 DEF Listed, Gone
<1>7. RunTypes'
  <2>1. Tidy(releasing, Listed)' = Tidy(Stages[n].undo, 13)
    BY <1>3, <1>6 DEF Tidy, Ranked
  <2> QED
    BY <1>3, <1>4, <2>1 DEF RuntimeInv, RunTypes
<1>8. ASSUME NEW p \in runtimeUp, p # "arbiter"
      PROVE  Rank[p] > Level(n)
  <2>1. PICK i \in 1 .. 19 : i < n /\ p = Stages[i].gets
    BY <1>5, <1>8
  <2>2. p \in Names /\ p \notin Mountable
    BY <1>8 DEF RuntimeInv, RunTypes, Names, Heads, PartsOfVm, Mountable
  <2>3. CASE i <= 9
    BY <1>1, <2>1, <2>3, StageRank DEF Level
  <2>4. CASE i > 9
    <3>1. i \in 10 .. 12 /\ Level(n) = 4
      BY <1>1, <1>4, <2>1, <2>4 DEF Level
    <3> QED
      BY <1>8, <2>1, <3>1, StageRank
  <2> QED
    BY <2>3, <2>4
<1>9. Level(n) \in 4 .. 13 /\ (n > 6 => Level(n) < 8)
  BY <1>1 DEF Level
<1>10. \A p \in {"l2", "volume", "service", "channel", "psram", "window"} : Rank[p] > Level(n) => p \in runtimeUp
  <2>1. /\ n > 1 => "window" \in runtimeUp
        /\ n > 2 => "psram" \in runtimeUp
        /\ n > 3 => "channel" \in runtimeUp
        /\ n > 4 => "service" \in runtimeUp
        /\ n > 7 => "volume" \in runtimeUp
        /\ n > 8 => "l2" \in runtimeUp
    BY <1>1, <1>5, DoneFacts DEF RuntimeInv
  <2> QED
    BY <1>1, <2>1, RankFacts DEF Level
<1>11. Standing' /\ Starting'
  <2>1. \A p \in runtimeUp' : p = "arbiter" \/ Rank[p] > Gone'
    BY <1>3, <1>6, <1>8
  <2>2. \A p \in {"l2", "volume", "service", "channel", "psram", "window"} : Rank[p] > Gone' => p \in runtimeUp'
    BY <1>3, <1>6, <1>10
  <2>3. ~(Gone' < 3) /\ ~(Gone' < 4) /\ ~g_initialized'
    BY <1>3, <1>5, <1>6, <1>9
  <2> QED
    BY <1>3, <2>1, <2>2, <2>3 DEF Standing, Starting
<1>12. Threads'
  BY <1>1, <1>3, <1>5, <1>6, <1>9 DEF RuntimeInv, Threads
<1>13. Held'
  BY <1>3 DEF RuntimeInv, Held, resetvars
<1> QED
  BY <1>7, <1>11, <1>12, <1>13 DEF RuntimeInv

LEMMA ReleaseInv == ASSUME RuntimeInv, Release PROVE RuntimeInv'
<1> DEFINE s == Head(releasing)
           taken == IF s = "vm" THEN PartsOfVm ELSE {s}
<1>1. /\ releasing # <<>> /\ MayRelease(s) /\ releasing' = Tail(releasing)
      /\ runtimeUp' = runtimeUp \ taken
      /\ g_initialized' = (g_initialized /\ s # "flag")
      /\ tickPc' = (IF s = "worker" THEN "none" ELSE tickPc)
      /\ audioPc' = (IF s = "audioThread" THEN "none" ELSE audioPc)
      /\ UNCHANGED <<mounts, initStage, resetvars>>
  BY DEF Release
<1>2. initStage = 0
  BY <1>1 DEF RuntimeInv, RunTypes, Starting
<1>3. /\ Listed \in {13, 14} /\ (g_initialized <=> Listed = 14)
      /\ Len(releasing) \in 1 .. Listed /\ releasing \in Seq(Heads)
      /\ s \in Heads /\ Gone = Listed - Len(releasing) /\ Rank[s] = Gone + 1
  BY <1>1, GoneFacts DEF RuntimeInv
<1>4. Len(releasing') = Len(releasing) - 1 /\ releasing' \in Seq(Heads)
      /\ \A i \in 1 .. Len(releasing) - 1 : releasing'[i] = releasing[i + 1]
  BY <1>1, <1>3
<1>5. s = "flag" <=> Gone = 13
  <2>1. s = "flag" <=> Rank[s] = 14
    BY <1>3 DEF Rank, Heads, Names, PartsOfVm
  <2>2. Gone + 1 = 14 <=> Gone = 13
    BY <1>3
  <2> QED
    BY <1>3, <2>1, <2>2
<1>6. s = "flag" => Listed = 14 /\ Len(releasing) = 1
  <2> SUFFICES ASSUME s = "flag" PROVE Listed = 14 /\ Len(releasing) = 1
    OBVIOUS
  <2>1. Listed - Len(releasing) = 13
    BY <1>3, <1>5
  <2>2. Listed # 13
    BY <1>3, <2>1
  <2>3. Listed = 14
    BY <1>3, <2>2
  <2>4. Len(releasing) = 1
    <3>1. \A m \in Int : 14 - m = 13 => m = 1
      OBVIOUS
    <3>2. 14 - Len(releasing) = 13
      BY <2>1, <2>3
    <3>3. Len(releasing) \in Int
      BY <1>3
    <3> QED
      BY <3>1, <3>2, <3>3
  <2> QED
    BY <2>3, <2>4
<1>7. Listed' = (IF s = "flag" THEN 13 ELSE Listed)
  BY <1>1, <1>3, <1>6 DEF Listed
<1>8. Len(releasing') = 0 <=> releasing' = <<>>
  BY <1>4, EmptySeq
<1>16. ~(g_initialized' /\ releasing' = <<>>)
  <2> SUFFICES ASSUME releasing' = <<>>, g_initialized' PROVE FALSE
    OBVIOUS
  <2>1. s # "flag" /\ g_initialized
    BY <1>1
  <2>2. Listed = 14
    BY <1>3, <2>1
  <2>3. Len(releasing') = 0
    BY <1>8
  <2>4. Len(releasing) = 1
    BY <1>3, <1>4, <2>3
  <2>5. Gone = 13
    BY <1>3, <2>2, <2>4
  <2> QED
    BY <1>5, <2>1, <2>5
<1>9. Gone' = (IF s = "flag" THEN 13 ELSE Gone + 1)
  <2>1. CASE s = "flag"
    <3>1. Listed' = 13
      BY <1>7, <2>1
    <3>2. ~g_initialized'
      BY <1>1, <2>1
    <3>3. Len(releasing') = 0
      BY <1>4, <1>6, <2>1
    <3> QED
      BY <2>1, <3>1, <3>2, <3>3 DEF Gone
  <2>2. CASE s # "flag"
    <3>1. Gone < 13
      BY <1>3, <1>5, <2>2
    <3>2. ~(releasing' = <<>> /\ g_initialized')
      BY <1>16
    <3> QED
      BY <1>3, <1>4, <1>7, <2>2, <3>2 DEF Gone
  <2> QED
    BY <2>1, <2>2
<1>10. Tidy(releasing, Listed)'
  <2>1. ASSUME NEW i \in 1 .. Len(releasing')
        PROVE  Rank[releasing'[i]] = (Listed' - Len(releasing')) + i
    <3>1. i + 1 \in 1 .. Len(releasing) /\ releasing'[i] = releasing[i + 1]
      BY <1>3, <1>4, <2>1
    <3>2. Rank[releasing[i + 1]] = (Listed - Len(releasing)) + (i + 1)
      BY <3>1 DEF RuntimeInv, RunTypes, Tidy, Ranked
    <3>3. s # "flag"
      BY <1>4, <1>6, <2>1
    <3> QED
      BY <1>3, <1>4, <1>7, <3>1, <3>2, <3>3
  <2>2. Len(releasing') <= Listed'
    BY <1>3, <1>4, <1>6, <1>7
  <2> QED
    BY <1>4, <2>1, <2>2 DEF Tidy, Ranked
<1>11. RunTypes'
  BY <1>1, <1>10 DEF RuntimeInv, RunTypes
<1>12. ASSUME NEW p \in Names PROVE p \in taken <=> Rank[p] = Gone + 1
  BY <1>3, TakenFacts
<1>13. Standing'
  <2>1. ASSUME NEW p \in runtimeUp', p # "arbiter" PROVE Rank[p] > Gone'
    <3>1. p \in Names /\ p # "flag" /\ p \in runtimeUp /\ p \notin taken
      BY <1>1, <2>1 DEF RuntimeInv, RunTypes
    <3>2. Rank[p] > Gone /\ Rank[p] # Gone + 1 /\ Rank[p] \in 1 .. 14
      BY <1>2, <1>12, <2>1, <3>1, RankFacts DEF RuntimeInv, Standing
    <3> QED
      BY <1>3, <1>5, <1>9, <3>2
  <2>2. ASSUME NEW p \in {"l2", "volume", "service", "channel", "psram", "window"}, Rank[p] > Gone'
        PROVE  p \in runtimeUp'
    <3>1. Rank[p] > Gone /\ Rank[p] # Gone + 1 /\ p \in Names
      BY <1>3, <1>5, <1>9, <2>2, RankFacts DEF Names, Heads
    <3> QED
      BY <1>1, <1>2, <1>12, <2>2, <3>1 DEF RuntimeInv, Standing
  <2>3. Gone' < 3 => "arbiter" \in runtimeUp'
    <3> SUFFICES ASSUME Gone' < 3 PROVE "arbiter" \in runtimeUp'
      OBVIOUS
    <3>1. Gone < 3 /\ Gone + 1 # 3 /\ "arbiter" \in Names
      BY <1>3, <1>9 DEF Names, Heads
    <3> QED
      BY <1>1, <1>2, <1>12, <3>1, RankFacts DEF RuntimeInv, Standing
  <2>4. Gone' < 4 => "vm" \in runtimeUp'
    <3> SUFFICES ASSUME Gone' < 4 PROVE "vm" \in runtimeUp'
      OBVIOUS
    <3>1. Gone < 4 /\ Gone + 1 # 5 /\ "vm" \in Names
      BY <1>3, <1>9 DEF Names, Heads
    <3> QED
      BY <1>1, <1>2, <1>12, <3>1, RankFacts DEF RuntimeInv, Standing
  <2>5. ~(g_initialized' /\ releasing' = <<>>)
    BY <1>16
  <2> QED
    BY <2>1, <2>2, <2>3, <2>4, <2>5 DEF Standing
<1>14. Threads'
  <2>1. tickPc' # "none" => FALSE
    <3>1. tickPc # "none" => Gone = 0
      BY DEF RuntimeInv, Threads
    <3>2. Gone = 0 => s = "worker"
      BY <1>3, RankFacts DEF Rank, Heads, Names, PartsOfVm
    <3> QED
      BY <1>1, <3>1, <3>2
  <2>2. audioPc' # "none" => Gone < 7 /\ audioPc' = audioPc
    <3>1. audioPc # "none" => Gone < 8
      BY <1>2 DEF RuntimeInv, Threads
    <3>2. Gone = 7 => s = "audioThread"
      BY <1>3, RankFacts DEF Rank, Heads, Names, PartsOfVm
    <3> QED
      BY <1>1, <1>3, <3>1, <3>2
  <2>3. audioPc' = "write" => "sink" \in runtimeUp'
    <3> SUFFICES ASSUME audioPc' = "write" PROVE "sink" \in runtimeUp'
      OBVIOUS
    <3>1. Gone < 7 /\ audioPc = "write" /\ "sink" \in runtimeUp
      BY <2>2 DEF RuntimeInv, Threads
    <3>2. "sink" \in Names /\ Rank["sink"] # Gone + 1
      BY <3>1, <1>3, RankFacts DEF Names, Heads
    <3> QED
      BY <1>1, <1>12, <3>1, <3>2
  <2>4. audioPc' # "none" => Gone' < 8
    BY <1>3, <1>5, <1>9, <2>2
  <2> QED
    BY <1>1, <1>2, <2>1, <2>3, <2>4 DEF Threads
<1>15. Starting' /\ Held'
  BY <1>1, <1>2 DEF RuntimeInv, Starting, Held, resetvars
<1> QED
  BY <1>11, <1>13, <1>14, <1>15 DEF RuntimeInv

LEMMA StepCall == ASSUME RuntimeInv, mgapi_step PROVE RuntimeInv'
<1>1. /\ initStage = 0
      /\ UNCHANGED <<runtimeUp, mounts, g_initialized, initStage, releasing, tickPc, audioPc, clock,
                     g_reset_t_start_ms, resetAt>>
  BY DEF mgapi_step, EmbedderIdle, resetvars
<1> QED
  BY <1>1, SameRuntime DEF RuntimeInv, RunTypes, Threads, Held

LEMMA TickPlaces ==
    /\ TickOrder = <<"tcp", "arbiter", "fmv", "vm">> /\ Head(TickOrder) = "tcp"
    /\ \A pc \in {"tcp", "arbiter", "fmv", "vm"} : NextTick(pc) \in {"idle", "tcp", "arbiter", "fmv", "vm"}
<1>1. /\ TickOrder = <<"tcp", "arbiter", "fmv", "vm">> /\ Len(TickOrder) = 4 /\ Head(TickOrder) = "tcp"
      /\ TickOrder[1] = "tcp" /\ TickOrder[2] = "arbiter" /\ TickOrder[3] = "fmv" /\ TickOrder[4] = "vm"
  BY DEF TickOrder
<1>2. ASSUME NEW pc \in {"tcp", "arbiter", "fmv", "vm"}
      PROVE  NextTick(pc) \in {"idle", "tcp", "arbiter", "fmv", "vm"}
  <2> DEFINE i == CHOOSE n \in 1 .. Len(TickOrder) : TickOrder[n] = pc
  <2>1. \E n \in 1 .. Len(TickOrder) : TickOrder[n] = pc
    BY <1>1
  <2>2. i \in 1 .. Len(TickOrder)
    BY <2>1
  <2>3. NextTick(pc) = IF i = Len(TickOrder) THEN "idle" ELSE TickOrder[i + 1]
    BY DEF NextTick
  <2> HIDE DEF i
  <2>4. i = 1 \/ i = 2 \/ i = 3 \/ i = 4
    BY <1>1, <2>2
  <2> QED
    BY <1>1, <2>3, <2>4
<1> QED
  BY <1>1, <1>2

LEMMA TickInv == ASSUME RuntimeInv, mgapi_step_body PROVE RuntimeInv'
<1>1. UNCHANGED <<runtimeUp, mounts, g_initialized, initStage, releasing, audioPc, clock,
                  g_reset_t_start_ms, resetAt>>
  BY DEF mgapi_step_body, resetvars
<1>2. tickPc # "none" /\ tickPc' \in {"idle", "tcp", "arbiter", "fmv", "vm"}
  BY TickPlaces DEF mgapi_step_body, RuntimeInv, RunTypes
<1>3. initStage = 0 /\ Gone = 0
  BY <1>2 DEF RuntimeInv, Threads
<1> QED
  BY <1>1, <1>2, <1>3, SameRuntime DEF RuntimeInv, RunTypes, Threads, Held

LEMMA AudioInv == ASSUME RuntimeInv, audio_worker_body PROVE RuntimeInv'
<1>1. UNCHANGED <<runtimeUp, mounts, g_initialized, initStage, releasing, tickPc, clock,
                  g_reset_t_start_ms, resetAt>>
  BY DEF audio_worker_body, resetvars
<1>2. /\ audioPc # "none"
      /\ audioPc' \in {"top", "process", "render", "write", "wait", "ended"}
      /\ audioPc' = "write" => "sink" \in runtimeUp
  BY DEF audio_worker_body
<1> QED
  BY <1>1, <1>2, SameRuntime DEF RuntimeInv, RunTypes, Starting, Threads, Held

LEMMA ProbeInv == ASSUME RuntimeInv, mgapi_dev_spawn_elf_and_wait PROVE RuntimeInv'
<1>1. UNCHANGED <<runtimeUp, mounts, g_initialized, initStage, releasing, tickPc, audioPc, clock,
                  g_reset_t_start_ms, resetAt>>
  BY DEF mgapi_dev_spawn_elf_and_wait, resetvars
<1> QED
  BY <1>1, SameRuntime DEF RuntimeInv, RunTypes, Starting, Threads, Held

LEMMA ClockSteps == ASSUME RuntimeInv, mgapi_cart_reset_begin \/ Millisecond PROVE RuntimeInv'
<1>1. UNCHANGED <<runtimeUp, mounts, g_initialized, initStage, releasing, tickPc, audioPc>>
  BY DEF mgapi_cart_reset_begin, Millisecond, threadvars
<1>2. Held'
  BY DEF RuntimeInv, Held, mgapi_cart_reset_begin, Millisecond, ClockMs
<1> QED
  BY <1>1, <1>2, SameRuntime DEF RuntimeInv, RunTypes, Starting, Threads

LEMMA RuntimeStep ==
    ASSUME "audioThread" \notin MayFail, RuntimeInv, [RuntimeNext]_runtimevars
    PROVE  RuntimeInv'
<1>1. CASE UNCHANGED runtimevars
  BY <1>1, SameRuntime DEF RuntimeInv, RunTypes, Starting, Threads, Held, runtimevars
<1> QED
  BY <1>1, InitCall, OkInv, SkippedInv, FailInv, ShutdownCall, ReleaseInv, StepCall, TickInv, AudioInv,
     ProbeInv, ClockSteps DEF RuntimeNext

-----------------------------------------------------------------------------
(* What the invariant gives. *)

LEMMA UsesLive == ASSUME RuntimeInv PROVE ThreadsUseLive
<1>1. ASSUME releasing # <<>> PROVE ReleaseUses(Head(releasing)) \subseteq runtimeUp
  <2> DEFINE s == Head(releasing)
  <2>1. initStage = 0 /\ s \in Heads /\ Rank[s] = Gone + 1 /\ Gone \in 0 .. 13
    BY <1>1, GoneFacts DEF RuntimeInv, RunTypes, Starting
  <2>2. CASE s = "fmv"
    <3>1. Gone = 1
      BY <2>1, <2>2, RankFacts
    <3>2. {"arbiter", "window", "service"} \subseteq runtimeUp
      BY <2>1, <3>1, RankFacts DEF RuntimeInv, Standing
    <3> QED
      BY <2>2, <3>2 DEF ReleaseUses
  <2>3. CASE s = "vm"
    <3>1. Gone = 4
      BY <2>1, <2>3, RankFacts
    <3>2. {"window", "channel"} \subseteq runtimeUp
      BY <2>1, <3>1, RankFacts DEF RuntimeInv, Standing
    <3> QED
      BY <2>3, <3>2 DEF ReleaseUses
  <2> QED
    BY <2>2, <2>3 DEF ReleaseUses
<1>2. ASSUME tickPc \notin {"none", "idle"} PROVE TickUses[tickPc] \subseteq runtimeUp
  <2>1. initStage = 0 /\ Gone = 0
    BY <1>2 DEF RuntimeInv, Threads
  <2>2. {"l2", "volume", "service", "channel", "psram", "window", "arbiter", "vm"} \subseteq runtimeUp
    BY <2>1, RankFacts DEF RuntimeInv, Standing
  <2>3. tickPc \in {"tcp", "arbiter", "fmv", "vm"}
    BY <1>2 DEF RuntimeInv, RunTypes
  <2> QED
    BY <2>2, <2>3 DEF TickUses
<1>3. ASSUME audioPc \notin {"none", "top", "ended"} PROVE AudioUses[audioPc] \subseteq runtimeUp
  <2>1. {"service", "channel", "psram"} \subseteq runtimeUp
    <3>1. CASE initStage > 6
      <4>1. initStage \in 1 .. 20 /\ Done(initStage) /\ RunTypes
        BY <3>1 DEF RuntimeInv, RunTypes, Starting
      <4> QED
        BY <3>1, <4>1, DoneFacts
    <3>2. CASE initStage = 0 /\ Gone < 8
      BY <3>2, GoneFacts, RankFacts DEF RuntimeInv, Standing
    <3> QED
      BY <1>3, <3>1, <3>2 DEF RuntimeInv, Threads
  <2>2. audioPc \in {"process", "render", "write", "wait"} /\ (audioPc = "write" => "sink" \in runtimeUp)
    BY <1>3 DEF RuntimeInv, RunTypes, Threads
  <2> QED
    BY <2>1, <2>2 DEF AudioUses
<1> QED
  BY <1>1, <1>2, <1>3 DEF ThreadsUseLive

LEMMA WholeOrNothing == ASSUME RuntimeInv PROVE AllOrNothing
<1> SUFFICES ASSUME initStage = 0, releasing = <<>> PROVE
        IF g_initialized
        THEN \A i \in DOMAIN Stages : Stages[i].fatal => Stages[i].gets \in runtimeUp \cup mounts
        ELSE runtimeUp \subseteq {"arbiter"} /\ tickPc = "none" /\ audioPc = "none"
  BY DEF AllOrNothing
<1>1. CASE g_initialized
  <2>1. Done(20)
    BY <1>1 DEF RuntimeInv, Standing
  <2>2. DOMAIN Stages = 1 .. 19
    BY DEF Stages
  <2> QED
    BY <1>1, <2>1, <2>2 DEF Done
<1>2. CASE ~g_initialized
  BY <1>2, DownFacts
<1> QED
  BY <1>1, <1>2

-----------------------------------------------------------------------------
(* The millisecond clock. *)

LEMMA MsType == 2^MsBits \in Nat \ {0}
  BY RuntimeAssumption

\* The difference of two readings of a clock of M values is the time that passed, modulo M.
LEMMA LapsMod ==
    ASSUME NEW M \in Nat \ {0}, NEW a \in Int, NEW b \in Int
    PROVE  ((a % M) - (b % M)) % M = (a - b) % M
<1>1. PICK q \in Int : (a % M) \in 0 .. M - 1 /\ a = (M * q) + (a % M)
  BY ModParts
<1>2. PICK p \in Int : (b % M) \in 0 .. M - 1 /\ b = (M * p) + (b % M)
  BY ModParts
<1>3. a - b \in Int
  OBVIOUS
<1>4. PICK e \in Int : ((a - b) % M) \in 0 .. M - 1 /\ a - b = (M * e) + ((a - b) % M)
  BY <1>3, ModParts
<1> DEFINE r == a % M
           t == b % M
           f == (a - b) % M
<1>5. r \in Int /\ t \in Int /\ f \in 0 .. M - 1 /\ a = (M * q) + r /\ b = (M * p) + t /\ a - b = (M * e) + f
  BY <1>1, <1>2, <1>4
<1> HIDE DEF r, t, f
<1>6. r - t = (M * ((e - q) + p)) + f
  BY <1>5
<1>7. (r - t) % M = f
  BY <1>5, <1>6, ModUnique
<1> QED
  BY <1>7 DEF r, t, f

\* The time that passed is its own remainder until the clock has gone round.
LEMMA LapsNear ==
    ASSUME NEW M \in Nat \ {0}, NEW h \in Nat
    PROVE  h % M \in Nat /\ h % M <= h /\ (h < M => h % M = h)
<1>1. PICK q \in Int : (h % M) \in 0 .. M - 1 /\ h = (M * q) + (h % M)
  <2>1. h \in Int
    OBVIOUS
  <2> QED
    BY <2>1, ModParts
<1> DEFINE r == h % M
<1>2. r \in 0 .. M - 1 /\ h = (M * q) + r
  BY <1>1
<1> HIDE DEF r
<1>3. q >= 0
  BY <1>2
<1>4. M * q >= 0
  BY <1>3
<1>5. r <= h
  BY <1>2, <1>4
<1>6. h < M => h % M = h
  <2> SUFFICES ASSUME h < M PROVE h % M = h
    OBVIOUS
  <2>1. h \in 0 .. M - 1 /\ h = (M * 0) + h
    OBVIOUS
  <2> QED
    BY <2>1, ModUnique
<1> QED
  BY <1>1, <1>5, <1>6 DEF r

LEMMA HeldLongEnough == ASSUME RuntimeInv PROVE ResetHeld
<1> SUFFICES ASSUME g_initialized, resetAt > 0
             PROVE  LET held == clock - (resetAt - 1) IN
                    /\ mgapi_cart_reset_ready => held >= HoldMs
                    /\ (held >= HoldMs /\ held < 2^MsBits) => mgapi_cart_reset_ready
  BY DEF ResetHeld
<1> DEFINE M == 2^MsBits
           held == clock - (resetAt - 1)
<1>1. M \in Nat \ {0} /\ HoldMs \in Nat
  BY MsType, RuntimeAssumption
<1>2. clock \in Int /\ resetAt - 1 \in Int /\ held \in Nat /\ g_reset_t_start_ms = (resetAt - 1) % M
  BY DEF RuntimeInv, Held
<1>3. mgapi_cart_reset_ready <=> ((clock % M) - ((resetAt - 1) % M)) % M >= HoldMs
  BY <1>2 DEF mgapi_cart_reset_ready, ClockMs
<1> HIDE DEF M
<1>4. ((clock % M) - ((resetAt - 1) % M)) % M = held % M
  BY <1>1, <1>2, LapsMod
<1>5. held % M \in Nat /\ held % M <= held /\ (held < M => held % M = held)
  BY <1>1, <1>2, LapsNear
<1>6. /\ mgapi_cart_reset_ready => held >= HoldMs
      /\ held >= HoldMs /\ held < M => mgapi_cart_reset_ready
  BY <1>1, <1>2, <1>3, <1>4, <1>5
<1> QED
  BY <1>6 DEF M

LEMMA RuntimeInvExact == RuntimeInv => RuntimeExact
  BY UsesLive, WholeOrNothing, HeldLongEnough DEF RuntimeExact

\* However the stages of mgapi_init fail and whenever the threads move, no thread touches a part
\* of the runtime that is down, a call leaves all of it up or none, and a reset is held long enough;
\* if the audio thread can be started (a sink outlives its failure, AudioRolledBack).
THEOREM RuntimeStaysExact ==
    ASSUME "audioThread" \notin MayFail
    PROVE  RuntimeInit /\ [][RuntimeNext]_runtimevars => []RuntimeExact
<1>1. RuntimeInv /\ [RuntimeNext]_runtimevars => RuntimeInv'
  BY RuntimeStep
<1> QED
  BY <1>1, RuntimeInitInv, RuntimeInvExact, PTL

-----------------------------------------------------------------------------
(* The run: one part moves, the others are where they began. *)

LEMMA HandoffsInit == FramesInit => RuntimeInv /\ PreInv
  BY RuntimeInitInv, PreInitInv DEF FramesInit

LEMMA HandoffsStep ==
    ASSUME "audioThread" \notin MayFail, RuntimeInv, PreInv, [FramesNext]_allvars
    PROVE  RuntimeInv' /\ PreInv'
<1>1. [RuntimeNext]_runtimevars /\ [PreNext]_prevars
  BY DEF FramesNext, allvars
<1> QED
  BY <1>1, RuntimeStep, PreNextInv

\* In the run too no thread touches a part of the runtime that is down, and the pre-emptive
\* scheduler is over only when every body is; if the audio thread can be started.
THEOREM HandoffsStayExact ==
    ASSUME "audioThread" \notin MayFail
    PROVE  FramesSpec => []HandoffsExact
<1>1. RuntimeInv /\ PreInv /\ [FramesNext]_allvars => RuntimeInv' /\ PreInv'
  BY HandoffsStep
<1>2. RuntimeInv /\ PreInv => HandoffsExact
  BY RuntimeInvExact, PreInvComplete DEF HandoffsExact
<1> QED
  BY <1>1, <1>2, HandoffsInit, PTL DEF FramesSpec
=============================================================================
