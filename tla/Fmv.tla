--------------------------------- MODULE Fmv ---------------------------------
(***************************************************************************)
(* Full-motion video (mgapi/fmv_player.c, fmv_video_stream.c,              *)
(* fmv_ecalls.c, audio/audio_ring_stream.c): a clip's frames go through a  *)
(* slot of the stream arbiter, filled by the worker thread and consumed by *)
(* the hooks the SNES kernel's reads of the cart window run on the         *)
(* emulator thread.  Its audio goes through a ring of its own to a music   *)
(* voice.  What a frame holds (tiles, palettes, sprite overlay) is its     *)
(* number here.                                                            *)
(***************************************************************************)
EXTENDS StreamArbiter

CONSTANTS Clips,        \* the descriptors that are clips
          SubFrames,    \* sub-frames a frame is shown in
          Preroll,      \* frames the video is held while the audio pipe fills
          AudioCap,     \* capacity of the audio ring, in audio blocks
          MaxPlays,     \* bound on SYS_FMV_PLAY
          Settled       \* a teardown or a start finds no hook of the emulator thread in flight

ASSUME FmvAssumption == /\ Clips \subseteq Fds /\ Settled \in BOOLEAN
                        /\ SubFrames \in Nat \ {0} /\ Preroll \in Nat
                        /\ AudioCap \in Nat /\ MaxPlays \in Nat

VARIABLES player,       \* what fmv_player.c keeps
          kernel,       \* the emulator thread: where the hook is, and what it loaded
          worker,       \* the worker thread: "tick", "fmv" or "guest"
          audio         \* the audio ring: [q, heard, open]; a block is <<clip, number>>

fmvvars == <<slots, fpos, rotation, tick, guest, player, kernel, worker, audio>>
arbiter == <<slots, fpos, rotation, tick, guest>>

NoFrame == -1
Stopped == [active |-> FALSE, state |-> "idle", h |-> NoHandle, fd |-> NoFd, kicked |-> FALSE, sf |-> 0,
            cur |-> NoFrame, started |-> FALSE, preroll |-> 0, voice |-> FALSE, stopPending |-> FALSE,
            plays |-> 0]

FmvInit ==
    /\ stream_arbiter_init
    /\ player = Stopped
    /\ kernel = [pc |-> "idle", ready |-> FALSE, avail |-> 0]
    /\ worker = "tick"
    /\ audio = [q |-> <<>>, heard |-> <<>>, open |-> FALSE]

-----------------------------------------------------------------------------
(* The worker thread. *)

\* Each unit read carries a block of audio, pushed as far as the ring has room.
fmv_video_fill ==
    audio' = IF slots[At].fd \in Clips /\ tick'.scratch # <<>> /\ tick.scratch = <<>> /\ Len(audio.q) < AudioCap
             THEN [audio EXCEPT !.q = Append(@, <<slots[At].fd, tick'.scratch[1]>>)] ELSE audio

WorkerTick ==
    /\ worker = "tick"
    /\ stream_arbiter_tick /\ fmv_video_fill
    /\ worker' = IF tick'.at = MaxStreams THEN "fmv" ELSE "tick"
    /\ UNCHANGED <<player, kernel>>

\* Voice, stream slot, DMA engine and descriptor are given back.
Finalized(p) == [p EXCEPT !.h = NoHandle, !.fd = NoFd, !.kicked = FALSE, !.sf = 0, !.started = FALSE,
                          !.preroll = 0, !.voice = FALSE, !.state = "idle"]
fmv_player_finalize ==
    /\ slots' = stream_arbiter_unregister(slots, player.h)
    /\ audio' = [audio EXCEPT !.open = FALSE]

CanFinalize == Settled => kernel.pc = "idle"

fmv_player_tick ==
    /\ worker = "fmv"
    /\ worker' = "guest"
    /\ IF player.stopPending
       THEN /\ CanFinalize
            /\ fmv_player_finalize
            /\ player' = [Finalized(player) EXCEPT !.stopPending = FALSE]
       ELSE UNCHANGED <<slots, audio, player>>
    /\ UNCHANGED <<fpos, rotation, tick, guest, kernel>>

\* The guest hands in a descriptor it has just opened.  A clip that is still playing is torn
\* down first; a stop still pending is forgotten.
fmv_player_start(fd) ==
    /\ worker = "guest"
    /\ player.plays < MaxPlays
    /\ CanFinalize
    /\ \A h \in Handles : slots[h].in_use => slots[h].fd # fd
    /\ LET s == IF player.active THEN stream_arbiter_unregister(slots, player.h) ELSE slots
           free == {h \in Handles : ~s[h].in_use}
       IN /\ free # {} /\ FileLen[fd] > 0
          /\ LET h == CHOOSE h \in free : \A k \in free : h <= k
             IN /\ slots' = [s EXCEPT ![h] = [Unused EXCEPT !.in_use = TRUE, !.fd = fd]]
                /\ player' = [Finalized(player) EXCEPT !.active = TRUE, !.state = "playing", !.h = h, !.fd = fd,
                                !.cur = NoFrame, !.stopPending = FALSE, !.plays = @ + 1]
    /\ fpos' = [fpos EXCEPT ![fd] = 0]
    /\ audio' = [q |-> <<>>, heard |-> <<>>, open |-> FALSE]
    /\ UNCHANGED <<rotation, tick, guest, kernel, worker>>

fmv_player_stop ==
    /\ worker = "guest"
    /\ player.active
    /\ player' = [player EXCEPT !.active = FALSE, !.stopPending = TRUE]
    /\ kernel' = [kernel EXCEPT !.ready = FALSE]
    /\ UNCHANGED <<arbiter, worker, audio>>

GuestYields == worker = "guest" /\ worker' = "tick" /\ UNCHANGED <<arbiter, player, kernel, audio>>

-----------------------------------------------------------------------------
(* The emulator thread: the kernel reads FRAME_READY at every NMI and FRAME_DONE when it has *)
(* burst a sub-frame.                                                                         *)

Hook(from, to) == kernel.pc = from /\ kernel' = [kernel EXCEPT !.pc = to]
Return(from, ready) == kernel.pc = from /\ kernel' = [pc |-> "idle", ready |-> ready, avail |-> 0]

ReadReady ==
    /\ kernel.pc = "idle"
    /\ player.active
    /\ kernel' = [kernel EXCEPT !.pc = "ready"]
    /\ UNCHANGED <<arbiter, player, worker, audio>>

\* The voice is opened once there is audio; the video is then held for Preroll frames.
ReadyPreroll ==
    /\ \/ player.state = "eof" /\ Return("ready", FALSE) /\ UNCHANGED <<player, audio>>
       \/ player.state # "eof" /\ player.kicked /\ Return("ready", TRUE) /\ UNCHANGED <<player, audio>>
       \/ /\ player.state # "eof" /\ ~player.kicked /\ ~player.started
          /\ Return("ready", FALSE)
          /\ IF chunks_available(player.h) < 1 /\ ~(is_eof_latched(player.h) /\ is_eof_empty(player.h))
             THEN UNCHANGED <<player, audio>>
             ELSE \E opened \in BOOLEAN :
                     /\ player' = [player EXCEPT !.started = TRUE, !.voice = opened,
                                                 !.preroll = IF opened THEN Preroll ELSE 0]
                     /\ audio' = [audio EXCEPT !.open = opened]
       \/ /\ player.state # "eof" /\ ~player.kicked /\ player.started /\ player.preroll > 0
          /\ Return("ready", FALSE)
          /\ player' = [player EXCEPT !.preroll = @ - 1]
          /\ UNCHANGED audio
    /\ UNCHANGED <<arbiter, worker>>

\* fmv_player_try_kickoff: the ring's level, the two loads of is_eof, and the pop are four
\* accesses, between which the worker runs.
KickAvail ==
    /\ kernel.pc = "ready" /\ player.state # "eof" /\ ~player.kicked /\ player.started /\ player.preroll = 0
    /\ LET a == chunks_available(player.h)
       IN kernel' = [kernel EXCEPT !.pc = IF a < 2 THEN "kickEof" ELSE "kickPop", !.avail = a]
    /\ UNCHANGED <<arbiter, player, worker, audio>>

KickEof ==
    /\ \/ is_eof_latched(player.h) /\ Hook("kickEof", "kickEmpty")
       \/ ~is_eof_latched(player.h) /\ Return("kickEof", FALSE)
    /\ UNCHANGED <<arbiter, player, worker, audio>>
KickEmpty ==
    /\ \/ is_eof_empty(player.h) /\ kernel.avail > 0 /\ Hook("kickEmpty", "kickPop")
       \/ ~(is_eof_empty(player.h) /\ kernel.avail > 0) /\ Return("kickEmpty", FALSE)
    /\ UNCHANGED <<arbiter, player, worker, audio>>

\* The popped frame is loaded into the window and its first sub-frame armed.
Popped(h) == slots' = [slots EXCEPT ![h].ring = Tail(@)]
promote_current == [player EXCEPT !.cur = Head(slots[player.h].ring), !.sf = 0, !.kicked = TRUE]

KickPop ==
    /\ kernel.pc = "kickPop"
    /\ IF slot_for(player.h) /\ slots[player.h].ring # <<>>
       THEN Popped(player.h) /\ player' = promote_current /\ Return("kickPop", TRUE)
       ELSE UNCHANGED <<slots, player>> /\ Return("kickPop", FALSE)
    /\ UNCHANGED <<fpos, rotation, tick, guest, worker, audio>>

FrameDone ==
    /\ kernel.pc = "idle" /\ kernel.ready /\ player.active
    /\ \/ ~player.kicked /\ kernel' = [kernel EXCEPT !.ready = FALSE] /\ UNCHANGED player
       \/ /\ player.kicked /\ player.sf + 1 < SubFrames
          /\ player' = [player EXCEPT !.sf = @ + 1]
          /\ UNCHANGED kernel
       \/ player.kicked /\ player.sf + 1 >= SubFrames /\ Hook("idle", "donePop") /\ UNCHANGED player
    /\ UNCHANGED <<arbiter, worker, audio>>

DonePop ==
    /\ IF slot_for(player.h) /\ slots[player.h].ring # <<>>
       THEN Popped(player.h) /\ player' = promote_current /\ Return("donePop", TRUE)
       ELSE UNCHANGED <<slots, player>> /\ Hook("donePop", "doneEof")
    /\ UNCHANGED <<fpos, rotation, tick, guest, worker, audio>>

\* Behind: the current frame is shown again.
Repromote(pc) == player' = [player EXCEPT !.sf = 0] /\ Return(pc, TRUE)
\* Mutant: the hook does not ask whether the stream is over.
DoneEof_Repeats ==
    kernel.pc = "doneEof" /\ Repromote("doneEof") /\ UNCHANGED <<arbiter, worker, audio>>
DoneEof ==
    /\ \/ is_eof_latched(player.h) /\ Hook("doneEof", "doneEmpty") /\ UNCHANGED player
       \/ ~is_eof_latched(player.h) /\ kernel.pc = "doneEof" /\ Repromote("doneEof")
    /\ UNCHANGED <<arbiter, worker, audio>>
DoneEmpty ==
    /\ kernel.pc = "doneEmpty"
    /\ IF is_eof_empty(player.h)
       THEN player' = [player EXCEPT !.state = "eof"] /\ Return("doneEmpty", FALSE)
       ELSE Repromote("doneEmpty")
    /\ UNCHANGED <<arbiter, worker, audio>>

-----------------------------------------------------------------------------
\* audio_ring_stream_read on the audio thread: a block, or silence while the producer is behind.
VoiceRead ==
    /\ audio.open /\ audio.q # <<>>
    /\ audio' = [audio EXCEPT !.q = Tail(@), !.heard = <<Head(audio.q)>>]
    /\ UNCHANGED <<arbiter, player, kernel, worker>>

HookStep == ReadyPreroll \/ KickAvail \/ KickEof \/ KickEmpty \/ KickPop \/ DonePop \/ DoneEof \/ DoneEmpty

FmvNext ==
    \/ WorkerTick \/ fmv_player_tick \/ GuestYields
    \/ \E fd \in Clips : fmv_player_start(fd)
    \/ fmv_player_stop
    \/ ReadReady \/ FrameDone \/ HookStep \/ VoiceRead

\* Each thread keeps running: the worker's ticks and its guests come round, the console keeps
\* reading the window and the hooks return.
FmvFairness ==
    /\ WF_fmvvars(WorkerTick) /\ WF_fmvvars(fmv_player_tick) /\ WF_fmvvars(GuestYields)
    /\ WF_fmvvars(HookStep) /\ SF_fmvvars(ReadReady) /\ SF_fmvvars(FrameDone)

-----------------------------------------------------------------------------
Held(h) == IF tick.at < MaxStreams /\ At = h /\ slots[h].in_use THEN tick.scratch ELSE <<>>

\* A clip is shown frame by frame in order: what is on screen, what is in the ring and what the
\* producer holds are consecutive frames up to the file position; the player reports the end
\* only after the last frame; and the audio heard never runs backwards or ahead of what was
\* read. The two loads of is_eof and the pop before them are separate steps.
ClipExact ==
    /\ player.active /\ player.kicked /\ slot_for(player.h) =>
         LET all == <<player.cur>> \o slots[player.h].ring \o Held(player.h)
         IN all = Run(player.cur, fpos[player.fd] - 1)
    /\ player.active /\ player.state = "eof" => player.cur = FileLen[player.fd] - 1
    /\ LET all == audio.heard \o audio.q
       IN \A i, j \in 1 .. Len(all) : i < j /\ all[i][1] = all[j][1] => all[i][2] < all[j][2]

\* A clip of two frames or more that is started is shown to its end, unless it is stopped.
ClipEnds == (player.active /\ player.state = "playing" /\ FileLen[player.fd] >= 2)
                ~> (player.state = "eof" \/ ~player.active)

\* As ClipEnds for every clip. fmv_player.c says of fmv_player_try_kickoff that a short clip
\* "kicks with whatever it managed to buffer"; is_eof is false while that frame is in the ring.
ShortClipEnds == (player.active /\ player.state = "playing") ~> (player.state = "eof" \/ ~player.active)

\* No hook is inside the stream's storage when it is freed (fmv_player_tick: "no FRAME_DONE
\* consumer can be in flight").
HooksSeeLiveStream == kernel.pc \in {"kickPop", "donePop"} => slot_for(player.h)

\* Every slot in use belongs to the player or to the guest, and one clip is heard at a time.
SlotsOwned == \A h \in Handles : slots[h].in_use => h \in {player.h, guest.h}
OneClipHeard == player.active => \A i \in 1 .. Len(audio.q) : audio.q[i][1] = player.fd
=============================================================================
