---------------------------- MODULE MusicPlayer ----------------------------
(***************************************************************************)
(* src/src/audio/music_player.c: an intro that gives way to a loop, each   *)
(* segment starting with a pinned head and going on through a streaming    *)
(* buffer into the ring of a mixer channel.                                *)
(*                                                                         *)
(* A sample is <<segment, index>>. The source is a file or a pool object   *)
(* (audio_file_stream_read, audio_pool_stream_read): it serves any offset. *)
(* The player is one value mp; music_update folds its two rounds over it.  *)
(***************************************************************************)
EXTENDS Integers, Sequences, SequencesExt, FiniteSetsExt

CONSTANTS SegLen,        \* [{"intro", "loop"} -> samples]; 0: not configured
          StreamFrames,  \* streaming_buffer_samples
          HeadFrames,    \* intro_head_samples and loop_head_samples
          RingFrames,    \* mixer_channel_capacity
          MaxFill        \* max_channel_fill_samples, 0 for none

ASSUME PlayerAssumption ==
    /\ StreamFrames \in Nat \ {0} /\ RingFrames \in Nat \ {0} /\ MaxFill \in Nat
    /\ HeadFrames \in 0 .. StreamFrames
    /\ DOMAIN SegLen = {"intro", "loop"} /\ \E s \in DOMAIN SegLen : SegLen[s] > 0

VARIABLES mp,      \* [state, segment, offset, pinned, buf, ring]
          running  \* the mixer channel is active

mpvars == <<mp, running>>

Heard == <<"none", 0>>

\* Ghosts in mp: covered, what the current pass of the segment has pushed;
\* partial, a pass ended early; order, the last push broke the order; over, an
\* unplayed sample was overwritten.
Idle == [state |-> "stopped", segment |-> "none", offset |-> 0, pinned |-> 0,
         buf |-> <<>>, ring |-> <<>>, last |-> Heard,
         covered |-> {}, partial |-> FALSE, order |-> TRUE, over |-> FALSE]

PlayerInit == mp = Idle /\ running = FALSE

Samples(seg, from, to) == [k \in 1 .. to - from |-> <<seg, from + k - 1>>]

\* audio_file_stream_read and audio_pool_stream_read.
stream_fn(seg, offset, n) ==
    Samples(seg, offset, IF offset >= SegLen[seg] THEN offset ELSE Min({offset + n, SegLen[seg]}))

\* Mutant: the new segment is read from where the old one ended.
enter_segment_KeepOffset(m, seg) ==
    [m EXCEPT !.segment = seg, !.buf = <<>>, !.pinned = HeadFrames,
              !.partial = @ \/ (m.segment # "none" /\ m.covered # 0 .. SegLen[m.segment] - 1),
              !.covered = {}]

enter_segment(m, seg) ==
    [m EXCEPT !.segment = seg, !.offset = 0, !.buf = <<>>, !.pinned = HeadFrames,
              !.partial = @ \/ (m.segment # "none" /\ m.covered # 0 .. SegLen[m.segment] - 1),
              !.covered = {}]

Follows(a, b) ==
    \/ a = Heard
    \/ b[1] = a[1] /\ b[2] = a[2] + 1
    \/ a[2] = SegLen[a[1]] - 1 /\ b = <<"loop", 0>>

\* push_to_mixer: mixer_write_channel takes everything, over the oldest if full.
push_to_mixer(m, s) ==
    LET all == m.ring \o s
        run == <<m.last>> \o s
        drop == Max({0, Len(all) - RingFrames})
    IN  [m EXCEPT !.ring = SubSeq(all, drop + 1, Len(all)),
                  !.last = Last(run),
                  !.covered = @ \cup {s[k][2] : k \in DOMAIN s},
                  !.order = @ /\ \A k \in 1 .. Len(s) : Follows(run[k], run[k + 1]),
                  !.over = @ \/ drop > 0]

refill_streaming_buffer(m) ==
    LET room == StreamFrames - Len(m.buf)
    IN  [m EXCEPT !.buf = @ \o stream_fn(m.segment, m.offset + m.pinned + Len(@), room)]

\* The pinned head first, then the streaming buffer. A head longer than its
\* segment was primed short: only what the source had is new.
pump_to_mixer(m, max) ==
    LET head == Min({m.pinned, max})
        start == HeadFrames - m.pinned
        a == [push_to_mixer(m, Samples(m.segment, start, start + head)) EXCEPT !.pinned = @ - head]
        take == Min({Len(m.buf), max - head})
        b == push_to_mixer(a, SubSeq(m.buf, 1, take))
    IN  [b EXCEPT !.buf = SubSeq(@, take + 1, Len(@)), !.offset = @ + take]

music_stop(m) ==
    [m EXCEPT !.state = "stopped", !.segment = "none", !.offset = 0, !.pinned = 0,
              !.buf = <<>>, !.ring = <<>>, !.last = Heard, !.covered = {}]

Refilled(m) == IF Len(m.buf) < StreamFrames \div 2 THEN refill_streaming_buffer(m) ELSE m

\* A refill that was tried and brought nothing, with nothing left to push.
segment_exhausted(m, after) ==
    /\ Len(m.buf) < StreamFrames \div 2
    /\ Len(Refilled(m).buf) = Len(m.buf)
    /\ after.buf = <<>> /\ after.pinned = 0

\* One round of music_update: [m, again].
Round(m, target) ==
    LET p == pump_to_mixer(Refilled(m), target)
    IN  IF ~segment_exhausted(m, p) THEN [m |-> p, again |-> FALSE]
        ELSE IF SegLen["loop"] > 0
             THEN [m |-> [enter_segment(p, "loop") EXCEPT !.state = "loop"], again |-> TRUE]
        ELSE [m |-> [music_stop(p) EXCEPT
                        !.partial = @ \/ p.covered # 0 .. SegLen[p.segment] - 1], again |-> FALSE]

Target ==
    LET cap == IF MaxFill \in 1 .. RingFrames - 1 THEN MaxFill ELSE RingFrames
    IN  Min({Max({0, cap - Len(mp.ring)}), StreamFrames})

music_update ==
    /\ mp.state \in {"intro", "loop"}
    /\ Target > 0
    /\ \E one \in {Round(mp, Target)} :
       \E two \in {IF one.again THEN Round(one.m, Target).m ELSE one.m} :
           mp' = two /\ running' = (two.state # "stopped")

\* music_play from stopped; the heads were primed when the voice was set up.
music_play ==
    LET seg == IF SegLen["intro"] > 0 THEN "intro" ELSE "loop"
    IN  /\ mp.state = "stopped"
        /\ mp' = [enter_segment(mp, seg) EXCEPT !.state = seg, !.ring = <<>>]
        /\ running' = TRUE

music_pause ==
    /\ mp.state \in {"intro", "loop"}
    /\ mp' = [mp EXCEPT !.state = "paused"]
    /\ running' = FALSE

music_resume ==
    /\ mp.state = "paused"
    /\ mp' = [mp EXCEPT !.state = mp.segment]
    /\ running' = TRUE

Stop ==
    /\ mp.state # "stopped"
    /\ mp' = music_stop(mp)
    /\ running' = FALSE

\* mixer_render takes frames from the ring of a running channel.
PlayFrames ==
    /\ running /\ mp.ring # <<>>
    /\ \E n \in 1 .. Len(mp.ring) : mp' = [mp EXCEPT !.ring = SubSeq(@, n + 1, Len(@))]
    /\ UNCHANGED running

PlayerNext ==
    music_update \/ music_play \/ music_pause \/ music_resume \/ Stop \/ PlayFrames

\* The service pumps every player in each pass and the output is rendered.
PlayerSpec == PlayerInit /\ [][PlayerNext]_mpvars /\ WF_mpvars(music_update) /\ WF_mpvars(PlayFrames)

-----------------------------------------------------------------------------
\* Whatever the chunks in which samples are read, buffered and rendered, a pass
\* of a segment hands every one of its samples to the mixer before the player
\* goes on to the next one: nothing at the end of a segment is cut off.
SegmentsComplete == ~mp.partial

\* music_player.h:7-8 "sample-accurate and gap-free": the samples handed to the
\* mixer follow one another.
SamplesInOrder == mp.order

\* music_player.c:413-420: pump only what the channel holds "without overwriting
\* unplayed audio".
NothingOverwritten == ~mp.over

\* An intro that is not stopped or paused gives way to the loop or ends.
IntroEnds == mp.state = "intro" ~> mp.state # "intro"
=============================================================================
