------------------------------- MODULE Mixer -------------------------------
(***************************************************************************)
(* One channel of src/src/audio/audio_mixer.c: the ring of source frames,  *)
(* the window of interpolation taps that slides over it, and the drift     *)
(* correction that trims its step. The kernels that turn taps into a       *)
(* sample, and the output stage, are at the end.                           *)
(*                                                                         *)
(* Source frames are numbered 1, 2, ... in the order they are written; a   *)
(* tap holds the number of a frame, 0 being silence. Positions are fixed   *)
(* point, One being one frame (2^32). Channels do not interact but for the *)
(* sum of their outputs, so one stands for all.                            *)
(***************************************************************************)
EXTENDS Integers, Sequences, SequencesExt, FiniteSetsExt

CONSTANTS One,          \* 2^32: the unit of phase and step
          BaseSteps,    \* compute_step_q32_32 of the rates sources have
          Capacity,     \* buffer_samples
          MaxWritten,   \* frames written to one run of the channel (bound)
          MaxPos,       \* how far a run of the channel gets (bound)
          AccOne,       \* SYNC_ACC_ONE
          MaxAcc,       \* sync_max_correction in units of the accumulator
          Smoothing,    \* Q15_ONE / correction_smoothing
          Ticks,        \* ticks of the external clock per frame
          Deltas,       \* frames between two observations
          Drifts,       \* ticks the external clock is ahead or behind by then
          AnyRate       \* FALSE: no step is longer than the window of taps

ASSUME MixerAssumption ==
    /\ One \in Nat \ {0} /\ Capacity \in Nat \ {0} /\ AccOne \in Nat \ {0}
    /\ BaseSteps \subseteq Nat \ {0} /\ MaxAcc \in 0 .. AccOne /\ Smoothing \in Nat \ {0}

VARIABLES ch,        \* the MixerChannel
          rb,        \* its ring, oldest frame first
          sync,      \* [on, acc, seen]: sync_enabled, sync_corr_acc, sync_have_last_obs
          written,   \* frames written so far
          pos,       \* position reached since the channel was started
          first,     \* the frame (in a loop: the index) the position counts from
          disturbed  \* a frame was overwritten, or a tap was loaded past the newest one

mxvars == <<ch, rb, sync, written, pos, first, disturbed>>

TapsMax == 4
Silent == [t \in 0 .. TapsMax - 1 |-> 0]
taps_for_interp(c) == IF c.interp = "cubic" THEN 4 ELSE 2
current_tap_index(c) == IF c.interp = "cubic" THEN 1 ELSE 0

\* The steps of the sources a channel is given.
Steps(c) ==
    {s \in BaseSteps : AnyRate \/ s * (AccOne + MaxAcc)
                                  <= (taps_for_interp(c) - current_tap_index(c)) * One * AccOne}

\* C division truncates toward zero.
Quot(a, b) == IF a < 0 THEN -((-a) \div b) ELSE a \div b

\* mixer_create_internal. Under sync every channel resamples.
MixerInit ==
    /\ \E on, loop \in BOOLEAN, interp \in {"linear", "cubic"} :
       \E s \in Steps([interp |-> interp]) :
        /\ sync = [on |-> on, acc |-> 0, seen |-> FALSE]
        /\ ch = [interp |-> interp, loop |-> loop, active |-> FALSE,
                 needs_resample |-> on \/ s # One, base_step |-> s, step |-> s,
                 phase |-> 0, taps |-> Silent, tap_primed |-> FALSE, loop_read_pos |-> 0]
    /\ rb = <<>> /\ written = 0 /\ pos = 0 /\ first = (IF ch.loop THEN 0 ELSE 1) /\ disturbed = FALSE

-----------------------------------------------------------------------------
update_channel_steps(c, acc) ==
    [c EXCEPT !.step = IF c.needs_resample
                       THEN Max({1, c.base_step + Quot(c.base_step * acc, AccOne)}) ELSE @]

Clamp(acc) == Max({-MaxAcc, Min({MaxAcc, acc})})

Correct(acc) ==
    /\ sync' = [sync EXCEPT !.acc = acc]
    /\ ch' = update_channel_steps(ch, acc)
    /\ UNCHANGED <<rb, written, pos, first, disturbed>>

\* mixer_observe_sync: the first observation is the baseline; one whose drift
\* exceeds a sixteenth of what was expected is an outlier.
mixer_observe_sync ==
    /\ sync.on
    /\ \/ /\ ~sync.seen
          /\ sync' = [sync EXCEPT !.seen = TRUE]
          /\ UNCHANGED <<ch, rb, written, pos, first, disturbed>>
       \/ \E internal \in Deltas, drift \in Drifts :
            LET expected == internal * Ticks
                raw == Quot(drift * AccOne, expected)
            IN  /\ sync.seen
                /\ expected > 0
                /\ drift \in -(expected \div 16) .. (expected \div 16)
                /\ Correct(Clamp(sync.acc + Quot(raw - sync.acc, Smoothing)))

\* mixer_set_drift_ppm, from the level control of the FMV ring.
mixer_set_drift_ppm == sync.on /\ \E acc \in {-AccOne, 0, AccOne} : Correct(Clamp(acc))

mixer_reset_sync ==
    /\ sync.on
    /\ sync' = [sync EXCEPT !.acc = 0, !.seen = FALSE]
    /\ ch' = update_channel_steps(ch, 0)
    /\ UNCHANGED <<rb, written, pos, first, disturbed>>

-----------------------------------------------------------------------------
\* A new count begins at the oldest frame of the ring r.
Restart(r) ==
    /\ pos' = 0
    /\ first' = IF ch.loop THEN ch'.loop_read_pos
                ELSE IF r = <<>> THEN written' + 1 ELSE Head(r)
    /\ disturbed' = FALSE

\* The step is the nominal one until the next observation. The service sets the
\* rate of a channel before it starts it.
mixer_set_source_rate ==
    \E s \in Steps(ch) :
        /\ ~ch.active
        /\ ch' = [ch EXCEPT !.needs_resample = sync.on \/ s # One, !.base_step = s,
                            !.step = s, !.phase = 0, !.taps = Silent, !.tap_primed = FALSE]
        /\ UNCHANGED <<rb, sync, written>>
        /\ Restart(rb)

mixer_channel_start ==
    /\ ch' = [ch EXCEPT !.active = TRUE, !.phase = 0, !.tap_primed = FALSE, !.loop_read_pos = 0]
    /\ UNCHANGED <<rb, sync, written>>
    /\ Restart(rb)

mixer_channel_stop ==
    /\ ch.active
    /\ ch' = [ch EXCEPT !.active = FALSE]
    /\ UNCHANGED <<rb, sync, written, pos, first, disturbed>>

\* mixer_channel_reset; the numbering starts again with the empty ring.
mixer_channel_reset ==
    /\ ch' = [ch EXCEPT !.active = FALSE, !.phase = 0, !.tap_primed = FALSE, !.loop_read_pos = 0]
    /\ rb' = <<>> /\ written' = 0
    /\ UNCHANGED sync
    /\ Restart(<<>>)

\* mixer_write_channel pushes everything; a full ring drops its oldest frame.
\* A loop is a different sound once it is written to.
mixer_write_channel ==
    /\ written < MaxWritten
    /\ written' = written + 1
    /\ rb' = IF Len(rb) = Capacity THEN Append(Tail(rb), written') ELSE Append(rb, written')
    /\ disturbed' = (disturbed \/ Len(rb) = Capacity \/ (ch.loop /\ pos > 0))
    /\ UNCHANGED <<ch, sync, pos, first>>

-----------------------------------------------------------------------------
\* read_loop_frame_q15 and peek_source_frame_q15_at: what load_tap reads. The
\* offset before the first frame is the largest size_t.
load_tap(c, r, off) ==
    IF c.loop THEN IF r = <<>> THEN 0 ELSE r[((c.loop_read_pos + off) % Len(r)) + 1]
    ELSE IF off \in 0 .. Len(r) - 1 THEN r[off + 1] ELSE 0

prime_tap_window(c, r) ==
    [c EXCEPT !.tap_primed = TRUE,
              !.taps = [t \in 0 .. TapsMax - 1 |->
                          IF t \in current_tap_index(c) .. taps_for_interp(c) - 1
                          THEN load_tap(c, r, t - current_tap_index(c)) ELSE 0]]

\* Mutant: the taps on the right are loaded from before the frames were consumed.
advance_tap_window_Unpopped(c, r, n) ==
    LET k == Min({n, taps_for_interp(c)})
        d == [c EXCEPT !.loop_read_pos = IF c.loop THEN @ + k ELSE @]
        q == IF c.loop THEN r ELSE SubSeq(r, k + 1, Len(r))
    IN  [c |-> [d EXCEPT !.taps = [t \in 0 .. TapsMax - 1 |->
                  IF t < taps_for_interp(c) - k THEN c.taps[t + k]
                  ELSE IF t < taps_for_interp(c) THEN load_tap(c, r, t - current_tap_index(c))
                  ELSE c.taps[t]]],
         rb |-> q]

\* No more than a window is shifted, consumed and loaded.
advance_tap_window(c, r, n) ==
    LET k == Min({n, taps_for_interp(c)})
        d == [c EXCEPT !.loop_read_pos = IF c.loop THEN @ + k ELSE @]
        q == IF c.loop THEN r ELSE SubSeq(r, k + 1, Len(r))
    IN  [c |-> [d EXCEPT !.taps = [t \in 0 .. TapsMax - 1 |->
                  IF t < taps_for_interp(c) - k THEN c.taps[t + k]
                  ELSE IF t < taps_for_interp(c) THEN load_tap(d, q, t - current_tap_index(c))
                  ELSE c.taps[t]]],
         rb |-> q]

\* produce_channel_sample without resampling: the oldest frame, or an underrun.
Passthrough ==
    /\ ch.active /\ ~ch.needs_resample /\ ~ch.loop
    /\ rb # <<>>
    /\ rb' = Tail(rb)
    /\ UNCHANGED <<ch, sync, written, pos, disturbed>>
    /\ first' = Head(rb) + 1

\* produce_channel_sample through the taps: after the sample is made from them,
\* the phase advances and the window follows its integer part.
Resample ==
    /\ ch.active /\ (ch.needs_resample \/ ch.loop)
    /\ rb # <<>> \/ ch.tap_primed
    /\ pos < MaxPos
    /\ LET c == IF ch.tap_primed THEN ch ELSE prime_tap_window(ch, rb)
           step == IF c.needs_resample THEN c.step ELSE One
           n == (c.phase + step) \div One
           a == IF n > 0 THEN advance_tap_window(c, rb, n) ELSE [c |-> c, rb |-> rb]
       IN  /\ ch' = [a.c EXCEPT !.phase = c.phase + step - n * One]
           /\ rb' = a.rb
           /\ pos' = pos + step
           /\ disturbed' = (disturbed \/ (~c.loop /\ \E t \in current_tap_index(c) ..
                                                           taps_for_interp(c) - 1 : a.c.taps[t] = 0))
    /\ UNCHANGED <<sync, written, first>>

MixerNext ==
    \/ mixer_observe_sync \/ mixer_set_drift_ppm \/ mixer_reset_sync
    \/ mixer_set_source_rate \/ mixer_channel_start \/ mixer_channel_stop
    \/ mixer_channel_reset \/ mixer_write_channel \/ Passthrough \/ Resample

MixerSpec == MixerInit /\ [][MixerNext]_mxvars

-----------------------------------------------------------------------------
\* The source frame at distance k from where the count began.
Source(k) == IF k < 0 THEN 0
             ELSE IF ch.loop THEN rb[((first + k) % Len(rb)) + 1]
             ELSE first + k

\* Whatever the steps were, and however the correction moved them in between,
\* the taps are the consecutive source frames around the exact position the
\* steps add up to: no frame is skipped or used twice, the fraction is that of
\* the position, and the ring holds the frames from there on.
ResampleExact ==
    ch.active /\ ch.tap_primed /\ ~disturbed =>
        LET p == pos \div One
        IN  /\ ch.phase = pos % One
            /\ \A t \in 0 .. taps_for_interp(ch) - 1 :
                  ch.taps[t] = Source(p + t - current_tap_index(ch))
            /\ ~ch.loop /\ rb # <<>> => Head(rb) = first + p

-----------------------------------------------------------------------------
(***************************************************************************)
(* The arithmetic: source formats, the two interpolation kernels, gains,   *)
(* and the output stage. Samples have Bits fractional bits (15), so a      *)
(* sample has Bits + 1 bits and an int32 twice as many; products that leave *)
(* the int32 wrap as the builds of the project make them (signed overflow  *)
(* has no defined result in C).                                            *)
(***************************************************************************)

CONSTANTS Bits,        \* fractional bits of a q15_t
          TapCodes,    \* samples the taps take, counted from the lowest one
          Fractions    \* positions between two frames, in units of 2^-Bits

ASSUME MathAssumption == Bits \in Nat /\ Bits % 2 = 1

Q == 2 ^ Bits
IntHalf == 2 ^ (2 * Bits + 1)
Fits(x) == x \in -IntHalf .. IntHalf - 1
WrapInt(x) == ((x + IntHalf) % (2 * IntHalf)) - IntHalf
Shr(x, k) == x \div 2 ^ k
Sat(x) == Max({-Q, Min({Q - 1, x})})
Half == (Bits + 1) \div 2

\* One channel of a frame in each of the formats: 16 bit, 8 bit signed, 8 bit unsigned.
convert_bytes_to_q15(fmt, s) ==
    CASE fmt = "pcm16" -> s
      [] fmt = "pcm8s" -> s * 2 ^ Half
      [] fmt = "pcm8u" -> (s - 2 ^ (Half - 1)) * 2 ^ Half

\* The products of interp_linear_q15 (f has one bit more than the fraction).
LinearProduct(a, b, t) == (b - a) * (2 * t)

interp_linear_q15(a, b, t) == a + Shr(WrapInt(LinearProduct(a, b, t)), Bits + 1)

\* Coefficients of the doubled Catmull-Rom spline through p[1] .. p[4].
CubicA(p) == -p[1] + 3 * p[2] - 3 * p[3] + p[4]
CubicB(p) == 2 * p[1] - 5 * p[2] + 4 * p[3] - p[4]
CubicC(p) == p[3] - p[1]

CubicProducts(p, t) ==
    LET t2 == Shr(t * t, Bits)
        t3 == Shr(t2 * t, Bits)
    IN  <<CubicA(p) * t3, CubicB(p) * t2, CubicC(p) * t>>

interp_cubic_q15(p, t) ==
    LET m == CubicProducts(p, t)
    IN  Sat(Shr(Shr(WrapInt(m[1]), Bits) + Shr(WrapInt(m[2]), Bits)
                + Shr(WrapInt(m[3]), Bits) + 2 * p[2], 1))

q15_sat_mul(a, b) == Sat(Shr(a * b, Bits))

\* compute_pan_gains: <<left, right>>.
compute_pan_gains(pan) ==
    IF pan >= 0 THEN <<Q - 1 - pan, Q - 1>> ELSE <<Q - 1, Q - 1 + pan>>

\* The volume and pan part of mixer_render: a gain of Q15_ONE is left out.
ApplyGain(s, gain) == IF gain = Q - 1 THEN s ELSE q15_sat_mul(s, gain)

Format == [bits : 1 .. Bits + 1, is_signed : BOOLEAN]

compute_output_params(fmt) ==
    [shift |-> Bits + 1 - fmt.bits,
     offset |-> IF fmt.is_signed THEN 0 ELSE 2 ^ (fmt.bits - 1),
     min |-> IF fmt.is_signed THEN -(2 ^ (fmt.bits - 1)) ELSE 0,
     max |-> IF fmt.is_signed THEN 2 ^ (fmt.bits - 1) - 1 ELSE 2 ^ fmt.bits - 1]

finalize_output(accum, headroom, o) ==
    Max({o.min, Min({o.max, Shr(Sat(Shr(accum, headroom)), o.shift) + o.offset})})

\* The end of mixer_render for a mono or a stereo output.
MixDown(l, r, mono, headroom, o) ==
    LET half == IF l + r < 0 THEN -(-(l + r) \div 2) ELSE (l + r) \div 2
    IN  IF mono THEN <<finalize_output(half, headroom, o)>>
        ELSE <<finalize_output(l, headroom, o), finalize_output(r, headroom, o)>>

-----------------------------------------------------------------------------
VARIABLE taps4   \* the taps and the position a sample is made from

NoTaps == [p |-> <<>>, t |-> 0]

MathInit == taps4 \in [p : [1 .. 4 -> {c - Q : c \in TapCodes}], t : Fractions]

\* Eight times the doubled spline, exactly.
ExactCubic(p, t) ==
    CubicA(p) * t * t * t + CubicB(p) * t * t * Q + CubicC(p) * t * Q * Q + 2 * p[2] * Q * Q * Q

Abs(x) == IF x < 0 THEN -x ELSE x
Bound(p) == (2 * Abs(CubicA(p)) + Abs(CubicB(p))) \div Q + 4

\* While the products fit, the kernels compute what they are for: a linear sample
\* lies between its frames, a cubic one is the saturated spline up to the bits the
\* powers of t lose; both give back the frame itself at fraction 0. The output
\* stage maps silence to the middle, and full scale to the ends, of every format.
MixMathFaithful ==
    taps4 # NoTaps =>
    LET p == taps4.p  t == taps4.t
        lin == interp_linear_q15(p[2], p[3], t)
        cub == interp_cubic_q15(p, t)
        exact == Sat(ExactCubic(p, t) \div (2 * Q * Q * Q))
    IN  /\ Fits(LinearProduct(p[2], p[3], t))
              => lin \in Min({p[2], p[3]}) .. Max({p[2], p[3]}) /\ (t = 0 => lin = p[2])
        /\ (\A k \in 1 .. 3 : Fits(CubicProducts(p, t)[k]))
              => Abs(cub - exact) <= Bound(p) /\ (t = 0 => cub = p[2])
        /\ \A fmt \in Format, h \in 0 .. 2, s \in {p[1], 0} :
              LET o == compute_output_params(fmt)
                  g == compute_pan_gains(s)
              IN  /\ MixDown(0, 0, FALSE, h, o) = <<o.offset, o.offset>>
                  /\ MixDown(-Q * 2 ^ h, (Q - 1) * 2 ^ h, FALSE, h, o) = <<o.min, o.max>>
                  /\ MixDown(2 * s, ApplyGain(s, g[1]) - s, TRUE, h, o)[1] \in o.min .. o.max
        /\ convert_bytes_to_q15("pcm8u", 2 ^ Half - 1) = convert_bytes_to_q15("pcm8s", 2 ^ (Half - 1) - 1)
        /\ convert_bytes_to_q15("pcm8u", 0) = -Q /\ convert_bytes_to_q15("pcm16", -Q) = -Q

\* audio_mixer.c:823, "Math done in int32 with q15 intermediates": the products fit.
KernelsFit ==
    taps4 # NoTaps =>
    /\ Fits(LinearProduct(taps4.p[2], taps4.p[3], taps4.t))
    /\ \A k \in 1 .. 3 : Fits(CubicProducts(taps4.p, taps4.t)[k])
============================================================================
