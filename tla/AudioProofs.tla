---------------------------- MODULE AudioProofs ----------------------------
(***************************************************************************)
(* The audio parts, each and in the run that composes them.                *)
(*                                                                         *)
(* The bridge, for any size of the staging region and of its registers:    *)
(* what makes AudioCallsExact inductive is only that the lengths of a      *)
(* request stay inside the region, and that the roll-back of a refused     *)
(* installation takes back the calls registered before it (UndoneWhole).   *)
(*                                                                         *)
(* The band meter, for any VMs and any number of holds of the overlay:     *)
(* MeterHeld needs that the overlay, inside fft_hold, still has the count  *)
(* in hand unless a collision is known, and a hold to give back.           *)
(*                                                                         *)
(* The audio service, for any numbers of tracks, music objects and music   *)
(* slots and a pool of any size: every reference to a pool object is the   *)
(* token of one holder, its creator, a voice, the intro or the loop of a   *)
(* music object, or a player.  ServiceInv says that a free slot is         *)
(* cleared, that slots, tracks, channels and sync flags agree, and that,   *)
(* while clean, an object's count is the number of its tokens and every    *)
(* handle held still resolves: without the last part the holder of a stale *)
(* handle would give back a reference that is not counted.                 *)
(*                                                                         *)
(* The music player, for any segments, heads and buffers: everything in    *)
(* front of the next offset to read has been pushed, is in the pinned head *)
(* or in the buffer (InHand), so when a refill brings nothing and both are *)
(* empty the whole segment has been pushed.                                *)
(***************************************************************************)
EXTENDS MCAudio, FiniteSetTheorems, WellFoundedInduction, NaturalsInduction, SequenceTheorems, TLAPS

-----------------------------------------------------------------------------
(* The audio calls of a guest (AudioBridge). *)

LEMMA MinOfTwo ==
    ASSUME NEW a \in Int, NEW b \in Int
    PROVE  Min({a, b}) = IF a <= b THEN a ELSE b
  BY DEF Min

\* The registrations that vm_host_install_audio takes back are those it made:
\* the first one refused is not behind the label that names the wrong call.
UndoneWhole ==
    \/ \A k \in DOMAIN AudioEcalls : AudioEcalls[k] \in Registrable
    \/ \E k \in 1 .. 11 : AudioEcalls[k] \notin Registrable

Staged == g_staging \in 0 .. StagingCap /\ request.reads \in 0 .. g_staging

BridgeInv == Staged /\ NoFalseSuccess /\ InstalledWhole

LEMMA BridgeInitInv == BridgeInit => BridgeInv
  BY AudioBridgeAssumption DEF BridgeInit, BridgeInv, Staged, NoFalseSuccess, InstalledWhole, NoRequest, NoAnswer

LEMMA BridgeExact == BridgeInv => AudioCallsExact
  BY AudioBridgeAssumption DEF BridgeInv, AudioCallsExact, Staged, StagedCovers

\* An exchange of n bytes of which the service reads m, whose answer the caller is
\* told by one of the operators of the handlers.
LEMMA ExchangeInv ==
    ASSUME BridgeInv, NEW n \in 0 .. StagingCap, NEW m \in 0 .. n, NEW type, NEW r \in Answers,
           g_staging' = n, request' = [type |-> type, reads |-> m], answer' = r,
           locked' = FALSE, UNCHANGED <<g_channel, router>>,
           a0' > 0 => r.ok /\ (r.status = 0 \/ type = "GET_LEVELS")
    PROVE  BridgeInv'
<1>1. Staged'
  BY DEF Staged
<1>2. NoFalseSuccess'
  BY DEF NoFalseSuccess
<1>3. InstalledWhole'
  BY DEF BridgeInv, InstalledWhole
<1> QED
  BY <1>1, <1>2, <1>3 DEF BridgeInv

LEMMA GiveUpInv == ASSUME BridgeInv, GiveUp PROVE BridgeInv'
  BY DEF GiveUp, BridgeInv, Staged, NoFalseSuccess, InstalledWhole, NoRequest

\* What the callers are told is positive for an answer that accepts only.
LEMMA ToldFacts ==
    ASSUME NEW r \in Answers
    PROVE  /\ HandleOrZero(r) > 0 => r.ok /\ r.status = 0
           /\ ~(ZeroOrErrno(r) > 0) /\ ~(Nothing(r) > 0)
  BY DEF HandleOrZero, ZeroOrErrno, Nothing, EIO, EINVAL

LEMMA StagingFacts == BridgeInv => g_staging \in 0 .. StagingCap /\ 0 \in 0 .. g_staging
  BY AudioBridgeAssumption DEF BridgeInv, Staged

LEMMA HandleCallInv ==
    ASSUME BridgeInv, NEW type, NEW n \in 0 .. StagingCap, NEW m \in 0 .. n,
           audio_call(type, n, m, HandleOrZero)
    PROVE  BridgeInv'
<1>1. PICK r \in Answers : answer' = r /\ a0' = HandleOrZero(r)
  BY DEF audio_call
<1>2. /\ g_staging' = n /\ request' = [type |-> type, reads |-> m]
      /\ locked' = FALSE /\ UNCHANGED <<g_channel, router>>
  BY DEF audio_call
<1> QED
  BY <1>1, <1>2, ToldFacts, ExchangeInv

LEMMA PlainCallInv ==
    ASSUME BridgeInv, NEW type,
           \/ audio_call(type, g_staging, 0, HandleOrZero)
           \/ audio_call(type, g_staging, 0, ZeroOrErrno)
           \/ audio_call(type, g_staging, 0, Nothing)
    PROVE  BridgeInv'
<1>1. PICK r \in Answers : answer' = r /\ a0' \in {HandleOrZero(r), ZeroOrErrno(r), Nothing(r)}
  BY DEF audio_call
<1>2. /\ g_staging' = g_staging /\ request' = [type |-> type, reads |-> 0]
      /\ locked' = FALSE /\ UNCHANGED <<g_channel, router>>
  BY DEF audio_call
<1>3. a0' > 0 => r.ok /\ r.status = 0
  BY <1>1, ToldFacts
<1> QED
  BY <1>1, <1>2, <1>3, StagingFacts, ExchangeInv

LEMMA ScalarsInv ==
    ASSUME BridgeInv,
           \/ handle_free \/ handle_trigger_sfx \/ handle_play_music \/ handle_stop \/ handle_set_gain
           \/ handle_load_music \/ handle_pcm_stream_open \/ handle_pcm_stream_close \/ handle_fft_enable
           \/ vm_host_audio_sweep_vm \/ vm_host_audio_fmv_open \/ vm_host_audio_fmv_close
           \/ vm_host_audio_sfx_trigger
    PROVE  BridgeInv'
  BY PlainCallInv
     DEF handle_free, handle_trigger_sfx, handle_play_music, handle_stop, handle_set_gain,
         handle_load_music, handle_pcm_stream_open, handle_pcm_stream_close, handle_fft_enable,
         vm_host_audio_sweep_vm, vm_host_audio_fmv_open, vm_host_audio_fmv_close,
         vm_host_audio_sfx_trigger, Scalar, HostCall

LEMMA LevelsInv ==
    ASSUME BridgeInv, NEW want, NEW writable, handle_get_levels(want, writable)
    PROVE  BridgeInv'
<1>1. PICK r \in Answers : answer' = r /\ (a0' > 0 => r.ok)
  BY DEF handle_get_levels, Scalar, audio_call
<1>2. /\ g_staging' = g_staging /\ request' = [type |-> "GET_LEVELS", reads |-> 0]
      /\ locked' = FALSE /\ UNCHANGED <<g_channel, router>>
  BY DEF handle_get_levels, Scalar, audio_call
<1> QED
  BY <1>1, <1>2, StagingFacts, ExchangeInv

LEMMA LoadsInv ==
    ASSUME BridgeInv, NEW frames \in Nat, load_wav_to_pool(frames)
    PROVE  BridgeInv'
<1> DEFINE taken == Min({frames, StagingCap \div SampleBytes})
<1>1. CASE GiveUp
  BY <1>1, GiveUpInv
<1>2. CASE audio_call("LOAD_STAGED", taken * SampleBytes, taken * SampleBytes, HandleOrZero)
  <2>1. StagingCap \div 2 \in Nat /\ (StagingCap \div 2) * 2 <= StagingCap
    BY AudioBridgeAssumption
  <2>2. taken \in Nat /\ taken <= StagingCap \div 2
    BY <2>1, MinOfTwo DEF SampleBytes
  <2>3. taken * SampleBytes \in 0 .. StagingCap /\ taken * SampleBytes \in 0 .. taken * SampleBytes
    BY <2>1, <2>2, AudioBridgeAssumption DEF SampleBytes
  <2> QED
    BY <1>2, <2>3, HandleCallInv
<1> QED
  BY <1>1, <1>2 DEF load_wav_to_pool

LEMMA StagedCallsInv ==
    ASSUME BridgeInv,
           \/ \E size \in Word : handle_load_sample(size)
           \/ \E count \in Word : handle_pcm_stream_feed(count)
           \/ \E served \in BOOLEAN, frames \in FileFrames : handle_load_wav(served, frames)
           \/ \E served \in BOOLEAN, length \in {1, StagingCap - 1, StagingCap} :
                  handle_stream_wav(served, length)
           \/ \E frames \in FileFrames : vm_host_audio_sfx_load(frames)
    PROVE  BridgeInv'
<1>1. CASE \E size \in Word : handle_load_sample(size)
  <2>1. PICK size \in Word : handle_load_sample(size)
    BY <1>1
  <2>2. CASE GiveUp
    BY <2>2, GiveUpInv
  <2>3. CASE size \in 1 .. StagingCap /\ audio_call("LOAD_STAGED", size, size, HandleOrZero)
    BY <2>3, HandleCallInv, AudioBridgeAssumption
  <2> QED
    BY <2>1, <2>2, <2>3 DEF handle_load_sample
<1>2. CASE \E count \in Word : handle_pcm_stream_feed(count)
  <2>1. PICK count \in Word : handle_pcm_stream_feed(count)
    BY <1>2
  <2>2. CASE GiveUp
    BY <2>2, GiveUpInv
  <2>3. CASE /\ FeedBytes(count) \in 1 .. StagingCap
             /\ audio_call("PCM_STREAM_FEED", FeedBytes(count), count * FrameBytes, HandleOrZero)
    <3>1. count * FrameBytes = FeedBytes(count)
      BY DEF FeedBytes
    <3> QED
      BY <2>3, <3>1, HandleCallInv, AudioBridgeAssumption
  <2> QED
    BY <2>1, <2>2, <2>3 DEF handle_pcm_stream_feed
<1>3. CASE \E served \in BOOLEAN, frames \in FileFrames : handle_load_wav(served, frames)
  BY <1>3, LoadsInv, GiveUpInv, AudioBridgeAssumption DEF handle_load_wav
<1>4. CASE \E served \in BOOLEAN, length \in {1, StagingCap - 1, StagingCap} :
               handle_stream_wav(served, length)
  <2>1. PICK served \in BOOLEAN, length \in {1, StagingCap - 1, StagingCap} :
             handle_stream_wav(served, length)
    BY <1>4
  <2>2. CASE GiveUp
    BY <2>2, GiveUpInv
  <2>3. CASE /\ length + 1 <= StagingCap
             /\ audio_call("STREAM_WAV", length + 1, length + 1, HandleOrZero)
    <3>1. length + 1 \in 0 .. StagingCap /\ length + 1 \in 0 .. length + 1
      BY <2>3, AudioBridgeAssumption
    <3> QED
      BY <2>3, <3>1, HandleCallInv
  <2> QED
    BY <2>1, <2>2, <2>3 DEF handle_stream_wav
<1>5. CASE \E frames \in FileFrames : vm_host_audio_sfx_load(frames)
  BY <1>5, LoadsInv, AudioBridgeAssumption DEF vm_host_audio_sfx_load
<1> QED
  BY <1>1, <1>2, <1>3, <1>4, <1>5

\* The labels name, up to the tenth, what was registered.
LEMMA InstallInv ==
    ASSUME UndoneWhole, BridgeInv, vm_host_install_audio
    PROVE  BridgeInv'
<1> DEFINE bad == {k \in DOMAIN AudioEcalls : AudioEcalls[k] \notin Registrable}
           refused == Min(bad)
           before == {AudioEcalls[j] : j \in 1 .. refused - 1}
<1>1. /\ UNCHANGED <<locked, g_staging, request, answer, a0, audiocalls>>
      /\ \/ g_channel' = TRUE /\ router' = ToSet(AudioEcalls)
         \/ bad # {} /\ g_channel' = FALSE /\ router' = before \ RolledBack(refused)
  BY DEF vm_host_install_audio
<1>2. bad # {} => before \ RolledBack(refused) = {}
  <2> SUFFICES ASSUME bad # {} PROVE before \ RolledBack(refused) = {}
    OBVIOUS
  <2>1. DOMAIN AudioEcalls = 1 .. 14
    BY DEF AudioEcalls
  <2>2. PICK k \in 1 .. 11 : k \in bad
    BY <2>1 DEF UndoneWhole
  <2>3. \E x \in bad : \A y \in bad : x <= y
    <3>1. bad \subseteq 1 .. 14
      BY <2>1
    <3> HIDE DEF bad
    <3> QED
      BY <2>2, <3>1
  <2>4. refused \in bad /\ refused <= k /\ refused \in 1 .. 11
    BY <2>1, <2>2, <2>3 DEF Min
  <2>5. \A j \in 1 .. refused - 1 : j <= 10
    BY <2>4
  <2> QED
    BY <2>4, <2>5 DEF RolledBack
<1>3. InstalledWhole'
  BY <1>1, <1>2 DEF BridgeInv, InstalledWhole
<1> QED
  BY <1>1, <1>3 DEF BridgeInv, Staged, NoFalseSuccess

LEMMA BridgeNextInv == UndoneWhole /\ BridgeInv /\ [BridgeNext]_bridgevars => BridgeInv'
<1> SUFFICES ASSUME UndoneWhole, BridgeInv, [BridgeNext]_bridgevars PROVE BridgeInv'
  OBVIOUS
<1>1. CASE UNCHANGED bridgevars
  BY <1>1 DEF bridgevars, BridgeInv, Staged, NoFalseSuccess, InstalledWhole
<1>2. CASE vm_host_install_audio
  BY <1>2, InstallInv
<1>3. CASE \E want \in {0, 1, MaxLevels + 1}, writable \in {0, MaxLevels} : handle_get_levels(want, writable)
  BY <1>3, LevelsInv
<1> QED
  BY <1>1, <1>2, <1>3, ScalarsInv, StagedCallsInv DEF BridgeNext

-----------------------------------------------------------------------------
(* The band meter (AudioService). *)

Far == {o \in MeterFarVms : farHolds[o] = 1}

MeterTypes ==
    /\ fftCount \in Nat /\ fftOn \subseteq MeterVms /\ IsFiniteSet(fftOn)
    /\ hostPc \in {"out", "on", "off"} /\ hostLoad \in Nat /\ hosts \in Nat
    /\ farHolds \in [MeterFarVms -> {0, 1}] /\ IsFiniteSet(Far)

\* Until a collision the overlay, inside fft_hold, has read what the count still is.
MeterInv ==
    /\ MeterTypes /\ MeterHeld
    /\ hostPc = "off" => hosts > 0
    /\ ~raced /\ hostPc # "out" => hostLoad = fftCount

LEMMA MeterInitInv == MeterInit => MeterInv
<1> SUFFICES ASSUME MeterInit PROVE MeterInv
  OBVIOUS
<1>1. Far = {} /\ fftOn = {} /\ fftCount = 0 /\ hosts = 0 /\ fftEnabled = FALSE
  BY DEF MeterInit, Far
<1>2. IsFiniteSet({}) /\ Cardinality({}) = 0
  BY FS_EmptySet
<1>3. Holds = 0
  BY <1>1, <1>2 DEF Holds, Far
<1>4. MeterTypes
  <2>1. farHolds \in [MeterFarVms -> {0, 1}]
    BY DEF MeterInit
  <2>2. IsFiniteSet(fftOn) /\ IsFiniteSet(Far) /\ fftOn \subseteq MeterVms
    BY <1>1, <1>2
  <2> QED
    BY <1>1, <2>1, <2>2 DEF MeterInit, MeterTypes
<1>5. MeterHeld
  BY <1>1, <1>3 DEF MeterHeld
<1> QED
  BY <1>4, <1>5 DEF MeterInit, MeterInv

LEMMA HoldsType == MeterTypes => /\ Holds \in Nat /\ Cardinality(fftOn) \in Nat /\ Cardinality(Far) \in Nat
                                 /\ Holds = Cardinality(fftOn) + hosts + Cardinality(Far)
<1> SUFFICES ASSUME MeterTypes
             PROVE  /\ Holds \in Nat /\ Cardinality(fftOn) \in Nat /\ Cardinality(Far) \in Nat
                    /\ Holds = Cardinality(fftOn) + hosts + Cardinality(Far)
  OBVIOUS
<1>1. Cardinality(fftOn) \in Nat /\ Cardinality(Far) \in Nat /\ hosts \in Nat
  BY FS_CardinalityType DEF MeterTypes
<1> QED
  BY <1>1 DEF Holds, Far

\* The service thread changes the count by as much as the holds change.
LEMMA CountInv ==
    ASSUME MeterInv, NEW n \in Nat, Count(n), MeterTypes',
           fftCount = Holds => n = Holds'
    PROVE  MeterInv'
<1>1. /\ fftCount' = n /\ fftEnabled' = (n > 0)
      /\ raced' = (raced \/ (n # fftCount /\ hostPc # "out"))
      /\ UNCHANGED <<hostPc, hostLoad, hosts>>
  BY DEF Count
<1>2. ~raced' => ~raced /\ (hostPc # "out" => n = fftCount)
  BY <1>1 DEF MeterInv, MeterTypes
<1>3. MeterHeld'
  BY <1>1, <1>2 DEF MeterInv, MeterHeld
<1> QED
  BY <1>1, <1>2, <1>3 DEF MeterInv

LEMMA CountTypes ==
    ASSUME MeterTypes, NEW n \in Nat, Count(n)
    PROVE  /\ fftCount' \in Nat
           /\ hostPc' \in {"out", "on", "off"} /\ hostLoad' \in Nat /\ hosts' \in Nat
  BY DEF Count, MeterTypes

\* One tracked VM more or less.
LEMMA TrackedFacts ==
    ASSUME MeterTypes, NEW o \in MeterVms, UNCHANGED <<farHolds, hosts>>
    PROVE  /\ IsFiniteSet(fftOn \cup {o}) /\ IsFiniteSet(fftOn \ {o}) /\ Far' = Far
           /\ fftOn' = fftOn => Holds' = Holds
           /\ o \notin fftOn /\ fftOn' = fftOn \cup {o} => Holds' = Holds + 1
           /\ o \in fftOn /\ fftOn' = fftOn \ {o} => Holds' = Holds - 1
           /\ o \in fftOn => Holds > 0
<1>1. Far' = Far
  BY DEF Far
<1>2. /\ IsFiniteSet(fftOn \cup {o})
      /\ Cardinality(fftOn \cup {o}) = IF o \in fftOn THEN Cardinality(fftOn) ELSE Cardinality(fftOn) + 1
  BY FS_AddElement DEF MeterTypes
<1>3. /\ IsFiniteSet(fftOn \ {o})
      /\ Cardinality(fftOn \ {o}) = IF o \in fftOn THEN Cardinality(fftOn) - 1 ELSE Cardinality(fftOn)
  BY FS_RemoveElement DEF MeterTypes
<1>4. Holds' = Cardinality(fftOn') + hosts + Cardinality(Far)
  BY <1>1 DEF Holds, Far
<1>5. o \in fftOn => Cardinality(fftOn) > 0
  <2>1. Cardinality(fftOn \ {o}) \in Nat
    BY <1>3, FS_CardinalityType
  <2> QED
    BY <1>3, <2>1, HoldsType
<1>7. /\ Cardinality(fftOn) \in Nat /\ Cardinality(Far) \in Nat /\ hosts \in Nat
      /\ Holds = Cardinality(fftOn) + hosts + Cardinality(Far)
  BY HoldsType DEF MeterTypes
<1>8. fftOn' = fftOn => Holds' = Holds
  BY <1>4, <1>7
<1>9. o \notin fftOn /\ fftOn' = fftOn \cup {o} => Holds' = Holds + 1
  BY <1>2, <1>4, <1>7
<1>10. o \in fftOn /\ fftOn' = fftOn \ {o} => Holds' = Holds - 1
  BY <1>3, <1>4, <1>7
<1>11. o \in fftOn => Holds > 0
  BY <1>5, <1>7
<1> QED
  BY <1>1, <1>2, <1>3, <1>8, <1>9, <1>10, <1>11

LEMMA TrackedInv ==
    ASSUME MeterInv, NEW o \in MeterVms, FftEnable(o) \/ FftDisable(o) \/ FftSweep(o)
    PROVE  MeterInv'
<1>1. UNCHANGED farHolds /\ MeterTypes
  BY DEF FftEnable, FftDisable, FftSweep, MeterInv
<1>2. Holds \in Nat /\ fftCount \in Nat
  BY <1>1, HoldsType DEF MeterTypes
<1>3. CASE FftEnable(o)
  <2>1. PICK n \in Nat : Count(n) /\ n = IF o \in fftOn THEN fftCount ELSE fftCount + 1
    BY <1>2, <1>3 DEF FftEnable
  <2>2. fftOn' = fftOn \cup {o} /\ UNCHANGED <<hosts, hostPc, hostLoad>>
    BY <1>3, <2>1 DEF FftEnable, Count
  <2>3. MeterTypes'
    <3>1. IsFiniteSet(fftOn') /\ Far' = Far /\ fftOn' \subseteq MeterVms
      BY <1>1, <2>2, TrackedFacts DEF MeterTypes
    <3>2. farHolds' = farHolds
      BY <1>1
    <3> QED
      BY <1>1, <2>1, <3>1, <3>2, CountTypes DEF MeterTypes
  <2>4. o \in fftOn => fftOn' = fftOn
    BY <2>2
  <2>5. fftCount = Holds => n = Holds'
    BY <1>1, <2>1, <2>2, <2>4, TrackedFacts
  <2> QED
    BY <2>1, <2>3, <2>5, CountInv
<1>4. CASE FftDisable(o) \/ FftSweep(o)
  <2>1. PICK n \in Nat : Count(n) /\ n = IF o \in fftOn THEN Less(fftCount) ELSE fftCount
    <3>1. Less(fftCount) \in Nat
      BY <1>2 DEF Less
    <3> QED
      BY <1>2, <1>4, <3>1 DEF FftDisable, FftSweep
  <2>2. fftOn' = fftOn \ {o} /\ UNCHANGED <<hosts, hostPc, hostLoad>>
    BY <1>4, <2>1 DEF FftDisable, FftSweep, Count
  <2>3. MeterTypes'
    <3>1. IsFiniteSet(fftOn') /\ Far' = Far /\ fftOn' \subseteq MeterVms
      BY <1>1, <2>2, TrackedFacts DEF MeterTypes
    <3>2. farHolds' = farHolds
      BY <1>1
    <3> QED
      BY <1>1, <2>1, <3>1, <3>2, CountTypes DEF MeterTypes
  <2>4. o \notin fftOn => fftOn' = fftOn
    BY <2>2
  <2>5. fftCount = Holds => n = Holds'
    BY <1>1, <1>2, <2>1, <2>2, <2>4, TrackedFacts DEF Less
  <2> QED
    BY <2>1, <2>3, <2>5, CountInv
<1> QED
  BY <1>3, <1>4

\* An untracked VM asks or gives back.
LEMMA FarInv ==
    ASSUME MeterInv, NEW o \in MeterFarVms, FftFar(o)
    PROVE  MeterInv'
<1>1. MeterTypes /\ UNCHANGED fftOn
  BY DEF FftFar, MeterInv
<1>2. Holds \in Nat /\ fftCount \in Nat /\ hosts \in Nat /\ Cardinality(fftOn) \in Nat
      /\ Cardinality(Far) \in Nat /\ Holds = Cardinality(fftOn) + hosts + Cardinality(Far)
  BY <1>1, HoldsType DEF MeterTypes
<1>3. Holds' = Cardinality(fftOn) + hosts' + Cardinality(Far')
  BY <1>1 DEF Holds, Far
<1>4. CASE farHolds[o] = 0 /\ Count(fftCount + 1) /\ farHolds' = [farHolds EXCEPT ![o] = 1]
  <2>1. Far' = Far \cup {o} /\ o \notin Far
    BY <1>1, <1>4 DEF Far, MeterTypes
  <2>2. IsFiniteSet(Far') /\ Cardinality(Far') = Cardinality(Far) + 1
    BY <1>1, <2>1, FS_AddElement DEF MeterTypes
  <2>3. fftCount + 1 \in Nat /\ UNCHANGED <<hosts, hostPc, hostLoad>>
    BY <1>2, <1>4 DEF Count
  <2>4. MeterTypes'
    BY <1>1, <1>4, <2>2, <2>3 DEF MeterTypes, Count
  <2>5. fftCount = Holds => fftCount + 1 = Holds'
    BY <1>2, <1>3, <2>2, <2>3
  <2> QED
    BY <1>4, <2>3, <2>4, <2>5, CountInv
<1>5. CASE farHolds[o] = 1 /\ Count(Less(fftCount)) /\ farHolds' = [farHolds EXCEPT ![o] = 0]
  <2>1. Far' = Far \ {o} /\ o \in Far
    BY <1>1, <1>5 DEF Far, MeterTypes
  <2>2. IsFiniteSet(Far') /\ Cardinality(Far') = Cardinality(Far) - 1 /\ Cardinality(Far') \in Nat
    BY <1>1, <2>1, FS_RemoveElement, FS_CardinalityType DEF MeterTypes
  <2>3. Less(fftCount) \in Nat /\ UNCHANGED <<hosts, hostPc, hostLoad>>
    BY <1>2, <1>5 DEF Count, Less
  <2>4. MeterTypes'
    BY <1>1, <1>5, <2>2, <2>3 DEF MeterTypes, Count
  <2>5. fftCount = Holds => Less(fftCount) = Holds'
    BY <1>2, <1>3, <2>2, <2>3 DEF Less
  <2> QED
    BY <1>5, <2>3, <2>4, <2>5, CountInv
<1> QED
  BY <1>4, <1>5 DEF FftFar

LEMMA HoldLoadInv == ASSUME MeterInv, HoldLoad PROVE MeterInv'
<1>1. Far' = Far /\ Holds' = Holds
  BY DEF HoldLoad, Far, Holds
<1> QED
  BY <1>1 DEF HoldLoad, MeterInv, MeterTypes, MeterHeld

LEMMA HoldStoreInv == ASSUME MeterInv, HoldStore PROVE MeterInv'
<1>1. Far' = Far /\ UNCHANGED <<fftOn, farHolds, raced>>
  BY DEF HoldStore, Far
<1>2. MeterTypes
  BY DEF MeterInv
<1>3. Holds \in Nat /\ fftCount \in Nat /\ hosts \in Nat /\ Cardinality(fftOn) \in Nat
      /\ Cardinality(Far) \in Nat /\ Holds = Cardinality(fftOn) + hosts + Cardinality(Far)
  BY <1>2, HoldsType DEF MeterTypes
<1>4. Holds' = Cardinality(fftOn) + hosts' + Cardinality(Far)
  BY <1>1 DEF Holds, Far
<1>5. /\ fftCount' = (IF hostPc = "on" THEN hostLoad + 1 ELSE Less(hostLoad))
      /\ fftEnabled' = (fftCount' > 0)
      /\ hosts' = (IF hostPc = "on" THEN hosts + 1 ELSE hosts - 1)
      /\ hostPc' = "out" /\ hostLoad' = 0 /\ hostPc \in {"on", "off"}
  BY <1>2 DEF HoldStore, MeterTypes
<1>6. hosts' \in Nat /\ fftCount' \in Nat
  BY <1>2, <1>3, <1>5 DEF MeterInv, MeterTypes, Less
<1>7. MeterTypes'
  BY <1>1, <1>2, <1>5, <1>6 DEF MeterTypes
<1>8. ~raced => fftCount' = Holds'
  BY <1>3, <1>4, <1>5 DEF MeterInv, MeterHeld, Less
<1> QED
  BY <1>1, <1>5, <1>7, <1>8 DEF MeterInv, MeterHeld

LEMMA MeterNextInv == MeterInv /\ [MeterNext]_mtvars => MeterInv'
<1> SUFFICES ASSUME MeterInv, [MeterNext]_mtvars PROVE MeterInv'
  OBVIOUS
<1>1. CASE UNCHANGED mtvars
  <2>1. Far' = Far /\ Holds' = Holds
    BY <1>1 DEF mtvars, Far, Holds
  <2> QED
    BY <1>1, <2>1 DEF mtvars, MeterInv, MeterTypes, MeterHeld
<1>2. CASE MeterNext
  BY <1>2, TrackedInv, FarInv, HoldLoadInv, HoldStoreInv DEF MeterNext
<1> QED
  BY <1>1, <1>2

-----------------------------------------------------------------------------
(* Sets, and folds over them. *)

\* A non-empty set of naturals has a least element.
LEMMA LeastNat ==
    ASSUME NEW S \in SUBSET Nat, S # {}
    PROVE  \E m \in S : \A k \in S : m <= k
<1> DEFINE Before == {ss \in Nat \X Nat : ss[1] < ss[2]}
<1>1. IsWellFoundedOn(Before, Nat)
  BY NatLessThanWellFounded DEF OpToRel
<1> HIDE DEF Before
<1>2. PICK m \in S : \A k \in S : ~(<<k, m>> \in Before)
  BY <1>1, WFMin
<1>3. ASSUME NEW k \in S
      PROVE  m <= k
  <2>1. <<k, m>> \in Nat \X Nat /\ ~(<<k, m>> \in Before)
    BY <1>2
  <2> QED
    BY <2>1 DEF Before
<1> QED
  BY <1>3

LEMMA LeastIsMin ==
    ASSUME NEW S \in SUBSET Nat, S # {}
    PROVE  Min(S) \in S /\ \A k \in S : Min(S) <= k
  BY LeastNat DEF Min

\* Induction over the naturals, about a set.
LEMMA SetOfAllNats ==
    ASSUME NEW Good \in SUBSET Nat, 0 \in Good, \A n \in Good : n + 1 \in Good
    PROVE  Good = Nat
<1> SUFFICES ASSUME Nat \ Good # {} PROVE FALSE
  OBVIOUS
<1>1. PICK m \in Nat \ Good : \A k \in Nat \ Good : m <= k
  BY LeastNat, Nat \ Good \in SUBSET Nat
<1>2. m # 0 /\ m - 1 \in Nat /\ m - 1 + 1 = m /\ ~(m <= m - 1)
  BY <1>1
<1>3. m - 1 \in Good
  BY <1>1, <1>2
<1> QED
  BY <1>1, <1>2, <1>3

\* Induction over the subsets of a finite set.
LEMMA SubsetInduction ==
    ASSUME NEW S, IsFiniteSet(S), NEW Good \in SUBSET (SUBSET S), {} \in Good,
           \A u \in SUBSET S : u # {} /\ (\A x \in u : u \ {x} \in Good) => u \in Good
    PROVE  \A u \in SUBSET S : u \in Good
<1> SUFFICES ASSUME NEW v \in SUBSET S, v \notin Good PROVE FALSE
  OBVIOUS
<1> DEFINE bad == {Cardinality(u) : u \in (SUBSET S) \ Good}
<1>1. ASSUME NEW u \in SUBSET S
      PROVE  IsFiniteSet(u) /\ Cardinality(u) \in Nat
  BY FS_Subset, FS_CardinalityType
<1>2. bad \in SUBSET Nat /\ bad # {}
  BY <1>1
<1>3. PICK m \in bad : \A k \in bad : m <= k
  BY <1>2, LeastNat
<1>4. PICK u \in (SUBSET S) \ Good : m = Cardinality(u)
  BY <1>3
<1>5. ASSUME NEW x \in u
      PROVE  u \ {x} \in Good
  <2>1. Cardinality(u \ {x}) = m - 1 /\ m \in Nat
    BY <1>1, <1>4, <1>5, FS_RemoveElement
  <2>2. u \ {x} \in SUBSET S /\ ~(m <= m - 1)
    BY <2>1
  <2> QED
    BY <1>3, <2>1, <2>2
<1>6. u # {}
  BY <1>4
<1> QED
  BY <1>4, <1>5, <1>6

\* The elements of a set in the order in which a fold takes them.
Pick(s) == CHOOSE x \in s : TRUE

LEMMA PickIn == ASSUME NEW s, s # {} PROVE Pick(s) \in s
  BY DEF Pick

IsFold(f, S, V, b, g) ==
    /\ f \in [SUBSET S -> V]
    /\ \A s \in SUBSET S : f[s] = IF s = {} THEN b ELSE g[<<Pick(s), f[s \ {Pick(s)}]>>]

LEMMA FoldExists ==
    ASSUME NEW S, IsFiniteSet(S), NEW V, NEW b \in V, NEW g \in [S \X V -> V]
    PROVE  \E f : IsFold(f, S, V, b, g)
<1> DEFINE Upto(n) == {s \in SUBSET S : Cardinality(s) <= n}
           Folds(f, n) == /\ f \in [Upto(n) -> V]
                          /\ \A s \in Upto(n) :
                                f[s] = IF s = {} THEN b ELSE g[<<Pick(s), f[s \ {Pick(s)}]>>]
           Good == {n \in Nat : \E f : Folds(f, n)}
<1>1. ASSUME NEW s \in SUBSET S, s # {}
      PROVE  /\ Pick(s) \in s /\ Pick(s) \in S /\ s \ {Pick(s)} \in SUBSET S
             /\ Cardinality(s) \in Nat /\ Cardinality(s \ {Pick(s)}) = Cardinality(s) - 1
             /\ Cardinality(s) # 0
  <2>1. IsFiniteSet(s) /\ Pick(s) \in s
    BY <1>1, PickIn, FS_Subset
  <2> QED
    BY <1>1, <2>1, FS_RemoveElement, FS_CardinalityType, FS_EmptySet
<1>2. Cardinality({}) = 0
  BY FS_EmptySet
<1>3. ASSUME NEW n \in Nat, NEW s \in Upto(n + 1), s # {}
      PROVE  s \ {Pick(s)} \in Upto(n)
  BY <1>1, <1>3
<1>4. ASSUME NEW n \in Nat, NEW s \in Upto(n), s # {}
      PROVE  s \ {Pick(s)} \in Upto(n)
  BY <1>1, <1>4
<1>5. ASSUME NEW n \in Nat
      PROVE  Upto(n) \subseteq Upto(n + 1)
  <2>1. ASSUME NEW s \in SUBSET S
        PROVE  Cardinality(s) \in Nat
    BY FS_Subset, FS_CardinalityType
  <2> QED
    BY <2>1
<1>6. 0 \in Good
  <2> DEFINE f == [s \in Upto(0) |-> b]
  <2>1. ASSUME NEW s \in Upto(0)
        PROVE  s = {}
    <3>1. s # {} => Cardinality(s) \in Nat /\ Cardinality(s) # 0
      BY <1>1
    <3> QED
      BY <3>1
  <2>2. Folds(f, 0)
    BY <2>1
  <2> QED
    BY <2>2
<1>7. ASSUME NEW n \in Good
      PROVE  n + 1 \in Good
  <2>1. PICK f : Folds(f, n)
    BY <1>7
  <2>2. n \in Nat
    BY <1>7
  <2> DEFINE h == [s \in Upto(n + 1) |-> IF s = {} THEN b ELSE g[<<Pick(s), f[s \ {Pick(s)}]>>]]
  <2> HIDE DEF Good
  <2>3. ASSUME NEW s \in Upto(n + 1), s # {}
        PROVE  s \ {Pick(s)} \in Upto(n) /\ Pick(s) \in S
    BY <1>1, <1>3, <2>2, <2>3
  <2>4. h \in [Upto(n + 1) -> V]
    <3>1. ASSUME NEW s \in Upto(n + 1), s # {}
          PROVE  g[<<Pick(s), f[s \ {Pick(s)}]>>] \in V
      <4>1. f[s \ {Pick(s)}] \in V
        BY <2>1, <2>3, <3>1
      <4> QED
        BY <2>3, <3>1, <4>1
    <3> QED
      BY <3>1
  <2>5. ASSUME NEW s \in Upto(n)
        PROVE  h[s] = f[s]
    BY <1>5, <2>1, <2>2, <2>5
  <2>6. ASSUME NEW s \in Upto(n + 1)
        PROVE  h[s] = IF s = {} THEN b ELSE g[<<Pick(s), h[s \ {Pick(s)}]>>]
    <3>1. CASE s = {}
      BY <2>6, <3>1
    <3>2. CASE s # {}
      <4>1. h[s \ {Pick(s)}] = f[s \ {Pick(s)}]
        BY <2>3, <2>5, <2>6, <3>2
      <4> QED
        BY <2>6, <3>2, <4>1
    <3> QED
      BY <3>1, <3>2
  <2> HIDE DEF h
  <2>7. Folds(h, n + 1)
    BY <2>4, <2>6
  <2> HIDE DEF Folds
  <2>8. \E x : Folds(x, n + 1)
    BY <2>7
  <2> QED
    BY <2>2, <2>8 DEF Good
<1>8. Good = Nat
  <2> HIDE DEF Good
  <2>1. Good \in SUBSET Nat
    BY DEF Good
  <2> QED
    BY <1>6, <1>7, <2>1, SetOfAllNats
<1>9. Cardinality(S) \in Nat
  BY FS_CardinalityType
<1>10. PICK f : Folds(f, Cardinality(S))
  BY <1>8, <1>9
<1>11. Upto(Cardinality(S)) = SUBSET S
  BY FS_Subset
<1>12. IsFold(f, S, V, b, g)
  BY <1>10, <1>11 DEF IsFold
<1> QED
  BY <1>12

-----------------------------------------------------------------------------
(* The pool (audio_pool.c). *)

ObjectType ==
    [in_use : BOOLEAN, chain : Seq(Block), size : Nat, refs : Nat, gen : Nat,
     owner : Owner \cup Streamers \cup {0}, rate : Rates \cup {0}]

PoolType ==
    [objects : [ObjSlot -> ObjectType], gens : [ObjSlot -> Nat], used : SUBSET Block, free : Int]

Handles == ObjHandle \cup {NoObject}

\* What a slot that is not in use holds; which blocks are whose.
PoolOK(p) ==
    /\ p \in PoolType
    /\ \A s \in ObjSlot : ~p.objects[s].in_use => p.objects[s] = NoObj
    /\ BlocksExact(p)

ChainOf(p, s) == Range(p.objects[s].chain)

LEMMA NoObjType == NoObj \in ObjectType /\ Range(NoObj.chain) = {} /\ NoObj.chain = <<>>
  BY DEF NoObj, ObjectType, Range

LEMMA BlocksFinite == ASSUME NEW u \in SUBSET Block PROVE IsFiniteSet(u) /\ Cardinality(u) \in Nat
<1>1. IsFiniteSet(Block)
  BY PoolAssumption, FS_Interval DEF Block
<1> QED
  BY <1>1, FS_Subset, FS_CardinalityType

LEMMA NextGenType ==
    ASSUME NEW g \in Nat, NEW mod \in Nat, mod > 1 PROVE NextGen(g, mod) \in Nat \ {0}
<1>1. (g + 1) % mod \in Nat
  OBVIOUS
<1> QED
  BY <1>1 DEF NextGen

LEMMA PoolInit == PoolOK(audio_pool_init)
<1> DEFINE p == audio_pool_init
<1>1. /\ p = [objects |-> [s \in ObjSlot |-> NoObj], gens |-> [s \in ObjSlot |-> 1],
              used |-> {}, free |-> BlockCount]
  BY DEF audio_pool_init
<1>2. p \in PoolType
  BY <1>1, NoObjType, PoolAssumption DEF PoolType
<1>3. \A s \in ObjSlot : p.objects[s] = NoObj
  BY <1>1
<1>4. BlocksExact(p)
  <2>1. \A s \in ObjSlot : Range(p.objects[s].chain) = {}
    BY <1>3, NoObjType
  <2>2. \A s \in ObjSlot : IsInjective(p.objects[s].chain)
    BY <1>3, NoObjType DEF IsInjective
  <2>3. \A s \in ObjSlot : ~p.objects[s].in_use
    BY <1>3 DEF NoObj
  <2>4. p.free = BlockCount - Cardinality(p.used)
    BY <1>1, FS_EmptySet, PoolAssumption
  <2>5. p.used = UNION {Range(p.objects[s].chain) : s \in ObjSlot}
    BY <1>1, <2>1
  <2> QED
    BY <1>1, <2>1, <2>2, <2>3, <2>4, <2>5 DEF BlocksExact
<1> QED
  BY <1>2, <1>3, <1>4 DEF PoolOK

\* A count goes up or down.
WithCount(p, s, n) == [p EXCEPT !.objects[s].refs = n]

LEMMA CountPool ==
    ASSUME NEW p, PoolOK(p), NEW s \in ObjSlot, p.objects[s].in_use, NEW n \in Nat,
           NEW q, q = WithCount(p, s, n)
    PROVE  /\ PoolOK(q)
           /\ q.objects = [p.objects EXCEPT ![s] = [p.objects[s] EXCEPT !.refs = n]]
<1>1. /\ p \in PoolType /\ BlocksExact(p)
      /\ \A t \in ObjSlot : ~p.objects[t].in_use => p.objects[t] = NoObj
  BY DEF PoolOK
<1>2. /\ q.objects = [p.objects EXCEPT ![s] = [p.objects[s] EXCEPT !.refs = n]]
      /\ q.gens = p.gens /\ q.used = p.used /\ q.free = p.free
  BY <1>1 DEF PoolType, WithCount
<1>3. q \in PoolType
  <2>1. [p.objects[s] EXCEPT !.refs = n] \in ObjectType
    BY <1>1 DEF PoolType, ObjectType
  <2>2. q.objects \in [ObjSlot -> ObjectType]
    BY <1>1, <1>2, <2>1 DEF PoolType
  <2>3. q = [objects |-> q.objects, gens |-> q.gens, used |-> q.used, free |-> q.free]
    BY <1>1 DEF PoolType, WithCount
  <2>4. q.gens \in [ObjSlot -> Nat] /\ q.used \in SUBSET Block /\ q.free \in Int
    BY <1>1, <1>2 DEF PoolType
  <2> HIDE DEF PoolType
  <2> QED
    BY <2>2, <2>3, <2>4 DEF PoolType
<1>4. \A t \in ObjSlot : /\ q.objects[t].chain = p.objects[t].chain
                         /\ q.objects[t].in_use = p.objects[t].in_use
                         /\ q.objects[t].size = p.objects[t].size
                         /\ t # s => q.objects[t] = p.objects[t]
  BY <1>1, <1>2 DEF PoolType, ObjectType
<1>5. {Range(q.objects[t].chain) : t \in ObjSlot} = {Range(p.objects[t].chain) : t \in ObjSlot}
  BY <1>4
<1>6. BlocksExact(q)
  BY <1>1, <1>2, <1>4, <1>5 DEF BlocksExact
<1>7. \A t \in ObjSlot : ~q.objects[t].in_use => q.objects[t] = NoObj
  BY <1>1, <1>4
<1> QED
  BY <1>2, <1>3, <1>6, <1>7 DEF PoolOK

\* An object goes, and its blocks with it.
LEMMA FreePool ==
    ASSUME NEW p, PoolOK(p), NEW s \in ObjSlot, NEW q, q = free_object(p, s)
    PROVE  /\ PoolOK(q) /\ q.objects = [p.objects EXCEPT ![s] = NoObj]
<1> DEFINE gone == ChainOf(p, s) \cap p.used
<1>1. /\ p \in PoolType /\ BlocksExact(p)
      /\ \A t \in ObjSlot : ~p.objects[t].in_use => p.objects[t] = NoObj
  BY DEF PoolOK
<1>2. /\ q.objects = [p.objects EXCEPT ![s] = NoObj]
      /\ q.gens = [p.gens EXCEPT ![s] = NextGen(p.gens[s], GenMod)]
      /\ q.used = p.used \ gone /\ q.free = p.free + Cardinality(gone)
      /\ DOMAIN q = DOMAIN p
      /\ q = [objects |-> q.objects, gens |-> q.gens, used |-> q.used, free |-> q.free]
  BY <1>1 DEF PoolType, free_object, free_chain, ChainOf
<1>3. gone \in SUBSET Block /\ p.used \in SUBSET Block /\ p.free \in Int /\ gone \subseteq p.used
  BY <1>1 DEF PoolType
<1>4. Cardinality(gone) \in Nat
  BY <1>3, BlocksFinite
<1>5. q \in PoolType
  <2>1. NextGen(p.gens[s], GenMod) \in Nat
    <3>1. p.gens[s] \in Nat /\ GenMod \in Nat /\ GenMod > 1
      BY <1>1, PoolAssumption DEF PoolType
    <3> QED
      BY <3>1, NextGenType
  <2>2. q.objects \in [ObjSlot -> ObjectType]
    BY <1>1, <1>2, NoObjType DEF PoolType
  <2>3. q.gens \in [ObjSlot -> Nat]
    BY <1>1, <1>2, <2>1 DEF PoolType
  <2>4. q.used \in SUBSET Block /\ q.free \in Int
    BY <1>2, <1>3, <1>4
  <2> QED
    BY <1>2, <2>2, <2>3, <2>4 DEF PoolType
<1>6. \A t \in ObjSlot : q.objects[t] = IF t = s THEN NoObj ELSE p.objects[t]
  BY <1>1, <1>2 DEF PoolType
<1>7. \A t \in ObjSlot : ChainOf(q, t) = IF t = s THEN {} ELSE ChainOf(p, t)
  BY <1>6, NoObjType DEF ChainOf
<1>8. /\ \A t \in ObjSlot : ChainOf(p, t) \subseteq p.used
      /\ \A t, u \in ObjSlot : t # u => ChainOf(p, t) \cap ChainOf(p, u) = {}
      /\ p.used = UNION {ChainOf(p, t) : t \in ObjSlot}
      /\ p.free = BlockCount - Cardinality(p.used)
  BY <1>1 DEF BlocksExact, ChainOf
<1>9. gone = ChainOf(p, s)
  BY <1>8
<1>10. BlocksExact(q)
  <2>1. \A t \in ObjSlot : ChainOf(q, t) \subseteq q.used
    BY <1>2, <1>7, <1>8, <1>9
  <2>2. \A t \in ObjSlot : IsInjective(q.objects[t].chain)
    BY <1>1, <1>6, NoObjType DEF BlocksExact, IsInjective
  <2>3. \A t \in ObjSlot : q.objects[t].in_use => Len(q.objects[t].chain) * BlockSize >= q.objects[t].size
    <3> SUFFICES ASSUME NEW t \in ObjSlot, q.objects[t].in_use
                 PROVE  Len(q.objects[t].chain) * BlockSize >= q.objects[t].size
      OBVIOUS
    <3>1. t # s
      BY <1>6 DEF NoObj
    <3> QED
      BY <1>1, <1>6, <3>1 DEF BlocksExact
  <2>4. \A t, u \in ObjSlot : t # u => ChainOf(q, t) \cap ChainOf(q, u) = {}
    BY <1>7, <1>8
  <2>5. q.used = UNION {ChainOf(q, t) : t \in ObjSlot}
    <3>1. ASSUME NEW b \in q.used PROVE \E t \in ObjSlot : b \in ChainOf(q, t)
      <4>1. b \in p.used /\ b \notin ChainOf(p, s)
        BY <1>2, <1>9, <3>1
      <4>2. PICK t \in ObjSlot : b \in ChainOf(p, t)
        BY <1>8, <4>1
      <4> QED
        BY <1>7, <4>1, <4>2
    <3> QED
      BY <2>1, <3>1
  <2>6. q.free = BlockCount - Cardinality(q.used)
    <3>1. Cardinality(q.used) = Cardinality(p.used) - Cardinality(p.used \cap gone)
      BY <1>2, <1>3, BlocksFinite, FS_Difference
    <3>2. p.used \cap gone = gone
      BY <1>3
    <3>3. Cardinality(p.used) \in Nat
      BY <1>3, BlocksFinite
    <3>4. q.free = p.free + Cardinality(gone) /\ p.free = BlockCount - Cardinality(p.used)
      BY <1>2, <1>8
    <3>5. Cardinality(q.used) = Cardinality(p.used) - Cardinality(gone)
      BY <3>1, <3>2
    <3> HIDE DEF gone
    <3> QED
      BY <1>4, <3>3, <3>4, <3>5, PoolAssumption
  <2> QED
    BY <2>1, <2>2, <2>3, <2>4, <2>5, <2>6 DEF BlocksExact, ChainOf
<1>11. \A t \in ObjSlot : ~q.objects[t].in_use => q.objects[t] = NoObj
  BY <1>1, <1>6
<1> QED
  BY <1>2, <1>5, <1>10, <1>11 DEF PoolOK

\* What happens to the slots of the pool when a reference is dropped or taken.
LEMMA DropRefPool ==
    ASSUME NEW p, PoolOK(p), NEW s \in ObjSlot, NEW q, q = DropRef(p, s)
    PROVE  /\ PoolOK(q)
           /\ \A t \in ObjSlot : t # s => q.objects[t] = p.objects[t]
           /\ p.objects[s].refs <= 1 => ~q.objects[s].in_use
           /\ p.objects[s].refs > 1 =>
                 q.objects[s] = [p.objects[s] EXCEPT !.refs = p.objects[s].refs - 1]
<1>1. p \in PoolType /\ p.objects \in [ObjSlot -> ObjectType] /\ p.objects[s].refs \in Nat
  BY DEF PoolOK, PoolType, ObjectType
<1>2. CASE p.objects[s].refs <= 1
  <2>1. PoolOK(q) /\ q.objects = [p.objects EXCEPT ![s] = NoObj]
    BY <1>2, FreePool DEF DropRef
  <2> QED
    BY <1>1, <1>2, <2>1 DEF NoObj
<1>3. CASE p.objects[s].refs > 1
  <2>1. p.objects[s].in_use
    BY <1>3 DEF PoolOK, NoObj
  <2>2. PICK n \in Nat : n = p.objects[s].refs - 1
    BY <1>1, <1>3
  <2>3. q = WithCount(p, s, n)
    BY <1>1, <1>3, <2>2 DEF DropRef, WithCount
  <2>4. PoolOK(q) /\ q.objects = [p.objects EXCEPT ![s] = [p.objects[s] EXCEPT !.refs = n]]
    BY <2>1, <2>3, CountPool
  <2> QED
    BY <1>1, <1>3, <2>2, <2>4
<1> QED
  BY <1>1, <1>2, <1>3

LEMMA ResolveFacts ==
    ASSUME NEW p, NEW h \in Handles, resolve(p, h)
    PROVE  h # NoObject /\ h \in ObjHandle /\ h[1] \in ObjSlot /\ p.objects[h[1]].in_use
           /\ p.objects[h[1]].gen = h[2]
  BY DEF resolve, Handles, ObjHandle

LEMMA UnrefPool ==
    ASSUME NEW p, PoolOK(p), NEW h \in Handles
    PROVE  PoolOK(audio_pool_unref(p, h))
  BY ResolveFacts, DropRefPool DEF audio_pool_unref

LEMMA RefPool ==
    ASSUME NEW p, PoolOK(p), NEW h \in Handles, NEW q, q = audio_pool_ref(p, h)
    PROVE  /\ PoolOK(q)
           /\ ~resolve(p, h) => q = p
           /\ resolve(p, h) => q.objects = [p.objects EXCEPT ![h[1]] =
                                   [p.objects[h[1]] EXCEPT !.refs = p.objects[h[1]].refs + 1]]
<1>1. p \in PoolType
  BY DEF PoolOK
<1>2. CASE resolve(p, h)
  <2>1. h[1] \in ObjSlot /\ p.objects[h[1]].in_use
    BY <1>2, ResolveFacts
  <2>2. PICK n \in Nat : n = p.objects[h[1]].refs + 1
    BY <1>1, <2>1 DEF PoolType, ObjectType
  <2>3. q = WithCount(p, h[1], n)
    BY <1>1, <1>2, <2>2 DEF audio_pool_ref, WithCount
  <2>4. PoolOK(q) /\ q.objects = [p.objects EXCEPT ![h[1]] = [p.objects[h[1]] EXCEPT !.refs = n]]
    BY <2>1, <2>3, CountPool
  <2> QED
    BY <1>2, <2>2, <2>4
<1>3. CASE ~resolve(p, h)
  BY <1>3 DEF audio_pool_ref
<1> QED
  BY <1>2, <1>3

\* The blocks that cover a size.
LEMMA CeilFacts ==
    ASSUME NEW size \in Nat
    PROVE  BlocksFor(size) \in Nat \ {0} /\ BlocksFor(size) * BlockSize >= size
<1>1. PICK b \in Nat : b = BlockSize /\ b > 0
  BY PoolAssumption
<1>2. PICK x \in Nat : x = size + BlockSize - 1
  BY <1>1
<1>3. x \div b \in Nat /\ (x % b) \in 0 .. b - 1 /\ x = (b * (x \div b)) + (x % b)
  BY <1>1, SMTT(30)
<1>4. PICK d \in Nat : d = x \div b
  BY <1>3
<1>5. PICK m \in Int : m = d * b
  BY <1>1, <1>4
<1>6. m >= size
  <2>1. x = m + (x % b)
    BY <1>1, <1>3, <1>4, <1>5
  <2>2. (x % b) <= b - 1 /\ (x % b) \in Int
    BY <1>1, <1>3
  <2> QED
    BY <1>1, <1>2, <2>1, <2>2
<1>7. BlocksFor(size) = IF d = 0 THEN 1 ELSE d
  BY <1>1, <1>2, <1>4 DEF BlocksFor
<1>8. CASE d = 0
  <2>1. m = 0
    BY <1>1, <1>5, <1>8
  <2> QED
    BY <1>1, <1>6, <1>7, <1>8, <2>1
<1>9. CASE d # 0
  BY <1>1, <1>4, <1>5, <1>6, <1>7, <1>9
<1> QED
  BY <1>8, <1>9

\* The chain of a new object: blocks that were clear, each once.
LEMMA ChainFacts ==
    ASSUME NEW p, p.used \in SUBSET Block, NEW need \in Nat,
           need <= Cardinality(Block \ p.used), NEW chain, chain = alloc_chain(p, need)
    PROVE  /\ chain \in [1 .. need -> Block \ p.used] /\ IsInjective(chain)
           /\ chain \in Seq(Block) /\ Len(chain) = need
<1> DEFINE clear == Block \ p.used
           n == Cardinality(clear)
           before(b) == {c \in clear : c < b}
           rank == [b \in clear |-> Cardinality(before(b))]
<1>1. /\ IsFiniteSet(clear) /\ n \in Nat /\ clear \in SUBSET Nat
      /\ IsFiniteSet(0 .. n - 1) /\ Cardinality(0 .. n - 1) = n
  <2>1. IsFiniteSet(clear) /\ n \in Nat
    BY BlocksFinite
  <2>2. clear \in SUBSET Nat
    BY DEF Block
  <2> HIDE DEF n, clear
  <2>3. IsFiniteSet(0 .. n - 1) /\ Cardinality(0 .. n - 1) = n
    <3>1. 0 \in Int /\ n - 1 \in Int
      BY <2>1
    <3>2. /\ IsFiniteSet(0 .. n - 1)
          /\ Cardinality(0 .. n - 1) = IF 0 > n - 1 THEN 0 ELSE (n - 1) - 0 + 1
      BY <3>1, FS_Interval
    <3> QED
      BY <2>1, <3>2
  <2> QED
    BY <2>1, <2>2, <2>3
<1>2. ASSUME NEW b \in clear
      PROVE  IsFiniteSet(before(b)) /\ rank[b] \in 0 .. n - 1
  <2>1. before(b) \in SUBSET clear /\ b \in clear /\ b \notin before(b)
    BY <1>1
  <2>2. /\ IsFiniteSet(before(b)) /\ Cardinality(before(b)) \in Nat
        /\ Cardinality(before(b)) <= n /\ Cardinality(before(b)) # n
    BY <1>1, <2>1, FS_Subset, FS_CardinalityType
  <2>3. rank[b] = Cardinality(before(b))
    OBVIOUS
  <2> HIDE DEF rank, before, clear
  <2> QED
    BY <1>1, <2>2, <2>3
<1>3. ASSUME NEW b \in clear, NEW c \in clear, b < c
      PROVE  rank[b] < rank[c]
  <2>1. before(b) \in SUBSET before(c) /\ b \in before(c) /\ b \notin before(b)
    BY <1>1, <1>3
  <2>2. Cardinality(before(b)) <= Cardinality(before(c)) /\ Cardinality(before(b)) # Cardinality(before(c))
    BY <1>2, <2>1, FS_Subset
  <2>3. rank[b] = Cardinality(before(b)) /\ rank[c] = Cardinality(before(c))
    OBVIOUS
  <2> HIDE DEF rank, before, clear, n
  <2>4. rank[b] \in Int /\ rank[c] \in Int
    BY <1>1, <1>2
  <2> QED
    BY <2>2, <2>3, <2>4
<1>4. rank \in [clear -> 0 .. n - 1]
  BY <1>2
<1> HIDE DEF rank
<1>5. ASSUME NEW b \in clear, NEW c \in clear, rank[b] = rank[c]
      PROVE  b = c
  <2>1. rank[b] \in Int /\ b \in Int /\ c \in Int
    BY <1>1, <1>4
  <2>2. ~(b < c) /\ ~(c < b)
    BY <1>3, <1>5, <2>1
  <2> QED
    BY <2>1, <2>2
<1>6. \A k \in 0 .. n - 1 : \E b \in clear : rank[b] = k
  <2> HIDE DEF rank
  <2>1. rank \in Injection(clear, 0 .. n - 1)
    BY <1>4, <1>5 DEF Injection, IsInjective
  <2>2. rank \in Surjection(clear, 0 .. n - 1)
    BY <1>1, <2>1, FS_Injection
  <2> QED
    BY <2>2 DEF Surjection
<1> USE DEF rank
<1>7. \A k \in 1 .. need : chain[k] \in clear /\ rank[chain[k]] = k - 1
  <2> SUFFICES ASSUME NEW k \in 1 .. need
               PROVE  chain[k] \in clear /\ rank[chain[k]] = k - 1
    OBVIOUS
  <2>1. k - 1 \in 0 .. n - 1
    BY <1>1
  <2>2. \E b \in clear : Cardinality(before(b)) = k - 1
    BY <1>6, <2>1
  <2>3. chain[k] = CHOOSE b \in clear : Cardinality(before(b)) = k - 1
    BY DEF alloc_chain
  <2>4. chain[k] \in clear /\ Cardinality(before(chain[k])) = k - 1
    BY <2>2, <2>3
  <2> QED
    BY <2>4
<1> HIDE DEF rank
<1>8. chain \in [1 .. need -> clear]
  BY <1>7 DEF alloc_chain
<1>9. IsInjective(chain)
  <2>1. ASSUME NEW i \in 1 .. need, NEW j \in 1 .. need, chain[i] = chain[j] PROVE i = j
    <3>1. rank[chain[i]] = i - 1 /\ rank[chain[j]] = j - 1
      BY <1>7
    <3>2. i - 1 = j - 1 /\ i \in Int /\ j \in Int
      BY <2>1, <3>1
    <3> QED
      BY <3>2
  <2> QED
    BY <1>8, <2>1 DEF IsInjective
<1>10. chain \in Seq(Block) /\ Len(chain) = need
  BY <1>8
<1> QED
  BY <1>8, <1>9, <1>10

LEMMA AllocPool ==
    ASSUME NEW p, PoolOK(p), NEW size \in Nat, NEW owner \in Owner \cup Streamers \cup {0},
           NEW rate \in Rates \cup {0},
           NEW r, r = audio_pool_alloc_with_rate(p, size, owner, rate), r.res = "ok"
    PROVE  /\ PoolOK(r.pool)
           /\ r.handle[1] \in ObjSlot /\ ~p.objects[r.handle[1]].in_use
           /\ r.pool.objects[r.handle[1]].in_use /\ r.pool.objects[r.handle[1]].refs = 1
           /\ \A t \in ObjSlot : t # r.handle[1] => r.pool.objects[t] = p.objects[t]
<1> DEFINE need == BlocksFor(size)
           slot == Min(find_free_slot(p))
           chain == alloc_chain(p, need)
           obj == [in_use |-> TRUE, chain |-> chain, size |-> size, refs |-> 1,
                   gen |-> p.gens[slot], owner |-> owner, rate |-> rate]
           q == r.pool
<1>1. /\ p \in PoolType /\ BlocksExact(p)
      /\ \A t \in ObjSlot : ~p.objects[t].in_use => p.objects[t] = NoObj
  BY DEF PoolOK
<1>2. ~(need > p.free) /\ find_free_slot(p) # {}
  BY DEF audio_pool_alloc_with_rate
<1>3. /\ r.handle = <<slot, p.gens[slot]>>
      /\ q = [p EXCEPT !.objects[slot] = obj, !.used = @ \cup Range(chain), !.free = @ - need]
  BY <1>2 DEF audio_pool_alloc_with_rate
<1>4. slot \in ObjSlot /\ ~p.objects[slot].in_use /\ r.handle[1] = slot
  <2>1. find_free_slot(p) \in SUBSET Nat
    BY DEF find_free_slot, ObjSlot
  <2>2. slot \in find_free_slot(p)
    BY <1>2, <2>1, LeastIsMin
  <2> QED
    BY <1>3, <2>2 DEF find_free_slot
<1>5. /\ p.used \in SUBSET Block /\ p.free \in Int /\ p.gens[slot] \in Nat
      /\ p.objects \in [ObjSlot -> ObjectType] /\ p.gens \in [ObjSlot -> Nat]
      /\ p = [objects |-> p.objects, gens |-> p.gens, used |-> p.used, free |-> p.free]
  BY <1>1, <1>4 DEF PoolType
<1>6. /\ need \in Nat /\ need * BlockSize >= size
  BY CeilFacts
<1> HIDE DEF need, slot
<1>7. need <= Cardinality(Block \ p.used)
  <2>1. Cardinality(Block) = BlockCount /\ IsFiniteSet(Block)
    BY PoolAssumption, FS_Interval DEF Block
  <2>2. Cardinality(Block \ p.used) = Cardinality(Block) - Cardinality(Block \cap p.used)
    BY <2>1, FS_Difference
  <2>3. Block \cap p.used = p.used
    BY <1>5
  <2>4. p.free = BlockCount - Cardinality(p.used)
    BY <1>1 DEF BlocksExact
  <2>5. Cardinality(Block \ p.used) = p.free
    BY <2>1, <2>2, <2>3, <2>4
  <2> QED
    BY <1>2, <1>5, <1>6, <2>5
<1>8. /\ chain \in [1 .. need -> Block \ p.used] /\ IsInjective(chain)
      /\ chain \in Seq(Block) /\ Len(chain) = need
  BY <1>5, <1>6, <1>7, ChainFacts
<1>9. /\ Range(chain) \in SUBSET (Block \ p.used)
      /\ Cardinality(Range(chain)) = need /\ IsFiniteSet(Range(chain))
  <2>1. Range(chain) = {chain[k] : k \in 1 .. need}
    BY <1>8 DEF Range
  <2>2. chain \in Surjection(1 .. need, Range(chain)) /\ chain \in Injection(1 .. need, Range(chain))
    BY <1>8, <2>1 DEF Surjection, Injection, IsInjective
  <2>3. IsFiniteSet(1 .. need) /\ Cardinality(1 .. need) = need
    BY <1>6, FS_Interval
  <2>4. Cardinality(Range(chain)) = need /\ IsFiniteSet(Range(chain))
    BY <2>2, <2>3, FS_Surjection
  <2> QED
    BY <1>8, <2>1, <2>4
<1> HIDE DEF chain
<1>10. /\ q.objects = [p.objects EXCEPT ![slot] = obj] /\ q.gens = p.gens
       /\ q.used = p.used \cup Range(chain) /\ q.free = p.free - need
       /\ q = [objects |-> q.objects, gens |-> q.gens, used |-> q.used, free |-> q.free]
  BY <1>3, <1>5
<1>11. obj \in ObjectType
  BY <1>5, <1>8 DEF ObjectType
<1>12. q \in PoolType
  <2>1. q.objects \in [ObjSlot -> ObjectType]
    BY <1>5, <1>10, <1>11
  <2>2. q.used \in SUBSET Block /\ q.free \in Int /\ q.gens \in [ObjSlot -> Nat]
    BY <1>5, <1>6, <1>9, <1>10
  <2> QED
    BY <1>10, <2>1, <2>2 DEF PoolType
<1>13. \A t \in ObjSlot : q.objects[t] = IF t = slot THEN obj ELSE p.objects[t]
  BY <1>4, <1>5, <1>10
<1>14. /\ obj.chain = chain /\ obj.in_use = TRUE /\ obj.size = size
  OBVIOUS
<1> HIDE DEF obj, q
<1>15. \A t \in ObjSlot : ChainOf(q, t) = IF t = slot THEN Range(chain) ELSE ChainOf(p, t)
  BY <1>13, <1>14 DEF ChainOf
<1>16. ChainOf(p, slot) = {}
  BY <1>1, <1>4, NoObjType DEF ChainOf
<1>17. /\ \A t \in ObjSlot : ChainOf(p, t) \subseteq p.used
       /\ \A t, u \in ObjSlot : t # u => ChainOf(p, t) \cap ChainOf(p, u) = {}
       /\ p.used = UNION {ChainOf(p, t) : t \in ObjSlot}
       /\ p.free = BlockCount - Cardinality(p.used)
  BY <1>1 DEF BlocksExact, ChainOf
<1>18. BlocksExact(q)
  <2>1. \A t \in ObjSlot : ChainOf(q, t) \subseteq q.used
    BY <1>10, <1>15, <1>17
  <2>2. \A t \in ObjSlot : IsInjective(q.objects[t].chain)
    BY <1>1, <1>8, <1>13, <1>14 DEF BlocksExact
  <2>3. \A t \in ObjSlot : q.objects[t].in_use => Len(q.objects[t].chain) * BlockSize >= q.objects[t].size
    <3> SUFFICES ASSUME NEW t \in ObjSlot, q.objects[t].in_use
                 PROVE  Len(q.objects[t].chain) * BlockSize >= q.objects[t].size
      OBVIOUS
    <3>1. CASE t = slot
      <4>1. q.objects[t] = obj
        BY <1>13, <3>1
      <4> QED
        BY <1>6, <1>8, <1>14, <4>1
    <3>2. CASE t # slot
      BY <1>1, <1>13, <3>2 DEF BlocksExact
    <3> QED
      BY <3>1, <3>2
  <2>4. \A t, u \in ObjSlot : t # u => ChainOf(q, t) \cap ChainOf(q, u) = {}
    <3> SUFFICES ASSUME NEW t \in ObjSlot, NEW u \in ObjSlot, t # u
                 PROVE  ChainOf(q, t) \cap ChainOf(q, u) = {}
      OBVIOUS
    <3>1. ChainOf(p, t) \subseteq p.used /\ ChainOf(p, u) \subseteq p.used
          /\ ChainOf(p, t) \cap ChainOf(p, u) = {}
      BY <1>17
    <3> QED
      BY <1>9, <1>15, <3>1
  <2>5. q.used = UNION {ChainOf(q, t) : t \in ObjSlot}
    <3>1. ASSUME NEW b \in q.used PROVE \E t \in ObjSlot : b \in ChainOf(q, t)
      <4>1. CASE b \in Range(chain)
        BY <1>4, <1>15, <4>1
      <4>2. CASE b \in p.used
        <5>1. PICK t \in ObjSlot : b \in ChainOf(p, t)
          BY <1>17, <4>2
        <5> QED
          BY <1>15, <1>16, <5>1
      <4> QED
        BY <1>10, <3>1, <4>1, <4>2
    <3> QED
      BY <2>1, <3>1
  <2>6. q.free = BlockCount - Cardinality(q.used)
    <3>1. IsFiniteSet(p.used) /\ Cardinality(p.used) \in Nat
      BY <1>5, BlocksFinite
    <3>2. Cardinality(q.used) = Cardinality(p.used) + Cardinality(Range(chain))
                                 - Cardinality(p.used \cap Range(chain))
      BY <1>9, <1>10, <3>1, FS_Union
    <3>3. p.used \cap Range(chain) = {}
      BY <1>9
    <3>4. Cardinality(q.used) = Cardinality(p.used) + need
      <4>1. Cardinality(p.used \cap Range(chain)) = 0
        BY <3>3, FS_EmptySet
      <4> QED
        BY <1>6, <1>9, <3>1, <3>2, <4>1
    <3>5. q.free = p.free - need /\ p.free = BlockCount - Cardinality(p.used)
      BY <1>10, <1>17
    <3> QED
      BY <1>6, <3>1, <3>4, <3>5, PoolAssumption
  <2> QED
    BY <2>1, <2>2, <2>3, <2>4, <2>5, <2>6 DEF BlocksExact, ChainOf
<1>19. \A t \in ObjSlot : ~q.objects[t].in_use => q.objects[t] = NoObj
  BY <1>1, <1>13, <1>14
<1>20. PoolOK(q)
  BY <1>12, <1>18, <1>19 DEF PoolOK
<1>21. /\ q.objects[slot].in_use /\ q.objects[slot].refs = 1
       /\ \A t \in ObjSlot : t # slot => q.objects[t] = p.objects[t]
  <2>1. obj.refs = 1
    BY DEF obj
  <2> QED
    BY <1>4, <1>13, <1>14, <2>1
<1>22. PoolOK(r.pool) /\ r.pool.objects = q.objects
  BY <1>20 DEF q
<1> QED
  BY <1>4, <1>21, <1>22

-----------------------------------------------------------------------------
(* Voices (audio_arbiter.c, the sinks of audio_service.c). *)

Owners == Owner \cup Streamers \cup {0}

TrackType == [active : BOOLEAN, object : Handles, kind : {"none", "sfx", "music"}, owner : Owners]
ChannelType == [active : BOOLEAN, frames : Int, rate : Rates \cup {0}]
MusicSlotType == [in_use : BOOLEAN, track : Nat, kind : {"none", "pool", "file", "fmv"}, loop : Handles]

VoiceType ==
    [pool : PoolType, tracks : [Track -> TrackType], tgens : [Track -> Nat],
     channels : [Track -> ChannelType], mslots : [MusicSlot -> MusicSlotType],
     fmvSync : BOOLEAN]

\* What free tracks and player slots hold.
Cleared(v) ==
    /\ \A t \in Track : ~v.tracks[t].active => v.tracks[t] = IdleTrack
    /\ \A i \in MusicSlot : ~v.mslots[i].in_use => v.mslots[i] = IdleMusic

\* A player slot streams through a music track of its own.
SlotsMatch(v) ==
    \A i \in MusicSlot : v.mslots[i].in_use =>
        /\ v.mslots[i].track \in Track
        /\ v.tracks[v.mslots[i].track].active /\ v.tracks[v.mslots[i].track].kind = "music"
        /\ \A j \in MusicSlot :
              v.mslots[j].in_use /\ v.mslots[j].track = v.mslots[i].track => i = j

\* One clip at a time, and the drift controller is armed for it.
SyncMatch(v) ==
    /\ v.fmvSync <=> \E i \in MusicSlot : v.mslots[i].in_use /\ v.mslots[i].kind = "fmv"
    /\ \A i, j \in MusicSlot : /\ v.mslots[i].in_use /\ v.mslots[i].kind = "fmv"
                               /\ v.mslots[j].in_use /\ v.mslots[j].kind = "fmv"
                               => i = j

ChannelsMatch(v) == \A t \in Track : v.channels[t].active = v.tracks[t].active

VoiceOK(v) ==
    /\ v \in VoiceType /\ PoolOK(v.pool)
    /\ Cleared(v) /\ SlotsMatch(v) /\ SyncMatch(v) /\ ChannelsMatch(v)

LEMMA IdleTypes ==
    /\ IdleTrack \in TrackType /\ IdleMusic \in MusicSlotType /\ IdleChannel \in ChannelType
    /\ IdleTrack.active = FALSE /\ IdleMusic.in_use = FALSE /\ IdleChannel.active = FALSE
    /\ IdleTrack.object = NoObject /\ IdleMusic.loop = NoObject
  BY DEF IdleTrack, IdleMusic, IdleChannel, TrackType, MusicSlotType, ChannelType, Handles, Owners

\* Until the fold over the player slots of a track is unfolded.
SinkPool(v, ms) ==
    LET it == CHOOSE f : f = [s \in SUBSET ms |->
                IF s = {} THEN v.pool
                ELSE audio_pool_unref(f[s \ {CHOOSE x \in s : TRUE}], v.mslots[CHOOSE x \in s : TRUE].loop)]
    IN  it[ms]

Stopped(v, t, ms) ==
    [pool |-> audio_pool_unref(SinkPool(v, ms), v.tracks[t].object),
     tracks |-> [v.tracks EXCEPT ![t] = IdleTrack],
     tgens |-> [v.tgens EXCEPT ![t] = NextGen(v.tgens[t], VoiceGenMod)],
     channels |-> [v.channels EXCEPT ![t] = ResetChannel(v.channels[t])],
     mslots |-> [i \in MusicSlot |-> IF i \in ms THEN IdleMusic ELSE v.mslots[i]],
     fmvSync |-> v.fmvSync /\ \A i \in ms : v.mslots[i].kind # "fmv"]

LEMMA StopUnfolds ==
    ASSUME NEW v \in VoiceType, NEW t \in Track
    PROVE  stop_track(v, t) = Stopped(v, t, music_slot_for_track(v, t))
<1> DEFINE ms == music_slot_for_track(v, t)
           s == svc_sink_stop(v, t)
<1>1. v = [pool |-> v.pool, tracks |-> v.tracks, tgens |-> v.tgens, channels |-> v.channels,
           mslots |-> v.mslots, fmvSync |-> v.fmvSync]
  BY DEF VoiceType
<1>2. s = [v EXCEPT
            !.pool = SinkPool(v, ms),
            !.mslots = [i \in MusicSlot |-> IF i \in ms THEN IdleMusic ELSE v.mslots[i]],
            !.fmvSync = v.fmvSync /\ \A i \in ms : v.mslots[i].kind # "fmv",
            !.channels = [v.channels EXCEPT ![t] = ResetChannel(v.channels[t])]]
  BY DEF svc_sink_stop, SinkPool, FoldSet, MapThenFoldSet
<1> HIDE DEF ms
<1>3. s = [pool |-> SinkPool(v, ms), tracks |-> v.tracks, tgens |-> v.tgens,
           channels |-> [v.channels EXCEPT ![t] = ResetChannel(v.channels[t])],
           mslots |-> [i \in MusicSlot |-> IF i \in ms THEN IdleMusic ELSE v.mslots[i]],
           fmvSync |-> v.fmvSync /\ \A i \in ms : v.mslots[i].kind # "fmv"]
  BY <1>1, <1>2
<1>4. stop_track(v, t) = [s EXCEPT !.pool = audio_pool_unref(s.pool, v.tracks[t].object),
                                   !.tgens = [s.tgens EXCEPT ![t] = NextGen(s.tgens[t], VoiceGenMod)],
                                   !.tracks = [s.tracks EXCEPT ![t] = IdleTrack]]
  BY DEF stop_track
<1> HIDE DEF s
<1> QED
  BY <1>3, <1>4 DEF Stopped, ms

LEMMA SinkPoolFacts ==
    ASSUME NEW v
    PROVE  /\ SinkPool(v, {}) = v.pool
           /\ \A i : SinkPool(v, {i}) = audio_pool_unref(v.pool, v.mslots[i].loop)
<1>1. SinkPool(v, {}) = v.pool
  <2> DEFINE F(f) == f = [s \in SUBSET {} |->
                IF s = {} THEN v.pool
                ELSE audio_pool_unref(f[s \ {CHOOSE x \in s : TRUE}], v.mslots[CHOOSE x \in s : TRUE].loop)]
             it == CHOOSE f : F(f)
  <2>1. F([s \in SUBSET {} |-> v.pool])
    OBVIOUS
  <2>2. F(it)
    BY <2>1
  <2>3. it[{}] = v.pool
    BY <2>2
  <2> QED
    BY <2>3 DEF SinkPool
<1>2. ASSUME NEW i
      PROVE  SinkPool(v, {i}) = audio_pool_unref(v.pool, v.mslots[i].loop)
  <2> DEFINE F(f) == f = [s \in SUBSET {i} |->
                IF s = {} THEN v.pool
                ELSE audio_pool_unref(f[s \ {CHOOSE x \in s : TRUE}], v.mslots[CHOOSE x \in s : TRUE].loop)]
             it == CHOOSE f : F(f)
             g == [s \in SUBSET {i} |-> IF s = {} THEN v.pool
                                        ELSE audio_pool_unref(v.pool, v.mslots[i].loop)]
  <2>1. \A s \in SUBSET {i} : s # {} => s = {i} /\ (CHOOSE x \in s : TRUE) = i /\ s \ {i} = {}
    OBVIOUS
  <2>2. F(g)
    <3>1. \A s \in SUBSET {i} : s # {} => g[s \ {CHOOSE x \in s : TRUE}] = v.pool
      BY <2>1
    <3> QED
      BY <2>1, <3>1
  <2>3. F(it)
    BY <2>2
  <2>4. it[{}] = v.pool
    BY <2>3
  <2>5. it[{i}] = audio_pool_unref(it[{i} \ {CHOOSE x \in {i} : TRUE}],
                                  v.mslots[CHOOSE x \in {i} : TRUE].loop)
    BY <2>3
  <2>6. (CHOOSE x \in {i} : TRUE) = i /\ {i} \ {i} = {}
    BY <2>1
  <2> QED
    BY <2>4, <2>5, <2>6 DEF SinkPool
<1> QED
  BY <1>1, <1>2

\* A track has one player slot at most.
LEMMA SlotOfTrack ==
    ASSUME NEW v, VoiceOK(v), NEW t \in Track
    PROVE  music_slot_for_track(v, t) = {} \/ \E i \in MusicSlot : music_slot_for_track(v, t) = {i}
  BY DEF music_slot_for_track, VoiceOK, SlotsMatch

LEMMA ResetType ==
    ASSUME NEW c \in ChannelType
    PROVE  ResetChannel(c) \in ChannelType /\ ResetChannel(c).active = FALSE
  BY DEF ResetChannel, ChannelType

LEMMA StopVoice ==
    ASSUME NEW v, VoiceOK(v), NEW t \in Track, NEW w, w = stop_track(v, t)
    PROVE  VoiceOK(w)
<1> DEFINE ms == music_slot_for_track(v, t)
<1>1. /\ v \in VoiceType /\ PoolOK(v.pool)
      /\ Cleared(v) /\ SlotsMatch(v) /\ SyncMatch(v) /\ ChannelsMatch(v)
  BY DEF VoiceOK
<1>2. w = Stopped(v, t, ms)
  BY <1>1, StopUnfolds
<1>3. ms = {i \in MusicSlot : v.mslots[i].in_use /\ v.mslots[i].track = t}
  BY DEF music_slot_for_track
<1>4. ms = {} \/ \E i \in MusicSlot : ms = {i}
  BY SlotOfTrack
<1> HIDE DEF ms
<1>5. PoolOK(w.pool)
  <2>1. PoolOK(SinkPool(v, ms))
    <3>1. CASE ms = {}
      BY <1>1, <3>1, SinkPoolFacts
    <3>2. CASE \E i \in MusicSlot : ms = {i}
      <4>1. PICK i \in MusicSlot : ms = {i}
        BY <3>2
      <4>2. v.mslots[i].loop \in Handles
        BY <1>1 DEF VoiceType, MusicSlotType
      <4> QED
        BY <1>1, <4>1, <4>2, SinkPoolFacts, UnrefPool
    <3> QED
      BY <1>4, <3>1, <3>2
  <2>2. v.tracks[t].object \in Handles
    BY <1>1 DEF VoiceType, TrackType
  <2> QED
    BY <1>2, <2>1, <2>2, UnrefPool DEF Stopped
<1>6. /\ w.tracks = [v.tracks EXCEPT ![t] = IdleTrack]
      /\ w.tgens = [v.tgens EXCEPT ![t] = NextGen(v.tgens[t], VoiceGenMod)]
      /\ w.channels = [v.channels EXCEPT ![t] = ResetChannel(v.channels[t])]
      /\ w.mslots = [i \in MusicSlot |-> IF i \in ms THEN IdleMusic ELSE v.mslots[i]]
      /\ w.fmvSync = (v.fmvSync /\ \A i \in ms : v.mslots[i].kind # "fmv")
      /\ w = [pool |-> w.pool, tracks |-> w.tracks, tgens |-> w.tgens,
              channels |-> w.channels, mslots |-> w.mslots, fmvSync |-> w.fmvSync]
  BY <1>2 DEF Stopped
<1>7. /\ v.tracks \in [Track -> TrackType] /\ v.tgens \in [Track -> Nat]
      /\ v.channels \in [Track -> ChannelType] /\ v.mslots \in [MusicSlot -> MusicSlotType]
      /\ v.fmvSync \in BOOLEAN
  BY <1>1 DEF VoiceType
<1>8. /\ \A u \in Track : w.tracks[u] = IF u = t THEN IdleTrack ELSE v.tracks[u]
      /\ \A i \in MusicSlot : w.mslots[i] = IF i \in ms THEN IdleMusic ELSE v.mslots[i]
      /\ \A u \in Track : w.channels[u] = IF u = t THEN ResetChannel(v.channels[t]) ELSE v.channels[u]
  BY <1>6, <1>7
<1>9. w \in VoiceType
  <2>1. w.tracks \in [Track -> TrackType] /\ w.mslots \in [MusicSlot -> MusicSlotType]
    BY <1>6, <1>7, IdleTypes
  <2>2. w.tgens \in [Track -> Nat]
    <3>1. NextGen(v.tgens[t], VoiceGenMod) \in Nat
      BY <1>7, NextGenType, ServiceAssumption
    <3> QED
      BY <1>6, <1>7, <3>1
  <2>3. w.channels \in [Track -> ChannelType]
    <3>1. ResetChannel(v.channels[t]) \in ChannelType
      <4>1. v.channels[t] \in ChannelType
        BY <1>7
      <4> QED
        BY <4>1, ResetType
    <3> QED
      BY <1>6, <1>7, <3>1
  <2>4. w.pool \in PoolType /\ w.fmvSync \in BOOLEAN
    BY <1>5, <1>6 DEF PoolOK
  <2> QED
    BY <1>6, <2>1, <2>2, <2>3, <2>4 DEF VoiceType
<1>10. Cleared(w)
  BY <1>1, <1>8, IdleTypes DEF Cleared
<1>11. SlotsMatch(w)
  BY <1>1, <1>3, <1>8, IdleTypes DEF SlotsMatch
<1>12. ChannelsMatch(w)
  <2> SUFFICES ASSUME NEW u \in Track PROVE w.channels[u].active = w.tracks[u].active
    BY DEF ChannelsMatch
  <2>1. CASE u = t
    <3>1. w.channels[u] = ResetChannel(v.channels[t]) /\ w.tracks[u] = IdleTrack
      BY <1>8, <2>1
    <3>2. ResetChannel(v.channels[t]).active = FALSE
      BY DEF ResetChannel
    <3>3. IdleTrack.active = FALSE
      BY DEF IdleTrack
    <3> QED
      BY <3>1, <3>2, <3>3, Zenon
  <2>2. CASE u # t
    BY <1>1, <1>8, <2>2 DEF ChannelsMatch
  <2> QED
    BY <2>1, <2>2
<1>13. SyncMatch(w)
  <2>1. \A i \in MusicSlot : w.mslots[i].in_use /\ w.mslots[i].kind = "fmv"
            <=> v.mslots[i].in_use /\ v.mslots[i].kind = "fmv" /\ i \notin ms
    BY <1>8, IdleTypes
  <2>2. \A i, j \in MusicSlot : /\ w.mslots[i].in_use /\ w.mslots[i].kind = "fmv"
                                /\ w.mslots[j].in_use /\ w.mslots[j].kind = "fmv"
                                => i = j
    BY <1>1, <2>1 DEF SyncMatch
  <2>3. ASSUME w.fmvSync
        PROVE  \E i \in MusicSlot : w.mslots[i].in_use /\ w.mslots[i].kind = "fmv"
    <3>1. PICK i \in MusicSlot : v.mslots[i].in_use /\ v.mslots[i].kind = "fmv"
      BY <1>1, <1>6, <2>3 DEF SyncMatch
    <3>2. i \notin ms
      BY <1>6, <2>3, <3>1
    <3> QED
      BY <2>1, <3>1, <3>2
  <2>4. ASSUME NEW i \in MusicSlot, w.mslots[i].in_use, w.mslots[i].kind = "fmv"
        PROVE  w.fmvSync
    <3>1. v.mslots[i].in_use /\ v.mslots[i].kind = "fmv" /\ i \notin ms /\ v.fmvSync
      BY <1>1, <2>1, <2>4 DEF SyncMatch
    <3>2. \A j \in ms : v.mslots[j].kind # "fmv"
      BY <1>1, <1>3, <3>1 DEF SyncMatch
    <3> QED
      BY <1>6, <3>1, <3>2
  <2> QED
    BY <2>2, <2>3, <2>4 DEF SyncMatch
<1> QED
  BY <1>1, <1>5, <1>9, <1>10, <1>11, <1>12, <1>13 DEF VoiceOK

\* A free track is claimed for a voice without a player slot.
Claimed(v, t, rec, chan, p) ==
    [pool |-> p, tracks |-> [v.tracks EXCEPT ![t] = rec], tgens |-> v.tgens,
     channels |-> [v.channels EXCEPT ![t] = chan], mslots |-> v.mslots, fmvSync |-> v.fmvSync]

LEMMA ClaimVoice ==
    ASSUME NEW v, VoiceOK(v), NEW t \in Track, ~v.tracks[t].active,
           NEW rec \in TrackType, rec.active = TRUE, NEW chan \in ChannelType, chan.active = TRUE,
           NEW p, PoolOK(p), NEW w, w = Claimed(v, t, rec, chan, p)
    PROVE  VoiceOK(w)
<1>1. /\ v \in VoiceType /\ Cleared(v) /\ SlotsMatch(v) /\ SyncMatch(v) /\ ChannelsMatch(v)
  BY DEF VoiceOK
<1>2. /\ v.tracks \in [Track -> TrackType] /\ v.tgens \in [Track -> Nat]
      /\ v.channels \in [Track -> ChannelType] /\ v.mslots \in [MusicSlot -> MusicSlotType]
      /\ v.fmvSync \in BOOLEAN
  BY <1>1 DEF VoiceType
<1>3. /\ \A u \in Track : w.tracks[u] = IF u = t THEN rec ELSE v.tracks[u]
      /\ \A u \in Track : w.channels[u] = IF u = t THEN chan ELSE v.channels[u]
      /\ w.mslots = v.mslots /\ w.fmvSync = v.fmvSync /\ w.pool = p
  BY <1>2 DEF Claimed
<1>4. w \in VoiceType
  BY <1>2 DEF VoiceType, PoolOK, Claimed
<1>5. Cleared(w)
  BY <1>1, <1>3 DEF Cleared
<1>6. SlotsMatch(w)
  BY <1>1, <1>3 DEF SlotsMatch
<1>7. SyncMatch(w)
  BY <1>1, <1>3 DEF SyncMatch
<1>8. ChannelsMatch(w)
  <2> SUFFICES ASSUME NEW u \in Track PROVE w.channels[u].active = w.tracks[u].active
    BY DEF ChannelsMatch
  <2>1. CASE u = t
    <3>1. w.channels[u] = chan /\ w.tracks[u] = rec
      BY <1>3, <2>1
    <3> QED
      BY <3>1
  <2>2. CASE u # t
    BY <1>1, <1>3, <2>2 DEF ChannelsMatch
  <2> QED
    BY <2>1, <2>2
<1> QED
  BY <1>3, <1>4, <1>5, <1>6, <1>7, <1>8 DEF VoiceOK

\* A free track and a free player slot are claimed.
Played(v, t, i, rec, chan, slot, p) ==
    [pool |-> p, tracks |-> [v.tracks EXCEPT ![t] = rec], tgens |-> v.tgens,
     channels |-> [v.channels EXCEPT ![t] = chan], mslots |-> [v.mslots EXCEPT ![i] = slot],
     fmvSync |-> v.fmvSync \/ slot.kind = "fmv"]

LEMMA ClaimPlayer ==
    ASSUME NEW v, VoiceOK(v), NEW t \in Track, ~v.tracks[t].active,
           NEW i \in MusicSlot, ~v.mslots[i].in_use,
           NEW rec \in TrackType, rec.active = TRUE, rec.kind = "music",
           NEW chan \in ChannelType, chan.active = TRUE,
           NEW slot \in MusicSlotType, slot.in_use = TRUE, slot.track = t, NEW kind, kind = slot.kind,
           kind = "fmv" => \A j \in MusicSlot : v.mslots[j].kind # "fmv",
           NEW p, PoolOK(p), NEW w, w = Played(v, t, i, rec, chan, slot, p)
    PROVE  VoiceOK(w)
<1>1. /\ v \in VoiceType /\ Cleared(v) /\ SlotsMatch(v) /\ SyncMatch(v) /\ ChannelsMatch(v)
  BY DEF VoiceOK
<1>2. /\ v.tracks \in [Track -> TrackType] /\ v.tgens \in [Track -> Nat]
      /\ v.channels \in [Track -> ChannelType] /\ v.mslots \in [MusicSlot -> MusicSlotType]
      /\ v.fmvSync \in BOOLEAN
  BY <1>1 DEF VoiceType
<1>3. /\ \A u \in Track : w.tracks[u] = IF u = t THEN rec ELSE v.tracks[u]
      /\ \A u \in Track : w.channels[u] = IF u = t THEN chan ELSE v.channels[u]
      /\ \A j \in MusicSlot : w.mslots[j] = IF j = i THEN slot ELSE v.mslots[j]
      /\ w.fmvSync = (v.fmvSync \/ kind = "fmv") /\ w.pool = p
  BY <1>2 DEF Played
<1>4. slot \in MusicSlotType /\ slot.in_use /\ slot.track = t /\ slot.kind = kind
  OBVIOUS
<1>5. w \in VoiceType
  <2>1. [v.mslots EXCEPT ![i] = slot] \in [MusicSlot -> MusicSlotType]
    BY <1>2, <1>4
  <2>2. (v.fmvSync \/ kind = "fmv") \in BOOLEAN
    OBVIOUS
  <2>3. [v.tracks EXCEPT ![t] = rec] \in [Track -> TrackType]
        /\ [v.channels EXCEPT ![t] = chan] \in [Track -> ChannelType]
    BY <1>2
  <2> QED
    BY <1>2, <2>1, <2>2, <2>3 DEF VoiceType, PoolOK, Played
<1>6. Cleared(w)
  BY <1>1, <1>3, <1>4 DEF Cleared
<1>7. SlotsMatch(w)
  <2>1. \A j \in MusicSlot : v.mslots[j].in_use => v.mslots[j].track # t
    BY <1>1 DEF SlotsMatch
  <2> QED
    BY <1>1, <1>3, <1>4, <2>1 DEF SlotsMatch
<1>8. SyncMatch(w)
  <2>1. CASE kind = "fmv"
    <3>1. \A j \in MusicSlot : w.mslots[j].in_use /\ w.mslots[j].kind = "fmv" <=> j = i
      BY <1>3, <1>4, <2>1
    <3>2. w.fmvSync
      BY <1>3, <2>1
    <3> QED
      BY <3>1, <3>2 DEF SyncMatch
  <2>2. CASE kind # "fmv"
    <3>1. \A j \in MusicSlot : w.mslots[j].in_use /\ w.mslots[j].kind = "fmv"
              <=> v.mslots[j].in_use /\ v.mslots[j].kind = "fmv"
      BY <1>3, <1>4, <2>2
    <3>2. w.fmvSync <=> v.fmvSync
      BY <1>3, <2>2
    <3> QED
      BY <1>1, <3>1, <3>2 DEF SyncMatch
  <2> QED
    BY <2>1, <2>2
<1>9. ChannelsMatch(w)
  <2> SUFFICES ASSUME NEW u \in Track PROVE w.channels[u].active = w.tracks[u].active
    BY DEF ChannelsMatch
  <2>1. CASE u = t
    <3>1. w.channels[u] = chan /\ w.tracks[u] = rec
      BY <1>3, <2>1
    <3> QED
      BY <3>1
  <2>2. CASE u # t
    BY <1>1, <1>3, <2>2 DEF ChannelsMatch
  <2> QED
    BY <2>1, <2>2
<1> QED
  BY <1>3, <1>5, <1>6, <1>7, <1>8, <1>9 DEF VoiceOK

-----------------------------------------------------------------------------
(* The references, each a pair of who holds it and the object's slot. *)

At(H, s) == {x \in H : x[2] = s}

\* An object in use has as many references as there are.
Books(p, H) ==
    /\ IsFiniteSet(H)
    /\ \A s \in ObjSlot : /\ p.objects[s].refs = Cardinality(At(H, s))
                          /\ p.objects[s].in_use => p.objects[s].refs > 0

LEMMA AtFacts ==
    ASSUME NEW H, IsFiniteSet(H), NEW s
    PROVE  /\ IsFiniteSet(At(H, s)) /\ Cardinality(At(H, s)) \in Nat
           /\ Cardinality(At(H, s)) = 0 <=> At(H, s) = {}
<1>1. IsFiniteSet(At(H, s))
  BY FS_Subset DEF At
<1> QED
  BY <1>1, FS_CardinalityType, FS_EmptySet

\* An object is in use exactly while somebody refers to it.
LEMMA BooksUse ==
    ASSUME NEW p, PoolOK(p), NEW H, Books(p, H), NEW s \in ObjSlot
    PROVE  p.objects[s].in_use <=> At(H, s) # {}
<1>1. ~p.objects[s].in_use => p.objects[s].refs = 0
  BY DEF PoolOK, NoObj
<1> QED
  BY <1>1, AtFacts DEF Books

\* The books are kept slot by slot.
LEMMA BooksOne ==
    ASSUME NEW p, NEW H, Books(p, H), NEW s \in ObjSlot, NEW q, NEW K, IsFiniteSet(K),
           \A t \in ObjSlot : t # s => q.objects[t] = p.objects[t] /\ At(K, t) = At(H, t),
           q.objects[s].refs = Cardinality(At(K, s)),
           q.objects[s].in_use => q.objects[s].refs > 0
    PROVE  Books(q, K)
<1> SUFFICES ASSUME NEW t \in ObjSlot
             PROVE  /\ q.objects[t].refs = Cardinality(At(K, t))
                    /\ q.objects[t].in_use => q.objects[t].refs > 0
  BY DEF Books
<1>1. CASE t = s
  BY <1>1
<1>2. CASE t # s
  <2>1. q.objects[t] = p.objects[t] /\ At(K, t) = At(H, t)
    BY <1>2
  <2>2. /\ p.objects[t].refs = Cardinality(At(H, t))
        /\ p.objects[t].in_use => p.objects[t].refs > 0
    BY DEF Books
  <2> QED
    BY <2>1, <2>2
<1> QED
  BY <1>1, <1>2

LEMMA BooksDrop ==
    ASSUME NEW p, PoolOK(p), NEW H, Books(p, H), NEW s \in ObjSlot,
           NEW x \in H, x[2] = s, NEW q, q = DropRef(p, s)
    PROVE  /\ Books(q, H \ {x})
           /\ \A t \in ObjSlot : At(H \ {x}, t) # {} =>
                 q.objects[t].in_use /\ q.objects[t].gen = p.objects[t].gen
<1>1. /\ PoolOK(q)
      /\ \A t \in ObjSlot : t # s => q.objects[t] = p.objects[t]
      /\ p.objects[s].refs <= 1 => ~q.objects[s].in_use
      /\ p.objects[s].refs > 1 =>
            q.objects[s] = [p.objects[s] EXCEPT !.refs = p.objects[s].refs - 1]
  BY DropRefPool
<1>2. IsFiniteSet(H) /\ IsFiniteSet(H \ {x})
  BY FS_RemoveElement DEF Books
<1>3. \A t : t # s => At(H \ {x}, t) = At(H, t)
  BY DEF At
<1>4. At(H \ {x}, s) = At(H, s) \ {x} /\ x \in At(H, s)
  BY DEF At
<1>5. Cardinality(At(H \ {x}, s)) = Cardinality(At(H, s)) - 1 /\ Cardinality(At(H, s)) \in Nat
  <2>1. IsFiniteSet(At(H, s)) /\ Cardinality(At(H, s)) \in Nat
    BY <1>2, AtFacts
  <2> QED
    BY <1>4, <2>1, FS_RemoveElement
<1>6. p.objects[s].refs = Cardinality(At(H, s)) /\ Cardinality(At(H, s)) # 0
  BY <1>2, <1>4, AtFacts DEF Books
<1>7. p.objects[s] \in ObjectType /\ p.objects[s].in_use
  BY <1>4, BooksUse DEF PoolOK, PoolType
<1>8. CASE p.objects[s].refs <= 1
  <2>1. q.objects[s] = NoObj
    BY <1>1, <1>8 DEF PoolOK
  <2>2. q.objects[s].refs = 0 /\ ~q.objects[s].in_use /\ Cardinality(At(H \ {x}, s)) = 0
    BY <1>5, <1>6, <1>8, <2>1 DEF NoObj
  <2>3. At(H \ {x}, s) = {}
    BY <1>2, <2>2, AtFacts
  <2>4. Books(q, H \ {x})
    <3> DEFINE K == H \ {x}
    <3>1. IsFiniteSet(K)
      BY <1>1, <1>2, <1>3, <2>2
    <3>2. \A t \in ObjSlot : t # s => q.objects[t] = p.objects[t] /\ At(K, t) = At(H, t)
      BY <1>1, <1>2, <1>3, <2>2
    <3>3. q.objects[s].refs = Cardinality(At(K, s)) /\ (q.objects[s].in_use => q.objects[s].refs > 0)
      BY <1>1, <1>2, <1>3, <2>2
    <3> HIDE DEF K
    <3>4. Books(q, K)
      BY <3>1, <3>2, <3>3, BooksOne
    <3> QED
      BY <3>4 DEF K
  <2>5. ASSUME NEW t \in ObjSlot, At(H \ {x}, t) # {}
        PROVE  q.objects[t].in_use /\ q.objects[t].gen = p.objects[t].gen
    <3>1. t # s
      BY <2>3, <2>5
    <3>2. q.objects[t] = p.objects[t] /\ At(H, t) # {}
      BY <1>1, <1>3, <2>5, <3>1
    <3> QED
      BY <3>2, BooksUse
  <2> QED
    BY <2>4, <2>5
<1>9. CASE p.objects[s].refs > 1
  <2>1. /\ q.objects[s].refs = p.objects[s].refs - 1 /\ q.objects[s].in_use = p.objects[s].in_use
        /\ q.objects[s].gen = p.objects[s].gen
    BY <1>1, <1>7, <1>9 DEF ObjectType
  <2>2. q.objects[s].refs = Cardinality(At(H \ {x}, s)) /\ q.objects[s].refs > 0
    BY <1>5, <1>6, <1>9, <2>1
  <2>3. Books(q, H \ {x})
    <3> DEFINE K == H \ {x}
    <3>1. IsFiniteSet(K)
      BY <1>1, <1>2, <1>3, <2>2
    <3>2. \A t \in ObjSlot : t # s => q.objects[t] = p.objects[t] /\ At(K, t) = At(H, t)
      BY <1>1, <1>2, <1>3, <2>2
    <3>3. q.objects[s].refs = Cardinality(At(K, s)) /\ (q.objects[s].in_use => q.objects[s].refs > 0)
      BY <1>1, <1>2, <1>3, <2>2
    <3> HIDE DEF K
    <3>4. Books(q, K)
      BY <3>1, <3>2, <3>3, BooksOne
    <3> QED
      BY <3>4 DEF K
  <2>4. ASSUME NEW t \in ObjSlot, At(H \ {x}, t) # {}
        PROVE  q.objects[t].in_use /\ q.objects[t].gen = p.objects[t].gen
    <3>1. CASE t = s
      BY <1>7, <2>1, <3>1
    <3>2. CASE t # s
      <4>1. q.objects[t] = p.objects[t] /\ At(H, t) # {}
        BY <1>1, <1>3, <2>4, <3>2
      <4> QED
        BY <4>1, BooksUse
    <3> QED
      BY <3>1, <3>2
  <2> QED
    BY <2>3, <2>4
<1>10. p.objects[s].refs <= 1 \/ p.objects[s].refs > 1
  BY <1>7 DEF ObjectType
<1> QED
  BY <1>8, <1>9, <1>10, Zenon

LEMMA BooksTake ==
    ASSUME NEW p, PoolOK(p), NEW H, Books(p, H), NEW h \in Handles, resolve(p, h),
           NEW x, x \notin H, x[2] = h[1], NEW q, q = audio_pool_ref(p, h)
    PROVE  /\ Books(q, H \cup {x})
           /\ \A t \in ObjSlot : /\ q.objects[t].in_use = p.objects[t].in_use
                                 /\ q.objects[t].gen = p.objects[t].gen
<1> DEFINE s == h[1]
<1>0. s \in ObjSlot
  BY ResolveFacts
<1>1. /\ s \in ObjSlot /\ p.objects \in [ObjSlot -> ObjectType]
      /\ q.objects = [p.objects EXCEPT ![s] = [p.objects[s] EXCEPT !.refs = p.objects[s].refs + 1]]
  BY RefPool, ResolveFacts DEF PoolOK, PoolType
<1> HIDE DEF s
<1>2. IsFiniteSet(H) /\ IsFiniteSet(H \cup {x})
  BY FS_AddElement DEF Books
<1>3. \A t : t # s => At(H \cup {x}, t) = At(H, t)
  BY DEF At, s
<1>4. At(H \cup {x}, s) = At(H, s) \cup {x} /\ x \notin At(H, s)
  BY DEF At, s
<1>5. Cardinality(At(H \cup {x}, s)) = Cardinality(At(H, s)) + 1 /\ Cardinality(At(H, s)) \in Nat
  BY <1>2, <1>4, AtFacts, FS_AddElement
<1>6. /\ \A t \in ObjSlot : t # s => q.objects[t] = p.objects[t]
      /\ q.objects[s].refs = p.objects[s].refs + 1
      /\ q.objects[s].in_use = p.objects[s].in_use /\ q.objects[s].gen = p.objects[s].gen
  BY <1>1 DEF ObjectType
<1>7. q.objects[s].refs = Cardinality(At(H \cup {x}, s)) /\ q.objects[s].refs > 0
  BY <1>1, <1>5, <1>6 DEF Books
<1>8. Books(q, H \cup {x})
  <2>0. PICK K : K = H \cup {x}
    OBVIOUS
  <2>1. IsFiniteSet(K)
    BY <2>0, <1>1, <1>2, <1>3, <1>6, <1>7
  <2>2. \A t \in ObjSlot : t # s => q.objects[t] = p.objects[t] /\ At(K, t) = At(H, t)
    BY <2>0, <1>1, <1>2, <1>3, <1>6, <1>7
  <2>3. q.objects[s].refs = Cardinality(At(K, s)) /\ (q.objects[s].in_use => q.objects[s].refs > 0)
    BY <2>0, <1>1, <1>2, <1>3, <1>6, <1>7
  <2>4. Books(q, K)
    BY <1>0, <2>1, <2>2, <2>3, BooksOne
  <2> QED
    BY <2>0, <2>4
<1> QED
  <2> SUFFICES ASSUME NEW t \in ObjSlot
               PROVE  q.objects[t].in_use = p.objects[t].in_use /\ q.objects[t].gen = p.objects[t].gen
    BY <1>8
  <2>1. CASE t = s
    BY <1>6, <2>1
  <2>2. CASE t # s
    BY <1>6, <2>2
  <2> QED
    BY <2>1, <2>2

LEMMA BooksAlloc ==
    ASSUME NEW p, PoolOK(p), NEW H, Books(p, H), NEW s \in ObjSlot, ~p.objects[s].in_use,
           NEW x, x[2] = s, NEW q,
           q.objects[s].in_use, q.objects[s].refs = 1,
           \A t \in ObjSlot : t # s => q.objects[t] = p.objects[t]
    PROVE  /\ Books(q, H \cup {x})
           /\ \A t \in ObjSlot : p.objects[t].in_use =>
                 q.objects[t].in_use /\ q.objects[t].gen = p.objects[t].gen
<1>1. p.objects \in [ObjSlot -> ObjectType]
  BY DEF PoolOK, PoolType
<1>2. At(H, s) = {}
  BY BooksUse
<1>3. IsFiniteSet(H) /\ IsFiniteSet(H \cup {x})
  BY FS_AddElement DEF Books
<1>4. \A t : t # s => At(H \cup {x}, t) = At(H, t)
  BY DEF At
<1>5. At(H \cup {x}, s) = {x}
  BY <1>2 DEF At
<1>6. Cardinality(At(H \cup {x}, s)) = 1
  BY <1>5, FS_Singleton
<1>7. /\ \A t \in ObjSlot : t # s => q.objects[t] = p.objects[t]
      /\ q.objects[s].refs = 1 /\ q.objects[s].in_use
  BY <1>1
<1>8. Books(q, H \cup {x})
  <2>0. PICK K : K = H \cup {x}
    OBVIOUS
  <2>1. IsFiniteSet(K)
    BY <2>0, <1>3, <1>4, <1>6, <1>7
  <2>2. \A t \in ObjSlot : t # s => q.objects[t] = p.objects[t] /\ At(K, t) = At(H, t)
    BY <2>0, <1>3, <1>4, <1>6, <1>7
  <2>3. q.objects[s].refs = Cardinality(At(K, s)) /\ (q.objects[s].in_use => q.objects[s].refs > 0)
    BY <2>0, <1>3, <1>4, <1>6, <1>7
  <2>4. Books(q, K)
    <3> SUFFICES ASSUME NEW t \in ObjSlot
                 PROVE  /\ q.objects[t].refs = Cardinality(At(K, t))
                        /\ q.objects[t].in_use => q.objects[t].refs > 0
      BY <2>1 DEF Books
    <3>1. CASE t = s
      BY <2>3, <3>1
    <3>2. CASE t # s
      <4>1. q.objects[t] = p.objects[t] /\ At(K, t) = At(H, t)
        BY <2>2, <3>2
      <4>2. /\ p.objects[t].refs = Cardinality(At(H, t))
            /\ p.objects[t].in_use => p.objects[t].refs > 0
        BY DEF Books
      <4> QED
        BY <4>1, <4>2
    <3> QED
      BY <3>1, <3>2
  <2> QED
    BY <2>0, <2>4
<1> QED
  BY <1>7, <1>8

-----------------------------------------------------------------------------
(* Who holds what: the creators, the voices, the two parts of a music       *)
(* object and the loops the players stream.                                 *)

Holder == ({"voice"} \X Track) \cup ({"intro", "loop"} \X MusicObjSlot) \cup ({"player"} \X MusicSlot)

Creator == <<"creator", 0>>

Tokens(cr, hand) ==
    {<<Creator, s>> : s \in cr} \cup {<<k, hand[k][1]>> : k \in {j \in Holder : hand[j] # NoObject}}

\* Every reference is held by somebody, and whoever holds a handle holds a reference.
Accounted(p, cr, hand) ==
    /\ cr \in SUBSET ObjSlot /\ hand \in [Holder -> Handles]
    /\ Books(p, Tokens(cr, hand))
    /\ \A k \in Holder : hand[k] # NoObject => resolve(p, hand[k])

LEMMA CreatorApart == Creator \notin Holder
  BY DEF Creator, Holder

LEMMA NoObjectFacts ==
    /\ NoObject \in Handles /\ NoObject \notin ObjHandle
    /\ \A p : ~resolve(p, NoObject)
    /\ \A p : audio_pool_unref(p, NoObject) = p /\ audio_pool_ref(p, NoObject) = p
  BY DEF Handles, NoObject, ObjHandle, resolve, audio_pool_unref, audio_pool_ref

LEMMA SlotOfHandle ==
    ASSUME NEW h \in Handles, h # NoObject
    PROVE  h[1] \in ObjSlot /\ h = <<h[1], h[2]>>
  BY DEF Handles, ObjHandle

\* What is said of the pool after a change carries over to the handles still held.
LEMMA StillResolves ==
    ASSUME NEW p, NEW q, NEW h \in Handles, resolve(p, h), q.objects[h[1]].in_use,
           q.objects[h[1]].gen = p.objects[h[1]].gen
    PROVE  resolve(q, h)
  BY DEF resolve

LEMMA TokensBack ==
    ASSUME NEW cr, NEW hand \in [Holder -> Handles], NEW k \in Holder, hand[k] # NoObject,
           NEW new \in [Holder -> Handles], new[k] = NoObject,
           \A j \in Holder : j # k => new[j] = hand[j], NEW x, x = <<k, hand[k][1]>>
    PROVE  x \in Tokens(cr, hand) /\ Tokens(cr, new) = Tokens(cr, hand) \ {x}
<1> DEFINE Held(f) == {j \in Holder : f[j] # NoObject}
           Of(f) == {<<j, f[j][1]>> : j \in Held(f)}
<1>1. Held(new) = Held(hand) \ {k} /\ \A j \in Held(new) : new[j] = hand[j]
  OBVIOUS
<1>2. x \in Of(hand)
  OBVIOUS
<1>3. Of(new) = Of(hand) \ {x}
  <2>1. ASSUME NEW j \in Held(new) PROVE <<j, new[j][1]>> \in Of(hand) /\ <<j, new[j][1]>> # x
    BY <1>1, <2>1
  <2>2. ASSUME NEW j \in Held(hand), <<j, hand[j][1]>> # x PROVE <<j, hand[j][1]>> \in Of(new)
    <3>1. j # k
      BY <2>2
    <3> QED
      BY <1>1, <2>2, <3>1
  <2> QED
    BY <2>1, <2>2
<1>4. x \notin {<<Creator, s>> : s \in cr}
  BY CreatorApart
<1> QED
  BY <1>2, <1>3, <1>4 DEF Tokens

LEMMA TokensTake ==
    ASSUME NEW cr, NEW hand \in [Holder -> Handles], NEW k \in Holder, hand[k] = NoObject,
           NEW h \in Handles, h # NoObject,
           NEW new \in [Holder -> Handles], new[k] = h,
           \A j \in Holder : j # k => new[j] = hand[j], NEW x, x = <<k, h[1]>>
    PROVE  x \notin Tokens(cr, hand) /\ Tokens(cr, new) = Tokens(cr, hand) \cup {x}
<1> DEFINE Held(f) == {j \in Holder : f[j] # NoObject}
           Of(f) == {<<j, f[j][1]>> : j \in Held(f)}
<1>1. /\ Held(new) = Held(hand) \cup {k} /\ k \notin Held(hand)
      /\ new[k] = h /\ \A j \in Held(hand) : new[j] = hand[j]
  OBVIOUS
<1>2. x \notin Of(hand)
  BY <1>1
<1>3. Of(new) = Of(hand) \cup {x}
  BY <1>1
<1>4. x \notin {<<Creator, s>> : s \in cr}
  BY CreatorApart
<1> QED
  BY <1>2, <1>3, <1>4 DEF Tokens

LEMMA TokensCreate ==
    ASSUME NEW cr, NEW hand, NEW s, NEW x, x = <<Creator, s>>, NEW more, more = cr \cup {s}
    PROVE  Tokens(more, hand) = Tokens(cr, hand) \cup {x}
  BY DEF Tokens

LEMMA TokensUncreate ==
    ASSUME NEW cr, NEW hand \in [Holder -> Handles], NEW s \in cr, NEW x, x = <<Creator, s>>,
           NEW less, less = cr \ {s}
    PROVE  x \in Tokens(cr, hand) /\ Tokens(less, hand) = Tokens(cr, hand) \ {x}
  BY CreatorApart DEF Tokens

\* Whoever holds a handle is among those who refer to its slot.
LEMMA HolderCounts ==
    ASSUME NEW cr, NEW hand \in [Holder -> Handles], NEW k \in Holder, hand[k] # NoObject
    PROVE  At(Tokens(cr, hand), hand[k][1]) # {} /\ hand[k][1] \in ObjSlot
<1>1. <<k, hand[k][1]>> \in At(Tokens(cr, hand), hand[k][1])
  BY DEF Tokens, At
<1> QED
  BY <1>1, SlotOfHandle

-----------------------------------------------------------------------------
\* A holder gives its reference back.
LEMMA GiveBack ==
    ASSUME NEW p, PoolOK(p), NEW cr, NEW hand, Accounted(p, cr, hand), NEW k \in Holder,
           NEW q, q = audio_pool_unref(p, hand[k])
    PROVE  Accounted(q, cr, [hand EXCEPT ![k] = NoObject])
<1>1. /\ cr \in SUBSET ObjSlot /\ hand \in [Holder -> Handles]
      /\ Books(p, Tokens(cr, hand))
      /\ \A j \in Holder : hand[j] # NoObject => resolve(p, hand[j])
  BY DEF Accounted
<1>2. CASE hand[k] = NoObject
  <2>1. q = p
    BY <1>2, NoObjectFacts
  <2>2. [hand EXCEPT ![k] = NoObject] = hand
    BY <1>1, <1>2
  <2> QED
    BY <2>1, <2>2
<1>3. CASE hand[k] # NoObject
  <2>0. PICK new, s, x : new = [hand EXCEPT ![k] = NoObject] /\ s = hand[k][1] /\ x = <<k, hand[k][1]>>
    OBVIOUS
  <2>4. new \in [Holder -> Handles] /\ new[k] = NoObject /\ \A j \in Holder : j # k => new[j] = hand[j]
    BY <1>1, <2>0, NoObjectFacts
  <2>1. /\ x \in Tokens(cr, hand) /\ Tokens(cr, new) = Tokens(cr, hand) \ {x}
    <3>1. hand \in [Holder -> Handles] /\ x = <<k, hand[k][1]>>
      BY <1>1, <2>0
    <3> QED
      BY <1>3, <2>4, <3>1, TokensBack
  <2>2. s \in ObjSlot /\ x[2] = s
    BY <1>1, <1>3, <2>0, SlotOfHandle
  <2>3. q = DropRef(p, s)
    BY <1>1, <1>3, <2>0 DEF audio_pool_unref
  <2>5. /\ Books(q, Tokens(cr, new))
        /\ \A t \in ObjSlot : At(Tokens(cr, new), t) # {} =>
              q.objects[t].in_use /\ q.objects[t].gen = p.objects[t].gen
    BY <1>1, <2>1, <2>2, <2>3, BooksDrop
  <2>6. ASSUME NEW j \in Holder, new[j] # NoObject PROVE resolve(q, new[j])
    <3>1. resolve(p, new[j])
      BY <1>1, <2>4, <2>6
    <3>2. At(Tokens(cr, new), new[j][1]) # {} /\ new[j][1] \in ObjSlot
      BY <2>4, <2>6, HolderCounts
    <3>3. new[j] \in Handles
      BY <2>4
    <3> QED
      BY <2>5, <3>1, <3>2, <3>3, StillResolves
  <2>7. Accounted(q, cr, new)
    BY <1>1, <2>4, <2>5, <2>6 DEF Accounted
  <2> QED
    BY <2>0, <2>7
<1> QED
  BY <1>2, <1>3

\* A holder takes a reference of an object that is there.
LEMMA TakeOne ==
    ASSUME NEW p, PoolOK(p), NEW cr, NEW hand, Accounted(p, cr, hand), NEW k \in Holder,
           hand[k] = NoObject, NEW h \in Handles, h # NoObject => resolve(p, h),
           NEW q, q = audio_pool_ref(p, h)
    PROVE  /\ Accounted(q, cr, [hand EXCEPT ![k] = h])
           /\ \A g \in Handles : resolve(p, g) => resolve(q, g)
<1>1. /\ cr \in SUBSET ObjSlot /\ hand \in [Holder -> Handles]
      /\ Books(p, Tokens(cr, hand))
      /\ \A j \in Holder : hand[j] # NoObject => resolve(p, hand[j])
  BY DEF Accounted
<1>2. CASE h = NoObject
  <2>1. q = p
    BY <1>2, NoObjectFacts
  <2>2. [hand EXCEPT ![k] = h] = hand
    BY <1>1, <1>2
  <2> QED
    BY <2>1, <2>2
<1>3. CASE h # NoObject
  <2>0. PICK new, x : new = [hand EXCEPT ![k] = h] /\ x = <<k, h[1]>>
    OBVIOUS
  <2>3. new \in [Holder -> Handles] /\ new[k] = h /\ \A j \in Holder : j # k => new[j] = hand[j]
    BY <1>1, <2>0
  <2>1. /\ x \notin Tokens(cr, hand) /\ Tokens(cr, new) = Tokens(cr, hand) \cup {x}
    <3>1. hand \in [Holder -> Handles] /\ x = <<k, h[1]>>
      BY <1>1, <2>0
    <3> QED
      BY <1>3, <2>3, <3>1, TokensTake
  <2>2. x[2] = h[1]
    BY <2>0
  <2>4. /\ Books(q, Tokens(cr, new))
        /\ \A t \in ObjSlot : /\ q.objects[t].in_use = p.objects[t].in_use
                              /\ q.objects[t].gen = p.objects[t].gen
    BY <1>1, <1>3, <2>1, <2>2, BooksTake
  <2>5. ASSUME NEW g \in Handles, resolve(p, g) PROVE resolve(q, g)
    BY <2>4, <2>5, ResolveFacts DEF resolve
  <2>6. ASSUME NEW j \in Holder, new[j] # NoObject PROVE resolve(q, new[j])
    <3>1. resolve(p, new[j]) /\ new[j] \in Handles
      BY <1>1, <1>3, <2>3, <2>6
    <3> QED
      BY <2>5, <3>1
  <2>7. Accounted(q, cr, new)
    BY <1>1, <2>3, <2>4, <2>6 DEF Accounted
  <2> QED
    BY <2>0, <2>5, <2>7
<1> QED
  BY <1>2, <1>3

\* An object is created in a free slot, with its creator's reference.
LEMMA CreateOne ==
    ASSUME NEW p, PoolOK(p), NEW cr, NEW hand, Accounted(p, cr, hand), NEW s \in ObjSlot,
           ~p.objects[s].in_use, NEW q, q.objects[s].in_use,
           q.objects[s].refs = 1, \A t \in ObjSlot : t # s => q.objects[t] = p.objects[t]
    PROVE  Accounted(q, cr \cup {s}, hand)
<1>1. /\ cr \in SUBSET ObjSlot /\ hand \in [Holder -> Handles]
      /\ Books(p, Tokens(cr, hand))
      /\ \A j \in Holder : hand[j] # NoObject => resolve(p, hand[j])
  BY DEF Accounted
<1>2. PICK x, more, H : x = <<Creator, s>> /\ more = cr \cup {s} /\ H = Tokens(cr, hand)
  OBVIOUS
<1>3. Tokens(more, hand) = H \cup {x}
  BY <1>2, TokensCreate
<1>4. /\ Books(q, H \cup {x})
      /\ \A t \in ObjSlot : p.objects[t].in_use =>
            q.objects[t].in_use /\ q.objects[t].gen = p.objects[t].gen
  <2>1. Books(p, H) /\ x[2] = s
    BY <1>1, <1>2
  <2> QED
    BY <2>1, BooksAlloc
<1>5. ASSUME NEW j \in Holder, hand[j] # NoObject PROVE resolve(q, hand[j])
  <2>1. resolve(p, hand[j]) /\ hand[j] \in Handles
    BY <1>1, <1>5
  <2>2. hand[j][1] \in ObjSlot /\ p.objects[hand[j][1]].in_use
    BY <2>1, ResolveFacts
  <2> QED
    BY <1>4, <2>1, <2>2, StillResolves
<1>6. Accounted(q, more, hand)
  BY <1>1, <1>2, <1>3, <1>4, <1>5 DEF Accounted
<1> QED
  BY <1>2, <1>6

\* A creator gives its reference back.
LEMMA CreatorBack ==
    ASSUME NEW p, PoolOK(p), NEW cr, NEW hand, Accounted(p, cr, hand), NEW s \in cr,
           NEW q, q = DropRef(p, s)
    PROVE  Accounted(q, cr \ {s}, hand)
<1>1. /\ cr \in SUBSET ObjSlot /\ hand \in [Holder -> Handles] /\ s \in ObjSlot
      /\ Books(p, Tokens(cr, hand))
      /\ \A j \in Holder : hand[j] # NoObject => resolve(p, hand[j])
  BY DEF Accounted
<1>2. PICK x, less, H : x = <<Creator, s>> /\ less = cr \ {s} /\ H = Tokens(cr, hand)
  OBVIOUS
<1>3. Tokens(less, hand) = H \ {x} /\ x \in H
  BY <1>1, <1>2, TokensUncreate
<1>4. /\ Books(q, H \ {x})
      /\ \A t \in ObjSlot : At(H \ {x}, t) # {} =>
            q.objects[t].in_use /\ q.objects[t].gen = p.objects[t].gen
  <2>1. Books(p, H) /\ x[2] = s
    BY <1>1, <1>2
  <2> QED
    BY <1>1, <1>3, <2>1, BooksDrop
<1>5. ASSUME NEW j \in Holder, hand[j] # NoObject PROVE resolve(q, hand[j])
  <2>1. resolve(p, hand[j]) /\ hand[j] \in Handles
    BY <1>1, <1>5
  <2>2. At(Tokens(less, hand), hand[j][1]) # {} /\ hand[j][1] \in ObjSlot
    BY <1>1, <1>5, HolderCounts
  <2> QED
    BY <1>3, <1>4, <2>1, <2>2, StillResolves
<1>6. less \in SUBSET ObjSlot
  BY <1>1, <1>2
<1>7. Accounted(q, less, hand)
  BY <1>1, <1>3, <1>4, <1>5, <1>6 DEF Accounted
<1> QED
  BY <1>2, <1>7

-----------------------------------------------------------------------------
(* The handles as the service stores them. *)

MusicObjType == [in_use : BOOLEAN, intro : Handles, loop : Handles, owner : Owners]

MusicObjsOK(m) ==
    /\ m \in [MusicObjSlot -> MusicObjType]
    /\ \A i \in MusicObjSlot : ~m[i].in_use => m[i] = IdleMusicObj

Hand(v, m) ==
    [k \in Holder |-> IF k[1] = "voice" THEN v.tracks[k[2]].object
                      ELSE IF k[1] = "intro" THEN m[k[2]].intro
                      ELSE IF k[1] = "loop" THEN m[k[2]].loop
                      ELSE v.mslots[k[2]].loop]

Kept(v, m, cr) == Accounted(v.pool, cr, Hand(v, m))

LEMMA HolderFacts ==
    /\ \A t \in Track : <<"voice", t>> \in Holder
    /\ \A i \in MusicObjSlot : <<"intro", i>> \in Holder /\ <<"loop", i>> \in Holder
    /\ \A i \in MusicSlot : <<"player", i>> \in Holder
  BY DEF Holder

LEMMA HolderCases ==
    ASSUME NEW k \in Holder
    PROVE  \/ \E t \in Track : k = <<"voice", t>>
           \/ \E i \in MusicObjSlot : k = <<"intro", i>> \/ k = <<"loop", i>>
           \/ \E i \in MusicSlot : k = <<"player", i>>
  BY DEF Holder

LEMMA HandFacts ==
    ASSUME NEW v, NEW m, v \in VoiceType, MusicObjsOK(m), NEW h, h = Hand(v, m)
    PROVE  /\ h \in [Holder -> Handles]
           /\ \A t \in Track : h[<<"voice", t>>] = v.tracks[t].object
           /\ \A i \in MusicObjSlot : h[<<"intro", i>>] = m[i].intro /\ h[<<"loop", i>>] = m[i].loop
           /\ \A i \in MusicSlot : h[<<"player", i>>] = v.mslots[i].loop
<1>1. /\ \A t \in Track : h[<<"voice", t>>] = v.tracks[t].object
      /\ \A i \in MusicObjSlot : h[<<"intro", i>>] = m[i].intro /\ h[<<"loop", i>>] = m[i].loop
      /\ \A i \in MusicSlot : h[<<"player", i>>] = v.mslots[i].loop
  BY HolderFacts DEF Hand
<1>2. /\ \A t \in Track : v.tracks[t].object \in Handles
      /\ \A i \in MusicObjSlot : m[i].intro \in Handles /\ m[i].loop \in Handles
      /\ \A i \in MusicSlot : v.mslots[i].loop \in Handles
  <2>1. \A t \in Track : v.tracks[t].object \in Handles
    BY DEF VoiceType, TrackType
  <2>2. \A i \in MusicObjSlot : m[i].intro \in Handles /\ m[i].loop \in Handles
    BY DEF MusicObjsOK, MusicObjType
  <2>3. \A i \in MusicSlot : v.mslots[i].loop \in Handles
    BY DEF VoiceType, MusicSlotType
  <2> QED
    BY <2>1, <2>2, <2>3
<1>3. ASSUME NEW k \in Holder PROVE h[k] \in Handles
  <2>1. CASE \E t \in Track : k = <<"voice", t>>
    BY <1>1, <1>2, <2>1
  <2>2. CASE \E i \in MusicObjSlot : k = <<"intro", i>> \/ k = <<"loop", i>>
    BY <1>1, <1>2, <2>2
  <2>3. CASE \E i \in MusicSlot : k = <<"player", i>>
    BY <1>1, <1>2, <2>3
  <2> QED
    BY <2>1, <2>2, <2>3, HolderCases
<1>4. h \in [Holder -> Handles]
  BY <1>3 DEF Hand
<1> QED
  BY <1>1, <1>4

\* Two ways of saying who holds what are compared holder by holder.
LEMMA SameHand ==
    ASSUME NEW f \in [Holder -> Handles], NEW g \in [Holder -> Handles],
           \A t \in Track : f[<<"voice", t>>] = g[<<"voice", t>>],
           \A i \in MusicObjSlot : f[<<"intro", i>>] = g[<<"intro", i>>] /\ f[<<"loop", i>>] = g[<<"loop", i>>],
           \A i \in MusicSlot : f[<<"player", i>>] = g[<<"player", i>>]
    PROVE  f = g
<1>1. ASSUME NEW k \in Holder PROVE f[k] = g[k]
  <2>1. CASE \E t \in Track : k = <<"voice", t>>
    BY <2>1
  <2>2. CASE \E i \in MusicObjSlot : k = <<"intro", i>> \/ k = <<"loop", i>>
    BY <2>2
  <2>3. CASE \E i \in MusicSlot : k = <<"player", i>>
    BY <2>3
  <2> QED
    BY <2>1, <2>2, <2>3, HolderCases
<1> QED
  BY <1>1

\* A stopped voice gives back what it and its player held.
LEMMA StopKept ==
    ASSUME NEW v, VoiceOK(v), NEW m, MusicObjsOK(m), NEW cr, Kept(v, m, cr), NEW t \in Track,
           NEW w, w = stop_track(v, t)
    PROVE  Kept(w, m, cr)
<1>1. /\ v \in VoiceType /\ PoolOK(v.pool) /\ VoiceOK(w) /\ w \in VoiceType
  BY StopVoice DEF VoiceOK
<1>2. PICK ms : ms = music_slot_for_track(v, t)
  OBVIOUS
<1>3. w = Stopped(v, t, ms)
  BY <1>1, <1>2, StopUnfolds
<1>4. ms = {} \/ \E i \in MusicSlot : ms = {i}
  BY <1>2, SlotOfTrack
<1>5. PICK h : h = Hand(v, m)
  OBVIOUS
<1>6. /\ h \in [Holder -> Handles]
      /\ \A u \in Track : h[<<"voice", u>>] = v.tracks[u].object
      /\ \A i \in MusicObjSlot : h[<<"intro", i>>] = m[i].intro /\ h[<<"loop", i>>] = m[i].loop
      /\ \A i \in MusicSlot : h[<<"player", i>>] = v.mslots[i].loop
  BY <1>1, <1>5, HandFacts
<1>7. Accounted(v.pool, cr, h)
  BY <1>5 DEF Kept
<1>8. PICK p1 : p1 = SinkPool(v, ms)
  OBVIOUS
<1>9. \E h1 \in [Holder -> Handles] :
         /\ PoolOK(p1) /\ Accounted(p1, cr, h1)
         /\ \A u \in Track : h1[<<"voice", u>>] = v.tracks[u].object
         /\ \A i \in MusicObjSlot : h1[<<"intro", i>>] = m[i].intro /\ h1[<<"loop", i>>] = m[i].loop
         /\ \A i \in MusicSlot : h1[<<"player", i>>] = IF i \in ms THEN NoObject ELSE v.mslots[i].loop
  <2>1. CASE ms = {}
    <3>1. p1 = v.pool
      BY <1>8, <2>1, SinkPoolFacts
    <3>2. \A i \in MusicSlot : h[<<"player", i>>] = IF i \in ms THEN NoObject ELSE v.mslots[i].loop
      BY <1>6, <2>1
    <3> QED
      BY <1>1, <1>6, <1>7, <3>1, <3>2
  <2>2. CASE \E i \in MusicSlot : ms = {i}
    <3>1. PICK i \in MusicSlot : ms = {i}
      BY <2>2
    <3>2. PICK k, h1 : k = <<"player", i>> /\ h1 = [h EXCEPT ![k] = NoObject]
      OBVIOUS
    <3>3. k \in Holder /\ h[k] = v.mslots[i].loop /\ h[k] \in Handles
      BY <1>6, <3>2, HolderFacts
    <3>4. p1 = audio_pool_unref(v.pool, h[k])
      BY <1>8, <3>1, <3>3, SinkPoolFacts
    <3>5. Accounted(p1, cr, h1) /\ PoolOK(p1)
      <4>1. PoolOK(p1)
        BY <1>1, <3>3, <3>4, UnrefPool
      <4>2. Accounted(p1, cr, [h EXCEPT ![k] = NoObject])
        BY <1>1, <1>7, <3>3, <3>4, GiveBack
      <4> QED
        BY <3>2, <4>1, <4>2
    <3>6. h1 \in [Holder -> Handles] /\ \A j \in Holder : h1[j] = IF j = k THEN NoObject ELSE h[j]
      BY <1>6, <3>2, <3>3, NoObjectFacts
    <3>7. \A u \in Track : h1[<<"voice", u>>] = v.tracks[u].object
      BY <1>6, <3>2, <3>6, HolderFacts
    <3>8. \A j \in MusicObjSlot : h1[<<"intro", j>>] = m[j].intro /\ h1[<<"loop", j>>] = m[j].loop
      BY <1>6, <3>2, <3>6, HolderFacts
    <3>9. \A j \in MusicSlot : h1[<<"player", j>>] = IF j \in ms THEN NoObject ELSE v.mslots[j].loop
      BY <1>6, <3>1, <3>2, <3>6, HolderFacts
    <3> QED
      BY <3>5, <3>6, <3>7, <3>8, <3>9
  <2> QED
    BY <1>4, <2>1, <2>2
<1>10. PICK h1 \in [Holder -> Handles] :
         /\ PoolOK(p1) /\ Accounted(p1, cr, h1)
         /\ \A u \in Track : h1[<<"voice", u>>] = v.tracks[u].object
         /\ \A i \in MusicObjSlot : h1[<<"intro", i>>] = m[i].intro /\ h1[<<"loop", i>>] = m[i].loop
         /\ \A i \in MusicSlot : h1[<<"player", i>>] = IF i \in ms THEN NoObject ELSE v.mslots[i].loop
  BY <1>9
<1>11. PICK k, h2 : k = <<"voice", t>> /\ h2 = [h1 EXCEPT ![k] = NoObject]
  OBVIOUS
<1>12. k \in Holder /\ h1[k] = v.tracks[t].object
  BY <1>10, <1>11, HolderFacts
<1>13. /\ w.pool = audio_pool_unref(p1, v.tracks[t].object)
       /\ w.tracks = [v.tracks EXCEPT ![t] = IdleTrack]
       /\ w.mslots = [i \in MusicSlot |-> IF i \in ms THEN IdleMusic ELSE v.mslots[i]]
  BY <1>3, <1>8 DEF Stopped
<1>14. Accounted(w.pool, cr, h2)
  <2>1. w.pool = audio_pool_unref(p1, h1[k])
    BY <1>12, <1>13
  <2>2. Accounted(w.pool, cr, [h1 EXCEPT ![k] = NoObject])
    BY <1>10, <1>12, <2>1, GiveBack
  <2> QED
    BY <1>11, <2>2
<1>15. PICK g : g = Hand(w, m)
  OBVIOUS
<1>16. /\ g \in [Holder -> Handles]
       /\ \A u \in Track : g[<<"voice", u>>] = w.tracks[u].object
       /\ \A i \in MusicObjSlot : g[<<"intro", i>>] = m[i].intro /\ g[<<"loop", i>>] = m[i].loop
       /\ \A i \in MusicSlot : g[<<"player", i>>] = w.mslots[i].loop
  BY <1>1, <1>15, HandFacts
<1>17. /\ \A u \in Track : w.tracks[u].object = IF u = t THEN NoObject ELSE v.tracks[u].object
       /\ \A i \in MusicSlot : w.mslots[i].loop = IF i \in ms THEN NoObject ELSE v.mslots[i].loop
  <2>1. v.tracks \in [Track -> TrackType]
    BY <1>1 DEF VoiceType
  <2> QED
    BY <1>13, <2>1, IdleTypes
<1>18. h2 \in [Holder -> Handles] /\ \A j \in Holder : h2[j] = IF j = k THEN NoObject ELSE h1[j]
  BY <1>10, <1>11, <1>12, NoObjectFacts
<1>19. g = h2
  <2>1. \A u \in Track : g[<<"voice", u>>] = h2[<<"voice", u>>]
    BY <1>10, <1>11, <1>16, <1>17, <1>18, HolderFacts
  <2>2. \A i \in MusicObjSlot : g[<<"intro", i>>] = h2[<<"intro", i>>] /\ g[<<"loop", i>>] = h2[<<"loop", i>>]
    BY <1>10, <1>11, <1>16, <1>18, HolderFacts
  <2>3. \A i \in MusicSlot : g[<<"player", i>>] = h2[<<"player", i>>]
    <3> SUFFICES ASSUME NEW i \in MusicSlot PROVE g[<<"player", i>>] = h2[<<"player", i>>]
      OBVIOUS
    <3>1. <<"player", i>> \in Holder /\ <<"player", i>> # k
      BY <1>11, HolderFacts
    <3> QED
      BY <1>10, <1>16, <1>17, <1>18, <3>1
  <2> QED
    BY <1>16, <1>18, <2>1, <2>2, <2>3, SameHand
<1> QED
  BY <1>14, <1>15, <1>19 DEF Kept

-----------------------------------------------------------------------------
(* Several voices stopped, several objects swept: folds, step by step. *)

StopFold(v, ts, f) ==
    f = [s \in SUBSET ts |-> IF s = {} THEN v ELSE stop_track(f[s \ {Pick(s)}], Pick(s))]

LEMMA StopAllUnfolds ==
    ASSUME NEW v, NEW ts
    PROVE  StopAll(v, ts) = (CHOOSE f : StopFold(v, ts, f))[ts]
  BY DEF StopAll, FoldSet, MapThenFoldSet, StopFold, Pick

LEMMA StopAllKept ==
    ASSUME NEW v, VoiceOK(v), NEW m, MusicObjsOK(m), NEW cr, NEW keep \in BOOLEAN,
           keep => Kept(v, m, cr), NEW ts \in SUBSET Track, NEW w, w = StopAll(v, ts)
    PROVE  VoiceOK(w) /\ (keep => Kept(w, m, cr))
<1> DEFINE V == {x \in VoiceType : VoiceOK(x) /\ (keep => Kept(x, m, cr))}
<1>1. IsFiniteSet(ts)
  <2>1. IsFiniteSet(Track)
    BY ServiceAssumption, FS_Interval DEF Track
  <2> QED
    BY <2>1, FS_Subset
<1>2. v \in V
  BY DEF VoiceOK
<1>3. ASSUME NEW x \in V, NEW t \in ts PROVE stop_track(x, t) \in V
  <2>1. PICK y : y = stop_track(x, t)
    OBVIOUS
  <2>2. VoiceOK(x) /\ t \in Track /\ (keep => Kept(x, m, cr))
    OBVIOUS
  <2>3. VoiceOK(y)
    BY <2>1, <2>2, StopVoice
  <2>4. keep => Kept(y, m, cr)
    BY <2>1, <2>2, StopKept
  <2>5. y \in VoiceType
    BY <2>3 DEF VoiceOK
  <2> QED
    BY <2>1, <2>3, <2>4, <2>5
<1> HIDE DEF V
<1>4. \E f : StopFold(v, ts, f)
  <2> DEFINE g == [x \in ts \X V |-> stop_track(x[2], x[1])]
  <2>1. g \in [ts \X V -> V]
    BY <1>3
  <2>2. \A t \in ts : \A x \in V : g[<<t, x>>] = stop_track(x, t)
    OBVIOUS
  <2> HIDE DEF g
  <2>3. PICK f \in [SUBSET ts -> V] :
           \A s \in SUBSET ts : f[s] = IF s = {} THEN v ELSE g[<<Pick(s), f[s \ {Pick(s)}]>>]
    <3>1. \E f : IsFold(f, ts, V, v, g)
      BY <1>1, <1>2, <2>1, FoldExists
    <3> QED
      BY <3>1 DEF IsFold
  <2>4. ASSUME NEW s \in SUBSET ts, s # {}
        PROVE  f[s] = stop_track(f[s \ {Pick(s)}], Pick(s))
    <3>1. Pick(s) \in ts /\ s \ {Pick(s)} \in SUBSET ts
      BY <2>4, PickIn
    <3>2. f[s \ {Pick(s)}] \in V
      BY <2>3, <3>1
    <3> QED
      BY <2>2, <2>3, <2>4, <3>1, <3>2
  <2>5. f = [s \in SUBSET ts |-> IF s = {} THEN v ELSE stop_track(f[s \ {Pick(s)}], Pick(s))]
    BY <2>3, <2>4
  <2> QED
    BY <2>5 DEF StopFold
<1>5. PICK it : StopFold(v, ts, it) /\ StopAll(v, ts) = it[ts]
  BY <1>4, StopAllUnfolds
<1>6. /\ it[{}] = v
      /\ \A s \in SUBSET ts : s # {} => it[s] = stop_track(it[s \ {Pick(s)}], Pick(s))
  BY <1>5 DEF StopFold
<1> DEFINE Good == {s \in SUBSET ts : it[s] \in V}
<1>7. {} \in Good
  BY <1>2, <1>6
<1>8. ASSUME NEW s \in SUBSET ts, s # {}, \A x \in s : s \ {x} \in Good
      PROVE  s \in Good
  <2>1. Pick(s) \in s /\ Pick(s) \in ts
    BY <1>8, PickIn
  <2>2. it[s \ {Pick(s)}] \in V
    BY <1>8, <2>1
  <2>3. it[s] \in V
    BY <1>3, <1>6, <1>8, <2>1, <2>2
  <2> QED
    BY <2>3
<1>9. Good \in SUBSET (SUBSET ts)
  OBVIOUS
<1> HIDE DEF Good
<1>10. \A s \in SUBSET ts : s \in Good
  BY <1>1, <1>7, <1>8, <1>9, SubsetInduction
<1>11. it[ts] \in V
  BY <1>10 DEF Good
<1> QED
  BY <1>5, <1>11 DEF V

SweepFold(p, ss, f) ==
    f = [s \in SUBSET ss |-> IF s = {} THEN p ELSE DropRef(f[s \ {Pick(s)}], Pick(s))]

LEMMA SweepUnfolds ==
    ASSUME NEW p, NEW vm
    PROVE  audio_pool_sweep_vm(p, vm) = (CHOOSE f : SweepFold(p, Owned(p, vm), f))[Owned(p, vm)]
  BY DEF audio_pool_sweep_vm, FoldSet, MapThenFoldSet, SweepFold, Pick

LEMMA SweepKept ==
    ASSUME NEW p, PoolOK(p), NEW vm, NEW cr, NEW hand, NEW keep \in BOOLEAN,
           keep => Accounted(p, cr, hand) /\ Owned(p, vm) \subseteq cr,
           NEW q, q = audio_pool_sweep_vm(p, vm)
    PROVE  PoolOK(q) /\ (keep => Accounted(q, cr \ Owned(p, vm), hand))
<1> DEFINE V == {x \in PoolType : PoolOK(x)}
<1>0. PICK ss : ss = Owned(p, vm)
  OBVIOUS
<1>1. IsFiniteSet(ss) /\ ss \in SUBSET ObjSlot
  <2>1. IsFiniteSet(ObjSlot)
    BY PoolAssumption, FS_Interval DEF ObjSlot
  <2>2. ss \in SUBSET ObjSlot
    BY <1>0 DEF Owned
  <2> QED
    BY <2>1, <2>2, FS_Subset
<1>2. p \in V
  BY DEF PoolOK
<1>3. ASSUME NEW x \in V, NEW s \in ss PROVE DropRef(x, s) \in V
  <2>1. PICK y : y = DropRef(x, s)
    OBVIOUS
  <2>2. PoolOK(x) /\ s \in ObjSlot
    BY <1>1
  <2>3. PoolOK(y)
    BY <2>1, <2>2, DropRefPool
  <2> QED
    BY <2>1, <2>3 DEF PoolOK
<1> HIDE DEF V
<1>4. \E f : SweepFold(p, ss, f)
  <2> DEFINE g == [x \in ss \X V |-> DropRef(x[2], x[1])]
  <2>1. g \in [ss \X V -> V]
    BY <1>3
  <2>2. \A t \in ss : \A x \in V : g[<<t, x>>] = DropRef(x, t)
    OBVIOUS
  <2> HIDE DEF g
  <2>3. PICK f \in [SUBSET ss -> V] :
           \A s \in SUBSET ss : f[s] = IF s = {} THEN p ELSE g[<<Pick(s), f[s \ {Pick(s)}]>>]
    <3>1. \E f : IsFold(f, ss, V, p, g)
      BY <1>1, <1>2, <2>1, FoldExists
    <3> QED
      BY <3>1 DEF IsFold
  <2>4. ASSUME NEW s \in SUBSET ss, s # {}
        PROVE  f[s] = DropRef(f[s \ {Pick(s)}], Pick(s))
    <3>1. Pick(s) \in ss /\ s \ {Pick(s)} \in SUBSET ss
      BY <2>4, PickIn
    <3>2. f[s \ {Pick(s)}] \in V
      BY <2>3, <3>1
    <3> QED
      BY <2>2, <2>3, <2>4, <3>1, <3>2
  <2>5. f = [s \in SUBSET ss |-> IF s = {} THEN p ELSE DropRef(f[s \ {Pick(s)}], Pick(s))]
    BY <2>3, <2>4
  <2> QED
    BY <2>5 DEF SweepFold
<1>5. PICK it : SweepFold(p, ss, it) /\ q = it[ss]
  BY <1>0, <1>4, SweepUnfolds
<1>6. /\ it[{}] = p
      /\ \A s \in SUBSET ss : s # {} => it[s] = DropRef(it[s \ {Pick(s)}], Pick(s))
  BY <1>5 DEF SweepFold
<1> DEFINE Good == {s \in SUBSET ss : PoolOK(it[s]) /\ (keep => Accounted(it[s], cr \ s, hand))}
<1>7. {} \in Good
  <2>1. cr \ {} = cr
    OBVIOUS
  <2> QED
    BY <1>6, <2>1
<1>8. ASSUME NEW s \in SUBSET ss, s # {}, \A x \in s : s \ {x} \in Good
      PROVE  s \in Good
  <2>1. PICK x : x = Pick(s) /\ x \in s
    BY <1>8, PickIn
  <2>2. PICK y, z : y = it[s \ {x}] /\ z = it[s]
    OBVIOUS
  <2>3. PICK c : c = cr \ (s \ {x})
    OBVIOUS
  <2>4. PoolOK(y) /\ (keep => Accounted(y, c, hand))
    BY <1>8, <2>1, <2>2, <2>3
  <2>5. z = DropRef(y, x) /\ x \in ObjSlot
    BY <1>1, <1>6, <1>8, <2>1, <2>2
  <2>6. PoolOK(z)
    BY <2>4, <2>5, DropRefPool
  <2>7. ASSUME keep PROVE Accounted(z, cr \ s, hand)
    <3>1. x \in c /\ c \ {x} = cr \ s
      BY <1>0, <2>1, <2>3, <2>7
    <3>2. Accounted(z, c \ {x}, hand)
      BY <2>4, <2>5, <2>7, <3>1, CreatorBack
    <3> QED
      BY <3>1, <3>2
  <2> QED
    BY <2>2, <2>6, <2>7
<1>9. Good \in SUBSET (SUBSET ss)
  OBVIOUS
<1> HIDE DEF Good
<1>10. \A s \in SUBSET ss : s \in Good
  BY <1>1, <1>7, <1>8, <1>9, SubsetInduction
<1>11. PoolOK(it[ss]) /\ (keep => Accounted(it[ss], cr \ ss, hand))
  BY <1>10 DEF Good
<1> QED
  BY <1>0, <1>5, <1>11

-----------------------------------------------------------------------------
(* The service as a whole. *)

ServiceInv ==
    /\ VoiceOK(VoiceState) /\ MusicObjsOK(mobjs) /\ clean \in BOOLEAN
    /\ clean => Kept(VoiceState, mobjs, created)

\* The same of the state after a step.
After(v, m, c, cr) ==
    /\ VoiceOK(v) /\ MusicObjsOK(m) /\ c \in BOOLEAN
    /\ c => Kept(v, m, cr)

LEMMA InvAfter == ServiceInv <=> After(VoiceState, mobjs, clean, created)
  BY DEF ServiceInv, After

LEMMA AfterInv ==
    ASSUME NEW v, SetVoiceState(v), After(v, mobjs', clean', created')
    PROVE  ServiceInv'
<1>1. v \in VoiceType
  BY DEF After, VoiceOK
<1>2. VoiceState' = v
  BY <1>1 DEF VoiceState, SetVoiceState, VoiceType
<1>3. After(VoiceState', mobjs', clean', created')
  BY <1>2
<1> QED
  BY <1>3 DEF After, ServiceInv

LEMMA StateFields ==
    /\ VoiceState.pool = pool /\ VoiceState.tracks = tracks /\ VoiceState.tgens = tgens
    /\ VoiceState.channels = channels /\ VoiceState.mslots = mslots /\ VoiceState.fmvSync = fmvSync
  BY DEF VoiceState

\* Only the pool is touched.
LEMMA PoolVoice ==
    ASSUME NEW v, VoiceOK(v), NEW p, PoolOK(p),
           NEW w, w = [pool |-> p, tracks |-> v.tracks, tgens |-> v.tgens,
                       channels |-> v.channels, mslots |-> v.mslots, fmvSync |-> v.fmvSync]
    PROVE  VoiceOK(w)
<1>1. /\ v \in VoiceType /\ Cleared(v) /\ SlotsMatch(v) /\ SyncMatch(v) /\ ChannelsMatch(v)
  BY DEF VoiceOK
<1>2. /\ w.tracks = v.tracks /\ w.channels = v.channels /\ w.mslots = v.mslots
      /\ w.fmvSync = v.fmvSync /\ w.pool = p
  OBVIOUS
<1>3. w \in VoiceType
  BY <1>1 DEF VoiceType, PoolOK
<1>4. Cleared(w) /\ SlotsMatch(w)
  BY <1>1, <1>2 DEF Cleared, SlotsMatch
<1>5. SyncMatch(w) /\ ChannelsMatch(w)
  BY <1>1, <1>2 DEF SyncMatch, ChannelsMatch
<1> QED
  BY <1>2, <1>3, <1>4, <1>5 DEF VoiceOK

\* Only the channels are touched, and each keeps running or keeps still.
LEMMA ChannelVoice ==
    ASSUME NEW v, VoiceOK(v), NEW c \in [Track -> ChannelType],
           \A t \in Track : c[t].active = v.channels[t].active,
           NEW w, w = [pool |-> v.pool, tracks |-> v.tracks, tgens |-> v.tgens,
                       channels |-> c, mslots |-> v.mslots, fmvSync |-> v.fmvSync]
    PROVE  VoiceOK(w)
<1>1. /\ v \in VoiceType /\ Cleared(v) /\ SlotsMatch(v) /\ SyncMatch(v) /\ ChannelsMatch(v)
      /\ PoolOK(v.pool)
  BY DEF VoiceOK
<1>2. /\ w.tracks = v.tracks /\ w.channels = c /\ w.mslots = v.mslots
      /\ w.fmvSync = v.fmvSync /\ w.pool = v.pool
  OBVIOUS
<1>3. w \in VoiceType
  BY <1>1 DEF VoiceType
<1>4. Cleared(w) /\ SlotsMatch(w)
  BY <1>1, <1>2 DEF Cleared, SlotsMatch
<1>5. SyncMatch(w) /\ ChannelsMatch(w)
  BY <1>1, <1>2 DEF SyncMatch, ChannelsMatch
<1> QED
  BY <1>1, <1>2, <1>3, <1>4, <1>5 DEF VoiceOK

LEMMA SameTracksSameHand ==
    ASSUME NEW v, NEW w, w.tracks = v.tracks, w.mslots = v.mslots, NEW m
    PROVE  Hand(w, m) = Hand(v, m)
  BY DEF Hand

LEMMA StutterInv == ServiceInv /\ UNCHANGED avars => ServiceInv'
<1> SUFFICES ASSUME ServiceInv, UNCHANGED avars PROVE ServiceInv'
  OBVIOUS
<1>1. SetVoiceState(VoiceState)
  BY StateFields DEF avars, SetVoiceState
<1>2. After(VoiceState, mobjs', clean', created')
  BY InvAfter DEF avars
<1> QED
  BY <1>1, <1>2, AfterInv

LEMMA InitInv == AudioInit => ServiceInv
<1> SUFFICES ASSUME AudioInit PROVE ServiceInv
  OBVIOUS
<1>1. PICK v : v = VoiceState
  OBVIOUS
<1>2. /\ v = [pool |-> audio_pool_init, tracks |-> [t \in Track |-> IdleTrack],
              tgens |-> [t \in Track |-> 1], channels |-> [t \in Track |-> IdleChannel],
              mslots |-> [i \in MusicSlot |-> IdleMusic], fmvSync |-> FALSE]
  BY <1>1 DEF AudioInit, VoiceState
<1>3. /\ \A t \in Track : v.tracks[t] = IdleTrack /\ v.channels[t] = IdleChannel
      /\ \A i \in MusicSlot : v.mslots[i] = IdleMusic
      /\ v.fmvSync = FALSE /\ v.pool = audio_pool_init
  BY <1>2
<1>4. PoolOK(v.pool) /\ v.pool \in PoolType
  BY <1>3, PoolInit DEF PoolOK
<1>5. v \in VoiceType
  BY <1>2, <1>3, <1>4, IdleTypes DEF VoiceType
<1>6. \A i \in MusicSlot : ~v.mslots[i].in_use
  BY <1>3, IdleTypes
<1>7. Cleared(v) /\ SlotsMatch(v)
  BY <1>3, <1>6 DEF Cleared, SlotsMatch
<1>8. SyncMatch(v)
  BY <1>3, <1>6 DEF SyncMatch
<1>9. ChannelsMatch(v)
  <2>1. IdleTrack.active = FALSE /\ IdleChannel.active = FALSE
    BY IdleTypes
  <2> QED
    BY <1>3, <2>1 DEF ChannelsMatch
<1>10. VoiceOK(v)
  BY <1>4, <1>5, <1>7, <1>8, <1>9 DEF VoiceOK
<1>11. IdleMusicObj \in MusicObjType /\ IdleMusicObj.intro = NoObject /\ IdleMusicObj.loop = NoObject
  BY DEF IdleMusicObj, MusicObjType, Handles, Owners
<1>12. MusicObjsOK(mobjs) /\ \A i \in MusicObjSlot : mobjs[i] = IdleMusicObj
  BY <1>11 DEF AudioInit, MusicObjsOK
<1>13. PICK h : h = Hand(v, mobjs)
  OBVIOUS
<1>14. h \in [Holder -> Handles]
  BY <1>5, <1>12, <1>13, HandFacts
<1>15. ASSUME NEW k \in Holder PROVE h[k] = NoObject
  <2>1. CASE \E t \in Track : k = <<"voice", t>>
    BY <1>3, <1>5, <1>12, <1>13, <2>1, HandFacts, IdleTypes
  <2>2. CASE \E i \in MusicObjSlot : k = <<"intro", i>> \/ k = <<"loop", i>>
    <3>1. PICK i \in MusicObjSlot : k = <<"intro", i>> \/ k = <<"loop", i>>
      BY <2>2
    <3>2. h[<<"intro", i>>] = mobjs[i].intro /\ h[<<"loop", i>>] = mobjs[i].loop
      BY <1>5, <1>12, <1>13, HandFacts
    <3>3. mobjs[i] = IdleMusicObj
      BY <1>12
    <3> QED
      BY <1>11, <3>1, <3>2, <3>3
  <2>3. CASE \E i \in MusicSlot : k = <<"player", i>>
    BY <1>3, <1>5, <1>12, <1>13, <2>3, HandFacts, IdleTypes
  <2> QED
    BY <2>1, <2>2, <2>3, HolderCases
<1>16. Tokens({}, h) = {}
  BY <1>15 DEF Tokens
<1>17. \A s \in ObjSlot : v.pool.objects[s] = NoObj
  BY <1>3 DEF audio_pool_init
<1>18. Books(v.pool, {})
  <2>1. \A s : At({}, s) = {}
    BY DEF At
  <2>2. \A s \in ObjSlot : v.pool.objects[s].refs = 0 /\ ~v.pool.objects[s].in_use
    BY <1>17 DEF NoObj
  <2> QED
    BY <2>1, <2>2, FS_EmptySet DEF Books
<1>19. Accounted(v.pool, {}, h)
  BY <1>14, <1>15, <1>16, <1>18 DEF Accounted
<1>20. Kept(v, mobjs, created) /\ clean \in BOOLEAN
  BY <1>13, <1>19 DEF Kept, AudioInit
<1> QED
  BY <1>1, <1>10, <1>12, <1>20 DEF ServiceInv

-----------------------------------------------------------------------------
(* The pool's requests. *)

LEMMA LoadInv ==
    ASSUME ServiceInv, NEW size \in Nat, NEW o \in Owner \cup Streamers \cup {0},
           NEW rate \in Rates \cup {0}, Load(size, o, rate)
    PROVE  ServiceInv'
<1>1. PICK r : r = audio_pool_alloc_with_rate(pool, size, o, rate)
  OBVIOUS
<1>2. /\ r.res = "ok" /\ pool' = r.pool /\ created' = created \cup {r.handle[1]}
      /\ UNCHANGED <<voicevars, mobjs, mgens, clean>>
  BY <1>1 DEF Load
<1>3. PICK v, q, s : v = VoiceState /\ q = r.pool /\ s = r.handle[1]
  OBVIOUS
<1>4. /\ VoiceOK(v) /\ PoolOK(v.pool) /\ v.pool = pool /\ MusicObjsOK(mobjs)
      /\ clean \in BOOLEAN /\ v \in VoiceType
  BY <1>3, StateFields DEF ServiceInv, VoiceOK
<1>5. /\ PoolOK(q) /\ s \in ObjSlot /\ ~pool.objects[s].in_use
      /\ q.objects[s].in_use /\ q.objects[s].refs = 1
      /\ \A t \in ObjSlot : t # s => q.objects[t] = pool.objects[t]
  BY <1>1, <1>2, <1>3, <1>4, AllocPool
<1>7. PICK w : w = [pool |-> q, tracks |-> v.tracks, tgens |-> v.tgens,
                    channels |-> v.channels, mslots |-> v.mslots, fmvSync |-> v.fmvSync]
  OBVIOUS
<1>8. VoiceOK(w)
  BY <1>4, <1>5, <1>7, PoolVoice
<1>9. SetVoiceState(w)
  BY <1>2, <1>3, <1>7, StateFields DEF SetVoiceState, voicevars
<1>10. ASSUME clean PROVE Kept(w, mobjs, created')
  <2>1. PICK h : h = Hand(v, mobjs)
    OBVIOUS
  <2>2. Accounted(pool, created, h)
    BY <1>3, <1>4, <1>10, <2>1 DEF ServiceInv, Kept
  <2>3. Accounted(q, created \cup {s}, h)
    BY <1>4, <1>5, <2>2, CreateOne
  <2>4. Hand(w, mobjs) = h /\ w.pool = q
    BY <1>7, <2>1, SameTracksSameHand
  <2> QED
    BY <1>2, <1>3, <2>3, <2>4 DEF Kept
<1>11. After(w, mobjs', clean', created')
  BY <1>2, <1>4, <1>8, <1>10 DEF After
<1> QED
  BY <1>9, <1>11, AfterInv

LEMMA LoadsKeep == ASSUME ServiceInv, PoolAlloc \/ LoadStaged PROVE ServiceInv'
<1>1. CASE PoolAlloc
  <2>1. PICK size \in Sizes \cup {0}, o \in Owner : Load(size, o, 0)
    BY <1>1 DEF PoolAlloc
  <2>2. size \in Nat
    BY ServiceAssumption
  <2> QED
    BY <2>1, <2>2, LoadInv
<1>2. CASE LoadStaged
  <2>1. PICK size \in Sizes, o \in Owner, rate \in Rates : Load(size, o, rate)
    BY <1>2 DEF LoadStaged
  <2>2. size \in Nat
    BY ServiceAssumption
  <2> QED
    BY <2>1, <2>2, LoadInv
<1> QED
  BY <1>1, <1>2

LEMMA PoolFreeInv == ASSUME ServiceInv, PoolFree PROVE ServiceInv'
<1>1. PICK g \in ObjHandle :
        /\ resolve(pool, g)
        /\ pool' = audio_pool_unref(pool, g)
        /\ created' = created \ {g[1]}
        /\ clean' = (clean /\ g[1] \in created)
        /\ UNCHANGED <<voicevars, mobjs, mgens>>
  BY DEF PoolFree
<1>2. PICK v, q, s : v = VoiceState /\ q = audio_pool_unref(pool, g) /\ s = g[1]
  OBVIOUS
<1>3. /\ VoiceOK(v) /\ PoolOK(v.pool) /\ v.pool = pool /\ MusicObjsOK(mobjs)
      /\ clean \in BOOLEAN /\ v \in VoiceType
  BY <1>2, StateFields DEF ServiceInv, VoiceOK
<1>4. g \in Handles
  BY DEF Handles
<1>5. PoolOK(q) /\ q = DropRef(pool, s)
  BY <1>1, <1>2, <1>3, <1>4, UnrefPool DEF audio_pool_unref
<1>6. PICK w : w = [pool |-> q, tracks |-> v.tracks, tgens |-> v.tgens,
                    channels |-> v.channels, mslots |-> v.mslots, fmvSync |-> v.fmvSync]
  OBVIOUS
<1>7. VoiceOK(w)
  BY <1>3, <1>5, <1>6, PoolVoice
<1>8. SetVoiceState(w)
  BY <1>1, <1>2, <1>6, StateFields DEF SetVoiceState, voicevars
<1>9. ASSUME clean' PROVE Kept(w, mobjs, created')
  <2>1. PICK h : h = Hand(v, mobjs)
    OBVIOUS
  <2>2. clean /\ s \in created
    BY <1>1, <1>2, <1>9
  <2>3. Accounted(pool, created, h)
    BY <1>2, <1>3, <2>1, <2>2 DEF ServiceInv, Kept
  <2>4. Accounted(q, created \ {s}, h)
    BY <1>3, <1>5, <2>2, <2>3, CreatorBack
  <2>5. Hand(w, mobjs) = h /\ w.pool = q
    BY <1>6, <2>1, SameTracksSameHand
  <2> QED
    BY <1>1, <1>2, <2>4, <2>5 DEF Kept
<1>10. clean' \in BOOLEAN
  BY <1>1
<1>11. After(w, mobjs', clean', created')
  BY <1>1, <1>3, <1>7, <1>9, <1>10 DEF After
<1> QED
  BY <1>8, <1>11, AfterInv

-----------------------------------------------------------------------------
(* The music objects. *)

LEMMA IdleMusicObjType ==
    /\ IdleMusicObj \in MusicObjType /\ IdleMusicObj.intro = NoObject /\ IdleMusicObj.loop = NoObject
    /\ IdleMusicObj.in_use = FALSE
  BY DEF IdleMusicObj, MusicObjType, Handles, Owners

\* One music object is replaced.
LEMMA MusicObjSet ==
    ASSUME NEW m, MusicObjsOK(m), NEW i \in MusicObjSlot,
           NEW n, n \in [MusicObjSlot -> MusicObjType], n[i].in_use \/ n[i] = IdleMusicObj,
           \A j \in MusicObjSlot : j # i => n[j] = m[j]
    PROVE  MusicObjsOK(n)
  BY DEF MusicObjsOK

\* The hand when a music object is set, and nothing else.
LEMMA MusicObjHand ==
    ASSUME NEW v, NEW w, v \in VoiceType, w \in VoiceType, w.tracks = v.tracks, w.mslots = v.mslots,
           NEW m, MusicObjsOK(m), NEW n, MusicObjsOK(n), NEW i \in MusicObjSlot,
           \A j \in MusicObjSlot : j # i => n[j] = m[j],
           NEW k1, k1 = <<"intro", i>>, NEW k2, k2 = <<"loop", i>>,
           NEW h1, h1 = [Hand(v, m) EXCEPT ![k1] = n[i].intro]
    PROVE  Hand(w, n) = [h1 EXCEPT ![k2] = n[i].loop]
<1>1. PICK h, g, h2 : h = Hand(v, m) /\ g = Hand(w, n) /\ h2 = [h1 EXCEPT ![k2] = n[i].loop]
  OBVIOUS
<1>2. /\ h \in [Holder -> Handles]
      /\ \A t \in Track : h[<<"voice", t>>] = v.tracks[t].object
      /\ \A j \in MusicObjSlot : h[<<"intro", j>>] = m[j].intro /\ h[<<"loop", j>>] = m[j].loop
      /\ \A j \in MusicSlot : h[<<"player", j>>] = v.mslots[j].loop
  BY <1>1, HandFacts
<1>3. /\ g \in [Holder -> Handles]
      /\ \A t \in Track : g[<<"voice", t>>] = v.tracks[t].object
      /\ \A j \in MusicObjSlot : g[<<"intro", j>>] = n[j].intro /\ g[<<"loop", j>>] = n[j].loop
      /\ \A j \in MusicSlot : g[<<"player", j>>] = v.mslots[j].loop
  BY <1>1, HandFacts
<1>4. /\ k1 \in Holder /\ k2 \in Holder /\ k1 # k2 /\ n[i].intro \in Handles /\ n[i].loop \in Handles
  BY HolderFacts DEF MusicObjsOK, MusicObjType
<1>5. /\ h2 \in [Holder -> Handles] /\ h2[k1] = n[i].intro /\ h2[k2] = n[i].loop
      /\ \A k \in Holder : k # k1 /\ k # k2 => h2[k] = h[k]
  BY <1>1, <1>2, <1>4
<1>6. ASSUME NEW t \in Track PROVE g[<<"voice", t>>] = h2[<<"voice", t>>]
  <2>1. <<"voice", t>> \in Holder /\ <<"voice", t>> # k1 /\ <<"voice", t>> # k2
    BY HolderFacts
  <2> QED
    BY <1>2, <1>3, <1>5, <2>1
<1>7. ASSUME NEW j \in MusicSlot PROVE g[<<"player", j>>] = h2[<<"player", j>>]
  <2>1. <<"player", j>> \in Holder /\ <<"player", j>> # k1 /\ <<"player", j>> # k2
    BY HolderFacts
  <2> QED
    BY <1>2, <1>3, <1>5, <2>1
<1>8. ASSUME NEW j \in MusicObjSlot
      PROVE  g[<<"intro", j>>] = h2[<<"intro", j>>] /\ g[<<"loop", j>>] = h2[<<"loop", j>>]
  <2>1. CASE j = i
    BY <1>3, <1>5, <2>1
  <2>2. CASE j # i
    <3>1. /\ <<"intro", j>> \in Holder /\ <<"intro", j>> # k1 /\ <<"intro", j>> # k2
          /\ <<"loop", j>> \in Holder /\ <<"loop", j>> # k1 /\ <<"loop", j>> # k2
      BY <2>2, HolderFacts
    <3>2. n[j] = m[j]
      BY <2>2
    <3> QED
      BY <1>2, <1>3, <1>5, <3>1, <3>2
  <2> QED
    BY <2>1, <2>2
<1>9. g = h2
  BY <1>3, <1>5, <1>6, <1>7, <1>8, SameHand
<1> QED
  BY <1>1, <1>9

LEMMA FreeMusicInv == ASSUME ServiceInv, FreeMusic PROVE ServiceInv'
<1>1. PICK g \in MusicHandle :
        /\ pool' = audio_pool_unref(audio_pool_unref(pool, mobjs[g[1]].intro), mobjs[g[1]].loop)
        /\ mobjs' = [mobjs EXCEPT ![g[1]] = IdleMusicObj]
        /\ UNCHANGED <<voicevars, created, clean>>
  BY DEF FreeMusic
<1>2. PICK v, i, p, q : /\ v = VoiceState /\ i = g[1]
                        /\ p = audio_pool_unref(pool, mobjs[i].intro)
                        /\ q = audio_pool_unref(p, mobjs[i].loop)
  OBVIOUS
<1>3. /\ VoiceOK(v) /\ PoolOK(pool) /\ v.pool = pool /\ MusicObjsOK(mobjs)
      /\ clean \in BOOLEAN /\ v \in VoiceType
  BY <1>2, StateFields DEF ServiceInv, VoiceOK
<1>4. i \in MusicObjSlot /\ mobjs[i].intro \in Handles /\ mobjs[i].loop \in Handles
  BY <1>2, <1>3 DEF MusicHandle, MusicObjsOK, MusicObjType
<1>5. PoolOK(p) /\ PoolOK(q) /\ pool' = q
  <2>1. PoolOK(p)
    BY <1>2, <1>3, <1>4, UnrefPool
  <2> QED
    BY <1>1, <1>2, <1>4, <2>1, UnrefPool
<1>6. PICK n : n = [mobjs EXCEPT ![i] = IdleMusicObj]
  OBVIOUS
<1>7. /\ MusicObjsOK(n) /\ n[i] = IdleMusicObj /\ mobjs' = n
      /\ \A j \in MusicObjSlot : j # i => n[j] = mobjs[j]
  <2>1. mobjs' = n
    BY <1>1, <1>2, <1>6
  <2> QED
    <3>1. n \in [MusicObjSlot -> MusicObjType]
      BY <1>3, <1>4, <1>6, IdleMusicObjType DEF MusicObjsOK
    <3>2. n[i] = IdleMusicObj /\ \A j \in MusicObjSlot : j # i => n[j] = mobjs[j]
      BY <1>3, <1>4, <1>6 DEF MusicObjsOK
    <3>3. MusicObjsOK(n)
      BY <1>3, <1>4, <3>1, <3>2, MusicObjSet
    <3> QED
      BY <2>1, <3>2, <3>3
<1>8. PICK w : w = [pool |-> q, tracks |-> v.tracks, tgens |-> v.tgens,
                    channels |-> v.channels, mslots |-> v.mslots, fmvSync |-> v.fmvSync]
  OBVIOUS
<1>9. VoiceOK(w) /\ w \in VoiceType /\ w.tracks = v.tracks /\ w.mslots = v.mslots /\ w.pool = q
  <2>1. VoiceOK(w)
    BY <1>3, <1>5, <1>8, PoolVoice
  <2> QED
    BY <1>8, <2>1 DEF VoiceOK
<1>10. SetVoiceState(w)
  BY <1>1, <1>2, <1>5, <1>8, StateFields DEF SetVoiceState, voicevars
<1>11. ASSUME clean PROVE Kept(w, n, created)
  <2>1. PICK h, k1, k2, h1 : /\ h = Hand(v, mobjs) /\ k1 = <<"intro", i>> /\ k2 = <<"loop", i>>
                             /\ h1 = [h EXCEPT ![k1] = NoObject]
    OBVIOUS
  <2>2. Accounted(pool, created, h)
    BY <1>2, <1>3, <1>11, <2>1 DEF ServiceInv, Kept
  <2>3. /\ k1 \in Holder /\ k2 \in Holder /\ k1 # k2
        /\ h[k1] = mobjs[i].intro /\ h[k2] = mobjs[i].loop /\ h \in [Holder -> Handles]
    BY <1>3, <1>4, <2>1, HolderFacts, HandFacts
  <2>4. Accounted(p, created, h1)
    <3>1. p = audio_pool_unref(pool, h[k1])
      BY <1>2, <2>3
    <3>2. Accounted(p, created, [h EXCEPT ![k1] = NoObject])
      BY <1>3, <2>2, <2>3, <3>1, GiveBack
    <3> QED
      BY <2>1, <3>2
  <2>5. h1[k2] = mobjs[i].loop
    BY <2>1, <2>3
  <2>6. Accounted(q, created, [h1 EXCEPT ![k2] = NoObject])
    <3>1. q = audio_pool_unref(p, h1[k2])
      BY <1>2, <2>5
    <3> QED
      BY <1>5, <2>3, <2>4, <3>1, GiveBack
  <2>7. n[i].intro = NoObject /\ n[i].loop = NoObject
    BY <1>7, IdleMusicObjType
  <2>8. Hand(w, n) = [h1 EXCEPT ![k2] = NoObject]
    <3>1. h1 = [Hand(v, mobjs) EXCEPT ![k1] = n[i].intro]
      BY <2>1, <2>7
    <3>2. Hand(w, n) = [h1 EXCEPT ![k2] = n[i].loop]
      BY <1>3, <1>4, <1>7, <1>9, <2>1, <3>1, MusicObjHand
    <3> QED
      BY <2>7, <3>2
  <2> QED
    BY <1>9, <2>6, <2>8 DEF Kept
<1>12. After(w, mobjs', clean', created')
  BY <1>1, <1>3, <1>7, <1>9, <1>11 DEF After
<1> QED
  BY <1>10, <1>12, AfterInv

LEMMA LoadMusicInv == ASSUME ServiceInv, LoadMusic PROVE ServiceInv'
<1>1. PICK intro \in ObjHandle, loop \in ObjHandle \cup {NoObject}, o \in Streamers :
        LET free == {m \in MusicObjSlot : ~mobjs[m].in_use}
        IN  /\ resolve(pool, intro)
            /\ loop # NoObject => resolve(pool, loop)
            /\ free # {}
            /\ pool' = audio_pool_ref(audio_pool_ref(pool, intro), loop)
            /\ mobjs' = [mobjs EXCEPT ![Min(free)] =
                            [in_use |-> TRUE, intro |-> intro, loop |-> loop, owner |-> o]]
            /\ UNCHANGED <<voicevars, mgens, created, clean>>
  BY DEF LoadMusic
<1>2. PICK free, i, v, p, q, rec :
        /\ free = {m \in MusicObjSlot : ~mobjs[m].in_use} /\ i = Min(free) /\ v = VoiceState
        /\ p = audio_pool_ref(pool, intro) /\ q = audio_pool_ref(p, loop)
        /\ rec = [in_use |-> TRUE, intro |-> intro, loop |-> loop, owner |-> o]
  OBVIOUS
<1>3. /\ VoiceOK(v) /\ PoolOK(pool) /\ v.pool = pool /\ MusicObjsOK(mobjs)
      /\ clean \in BOOLEAN /\ v \in VoiceType
  BY <1>2, StateFields DEF ServiceInv, VoiceOK
<1>4. i \in MusicObjSlot /\ ~mobjs[i].in_use
  <2>1. free \in SUBSET Nat /\ free # {}
    BY <1>1, <1>2 DEF MusicObjSlot
  <2>2. i \in free
    BY <1>2, <2>1, LeastIsMin
  <2> QED
    BY <1>2, <2>2
<1>5. mobjs[i].intro = NoObject /\ mobjs[i].loop = NoObject
  BY <1>3, <1>4, IdleMusicObjType DEF MusicObjsOK
<1>6. intro \in Handles /\ loop \in Handles
  BY DEF Handles
<1>7. PoolOK(p) /\ PoolOK(q) /\ pool' = q
  <2>1. PoolOK(p)
    BY <1>2, <1>3, <1>6, RefPool
  <2> QED
    BY <1>1, <1>2, <1>6, <2>1, RefPool
<1>8. rec \in MusicObjType /\ rec.in_use = TRUE /\ rec.intro = intro /\ rec.loop = loop
  BY <1>2, <1>6 DEF MusicObjType, Owners
<1>9. PICK n : n = [mobjs EXCEPT ![i] = rec]
  OBVIOUS
<1>10. /\ MusicObjsOK(n) /\ n[i] = rec /\ mobjs' = n
       /\ \A j \in MusicObjSlot : j # i => n[j] = mobjs[j]
  <2>1. mobjs' = n
    BY <1>1, <1>2, <1>9
  <2>2. n \in [MusicObjSlot -> MusicObjType]
    BY <1>3, <1>4, <1>8, <1>9 DEF MusicObjsOK
  <2>3. n[i] = rec /\ \A j \in MusicObjSlot : j # i => n[j] = mobjs[j]
    BY <1>3, <1>4, <1>9 DEF MusicObjsOK
  <2>4. MusicObjsOK(n)
    BY <1>3, <1>4, <1>8, <2>2, <2>3, MusicObjSet
  <2> QED
    BY <2>1, <2>3, <2>4
<1>11. PICK w : w = [pool |-> q, tracks |-> v.tracks, tgens |-> v.tgens,
                    channels |-> v.channels, mslots |-> v.mslots, fmvSync |-> v.fmvSync]
  OBVIOUS
<1>12. VoiceOK(w) /\ w \in VoiceType /\ w.tracks = v.tracks /\ w.mslots = v.mslots /\ w.pool = q
  <2>1. VoiceOK(w)
    BY <1>3, <1>7, <1>11, PoolVoice
  <2> QED
    BY <1>11, <2>1 DEF VoiceOK
<1>13. SetVoiceState(w)
  BY <1>1, <1>2, <1>7, <1>11, StateFields DEF SetVoiceState, voicevars
<1>14. ASSUME clean PROVE Kept(w, n, created)
  <2>1. PICK h, k1, k2, h1 : /\ h = Hand(v, mobjs) /\ k1 = <<"intro", i>> /\ k2 = <<"loop", i>>
                             /\ h1 = [h EXCEPT ![k1] = intro]
    OBVIOUS
  <2>2. Accounted(pool, created, h)
    BY <1>2, <1>3, <1>14, <2>1 DEF ServiceInv, Kept
  <2>3. /\ k1 \in Holder /\ k2 \in Holder /\ k1 # k2
        /\ h[k1] = NoObject /\ h[k2] = NoObject /\ h \in [Holder -> Handles]
    BY <1>3, <1>4, <1>5, <2>1, HolderFacts, HandFacts
  <2>4. Accounted(p, created, h1) /\ (loop # NoObject => resolve(p, loop))
    <3>1. /\ Accounted(p, created, [h EXCEPT ![k1] = intro])
          /\ \A g \in Handles : resolve(pool, g) => resolve(p, g)
      BY <1>1, <1>2, <1>3, <1>6, <2>2, <2>3, TakeOne
    <3> QED
      BY <1>1, <1>6, <2>1, <3>1
  <2>5. h1[k2] = NoObject
    BY <2>1, <2>3
  <2>6. Accounted(q, created, [h1 EXCEPT ![k2] = loop])
    BY <1>2, <1>6, <1>7, <2>3, <2>4, <2>5, TakeOne
  <2>7. n[i].intro = intro /\ n[i].loop = loop
    BY <1>8, <1>10
  <2>8. Hand(w, n) = [h1 EXCEPT ![k2] = loop]
    <3>1. h1 = [Hand(v, mobjs) EXCEPT ![k1] = n[i].intro]
      BY <2>1, <2>7
    <3>2. Hand(w, n) = [h1 EXCEPT ![k2] = n[i].loop]
      BY <1>3, <1>4, <1>10, <1>12, <2>1, <3>1, MusicObjHand
    <3> QED
      BY <2>7, <3>2
  <2> QED
    BY <1>12, <2>6, <2>8 DEF Kept
<1>15. After(w, mobjs', clean', created')
  BY <1>1, <1>3, <1>10, <1>12, <1>14 DEF After
<1> QED
  BY <1>13, <1>15, AfterInv

-----------------------------------------------------------------------------
(* The voices' requests. *)


LEMMA MinOfThree ==
    ASSUME NEW a \in Int, NEW b \in Int, NEW c \in Int
    PROVE  Min({a, b, c}) \in Int
<1>1. \E x \in {a, b, c} : \A y \in {a, b, c} : x <= y
  <2>1. CASE a <= b /\ a <= c
    BY <2>1
  <2>2. CASE b <= a /\ b <= c
    BY <2>2
  <2>3. CASE c <= a /\ c <= b
    BY <2>3
  <2> QED
    BY <2>1, <2>2, <2>3
<1> QED
  BY <1>1 DEF Min

\* What a sample has to say about itself.
LEMMA SampleFacts ==
    ASSUME NEW p, PoolOK(p), NEW h \in ObjHandle
    PROVE  /\ audio_pool_object_size(p, h) \in Nat
           /\ audio_pool_object_sample_rate(p, h) \in Rates \cup {0}
           /\ Copied(p, h, 0, audio_pool_object_size(p, h)) \in Int
<1>1. PICK o : o = p.objects[h[1]]
  OBVIOUS
<1>2. o \in ObjectType
  BY <1>1 DEF PoolOK, PoolType, ObjHandle
<1>3. audio_pool_object_size(p, h) \in Nat
  BY <1>1, <1>2 DEF audio_pool_object_size, ObjectType
<1>4. audio_pool_object_sample_rate(p, h) \in Rates \cup {0}
  BY <1>1, <1>2 DEF audio_pool_object_sample_rate, ObjectType
<1>5. PICK n \in Nat : n = audio_pool_object_size(p, h)
  BY <1>3
<1>6. Len(o.chain) \in Nat /\ o.size \in Nat /\ BlockSize \in Nat
  BY <1>2, PoolAssumption DEF ObjectType
<1>7. PICK c \in Int : c = Len(o.chain) * BlockSize - 0
  BY <1>6
<1>8. PICK z \in Int : z = o.size - 0
  BY <1>6
<1>9. Min({n, z, c}) \in Int
  BY MinOfThree
<1>10. Copied(p, h, 0, n) = 0 \/ Copied(p, h, 0, n) = Min({n, z, c})
  BY <1>1, <1>7, <1>8 DEF Copied
<1> QED
  BY <1>3, <1>4, <1>5, <1>9, <1>10

\* A voice of this shape, so that what is set in it can be read off.
Shape(v) ==
    v = [pool |-> v.pool, tracks |-> v.tracks, tgens |-> v.tgens, channels |-> v.channels,
         mslots |-> v.mslots, fmvSync |-> v.fmvSync]

LEMMA SfxUnfolds ==
    ASSUME NEW v, Shape(v), NEW t, NEW h, NEW o, NEW p, NEW u, u = [v EXCEPT !.pool = p],
           NEW rec, rec = [active |-> TRUE, object |-> h, kind |-> "sfx", owner |-> o],
           NEW n, n = Min({Copied(p, h, 0, audio_pool_object_size(p, h)), ChannelFrames}),
           NEW chan, chan = [active |-> TRUE, frames |-> n,
                             rate |-> audio_pool_object_sample_rate(p, h)]
    PROVE  Claim(StartSfx(u, t, h), t, h, "sfx", o) = Claimed(v, t, rec, chan, p)
<1>1. u = [pool |-> p, tracks |-> v.tracks, tgens |-> v.tgens, channels |-> v.channels,
           mslots |-> v.mslots, fmvSync |-> v.fmvSync]
  BY DEF Shape
<1>2. PICK x : x = StartSfx(u, t, h)
  OBVIOUS
<1>3. x = [u EXCEPT !.channels = [u.channels EXCEPT ![t] = chan]]
  BY <1>1, <1>2 DEF StartSfx
<1>4. x = [pool |-> p, tracks |-> v.tracks, tgens |-> v.tgens,
           channels |-> [v.channels EXCEPT ![t] = chan],
           mslots |-> v.mslots, fmvSync |-> v.fmvSync]
  BY <1>1, <1>3
<1>5. Claim(x, t, h, "sfx", o) = [x EXCEPT !.tracks = [x.tracks EXCEPT ![t] = rec]]
  BY DEF Claim
<1>6. Claim(x, t, h, "sfx", o)
          = [pool |-> p, tracks |-> [v.tracks EXCEPT ![t] = rec], tgens |-> v.tgens,
             channels |-> [v.channels EXCEPT ![t] = chan],
             mslots |-> v.mslots, fmvSync |-> v.fmvSync]
  <2>1. x.tracks = v.tracks
    BY <1>4
  <2>2. Claim(x, t, h, "sfx", o) = [x EXCEPT !.tracks = [v.tracks EXCEPT ![t] = rec]]
    BY <1>5, <2>1
  <2> QED
    BY <1>4, <2>2
<1> QED
  BY <1>2, <1>6 DEF Claimed

LEMMA PcmUnfolds ==
    ASSUME NEW v, Shape(v), NEW t, NEW o, NEW rate,
           NEW rec, rec = [active |-> TRUE, object |-> NoObject, kind |-> "music", owner |-> o],
           NEW chan, chan = [active |-> TRUE, frames |-> 0, rate |-> rate]
    PROVE  Claim(StartPcm(v, t, rate), t, NoObject, "music", o) = Claimed(v, t, rec, chan, v.pool)
<1>1. PICK x : x = StartPcm(v, t, rate)
  OBVIOUS
<1>2. x = [v EXCEPT !.channels = [v.channels EXCEPT ![t] = chan]]
  BY <1>1 DEF StartPcm
<1>3. x = [pool |-> v.pool, tracks |-> v.tracks, tgens |-> v.tgens,
           channels |-> [v.channels EXCEPT ![t] = chan],
           mslots |-> v.mslots, fmvSync |-> v.fmvSync]
  BY <1>2 DEF Shape
<1>4. Claim(x, t, NoObject, "music", o) = [x EXCEPT !.tracks = [x.tracks EXCEPT ![t] = rec]]
  BY DEF Claim
<1>5. Claim(x, t, NoObject, "music", o)
          = [pool |-> v.pool, tracks |-> [v.tracks EXCEPT ![t] = rec], tgens |-> v.tgens,
             channels |-> [v.channels EXCEPT ![t] = chan],
             mslots |-> v.mslots, fmvSync |-> v.fmvSync]
  <2>1. x.tracks = v.tracks
    BY <1>3
  <2>2. Claim(x, t, NoObject, "music", o) = [x EXCEPT !.tracks = [v.tracks EXCEPT ![t] = rec]]
    BY <1>4, <2>1
  <2> QED
    BY <1>3, <2>2
<1> QED
  BY <1>1, <1>5 DEF Claimed

LEMMA MusicUnfolds ==
    ASSUME NEW v, Shape(v), NEW t, NEW i, NEW kind, NEW loop, NEW obj, NEW o, NEW p,
           NEW u, u = [v EXCEPT !.pool = p],
           NEW rec, rec = [active |-> TRUE, object |-> obj, kind |-> "music", owner |-> o],
           NEW chan, chan = [active |-> TRUE, frames |-> 0, rate |-> v.channels[t].rate],
           NEW slot, slot = [in_use |-> TRUE, track |-> t, kind |-> kind, loop |-> loop]
    PROVE  Claim(StartMusic(u, t, i, kind, loop), t, obj, "music", o)
              = Played(v, t, i, rec, chan, slot, audio_pool_ref(p, loop))
<1>1. u = [pool |-> p, tracks |-> v.tracks, tgens |-> v.tgens, channels |-> v.channels,
           mslots |-> v.mslots, fmvSync |-> v.fmvSync]
  BY DEF Shape
<1>2. PICK x, q : x = StartMusic(u, t, i, kind, loop) /\ q = audio_pool_ref(p, loop)
  OBVIOUS
<1>3. u.channels[t].rate = v.channels[t].rate
  BY <1>1
<1>4. x = [u EXCEPT !.mslots = [u.mslots EXCEPT ![i] = slot],
                    !.channels = [u.channels EXCEPT ![t] = chan],
                    !.pool = audio_pool_ref(u.pool, loop),
                    !.fmvSync = u.fmvSync \/ kind = "fmv"]
  BY <1>2, <1>3 DEF StartMusic
<1>5. x = [pool |-> q, tracks |-> v.tracks, tgens |-> v.tgens,
           channels |-> [v.channels EXCEPT ![t] = chan],
           mslots |-> [v.mslots EXCEPT ![i] = slot], fmvSync |-> v.fmvSync \/ kind = "fmv"]
  BY <1>1, <1>2, <1>4
<1>6. Claim(x, t, obj, "music", o) = [x EXCEPT !.tracks = [x.tracks EXCEPT ![t] = rec]]
  BY DEF Claim
<1>7. Claim(x, t, obj, "music", o)
          = [pool |-> q, tracks |-> [v.tracks EXCEPT ![t] = rec], tgens |-> v.tgens,
             channels |-> [v.channels EXCEPT ![t] = chan],
             mslots |-> [v.mslots EXCEPT ![i] = slot], fmvSync |-> v.fmvSync \/ kind = "fmv"]
  <2>1. x.tracks = v.tracks
    BY <1>5
  <2>2. Claim(x, t, obj, "music", o) = [x EXCEPT !.tracks = [v.tracks EXCEPT ![t] = rec]]
    BY <1>6, <2>1
  <2> QED
    BY <1>5, <2>2
<1> QED
  BY <1>2, <1>7 DEF Played

LEMMA ShapeOfState == ServiceInv => Shape(VoiceState)
  BY DEF VoiceState, Shape

\* The hand when a voice is set on a track, and nothing else.
LEMMA VoiceHand ==
    ASSUME NEW v, NEW w, v \in VoiceType, w \in VoiceType, NEW m, MusicObjsOK(m), NEW t \in Track,
           \A u \in Track : u # t => w.tracks[u] = v.tracks[u], w.mslots = v.mslots,
           NEW k, k = <<"voice", t>>
    PROVE  Hand(w, m) = [Hand(v, m) EXCEPT ![k] = w.tracks[t].object]
<1>1. PICK h, g, h1 : h = Hand(v, m) /\ g = Hand(w, m) /\ h1 = [h EXCEPT ![k] = w.tracks[t].object]
  OBVIOUS
<1>2. /\ h \in [Holder -> Handles]
      /\ \A u \in Track : h[<<"voice", u>>] = v.tracks[u].object
      /\ \A j \in MusicObjSlot : h[<<"intro", j>>] = m[j].intro /\ h[<<"loop", j>>] = m[j].loop
      /\ \A j \in MusicSlot : h[<<"player", j>>] = v.mslots[j].loop
  BY <1>1, HandFacts
<1>3. /\ g \in [Holder -> Handles]
      /\ \A u \in Track : g[<<"voice", u>>] = w.tracks[u].object
      /\ \A j \in MusicObjSlot : g[<<"intro", j>>] = m[j].intro /\ g[<<"loop", j>>] = m[j].loop
      /\ \A j \in MusicSlot : g[<<"player", j>>] = w.mslots[j].loop
  BY <1>1, HandFacts
<1>4. k \in Holder /\ w.tracks[t].object \in Handles
  BY HolderFacts DEF VoiceType, TrackType
<1>5. /\ h1 \in [Holder -> Handles] /\ h1[k] = w.tracks[t].object
      /\ \A j \in Holder : j # k => h1[j] = h[j]
  BY <1>1, <1>2, <1>4
<1>6. ASSUME NEW u \in Track PROVE g[<<"voice", u>>] = h1[<<"voice", u>>]
  <2>1. CASE u = t
    BY <1>3, <1>5, <2>1
  <2>2. CASE u # t
    <3>1. <<"voice", u>> \in Holder /\ <<"voice", u>> # k /\ w.tracks[u] = v.tracks[u]
      BY <2>2, HolderFacts
    <3> QED
      BY <1>2, <1>3, <1>5, <3>1
  <2> QED
    BY <2>1, <2>2
<1>7. ASSUME NEW j \in MusicSlot PROVE g[<<"player", j>>] = h1[<<"player", j>>]
  <2>1. <<"player", j>> \in Holder /\ <<"player", j>> # k
    BY HolderFacts
  <2> QED
    BY <1>2, <1>3, <1>5, <2>1
<1>8. ASSUME NEW j \in MusicObjSlot
      PROVE  g[<<"intro", j>>] = h1[<<"intro", j>>] /\ g[<<"loop", j>>] = h1[<<"loop", j>>]
  <2>1. /\ <<"intro", j>> \in Holder /\ <<"intro", j>> # k
        /\ <<"loop", j>> \in Holder /\ <<"loop", j>> # k
    BY HolderFacts
  <2> QED
    BY <1>2, <1>3, <1>5, <2>1
<1>9. g = h1
  BY <1>3, <1>5, <1>6, <1>7, <1>8, SameHand
<1> QED
  BY <1>1, <1>9

\* The hand when a player slot is set, and nothing else.
LEMMA PlayerHand ==
    ASSUME NEW v, NEW w, v \in VoiceType, w \in VoiceType, NEW m, MusicObjsOK(m), NEW i \in MusicSlot,
           \A j \in MusicSlot : j # i => w.mslots[j] = v.mslots[j], w.tracks = v.tracks,
           NEW k, k = <<"player", i>>
    PROVE  Hand(w, m) = [Hand(v, m) EXCEPT ![k] = w.mslots[i].loop]
<1>1. PICK h, g, h1 : h = Hand(v, m) /\ g = Hand(w, m) /\ h1 = [h EXCEPT ![k] = w.mslots[i].loop]
  OBVIOUS
<1>2. /\ h \in [Holder -> Handles]
      /\ \A u \in Track : h[<<"voice", u>>] = v.tracks[u].object
      /\ \A j \in MusicObjSlot : h[<<"intro", j>>] = m[j].intro /\ h[<<"loop", j>>] = m[j].loop
      /\ \A j \in MusicSlot : h[<<"player", j>>] = v.mslots[j].loop
  BY <1>1, HandFacts
<1>3. /\ g \in [Holder -> Handles]
      /\ \A u \in Track : g[<<"voice", u>>] = w.tracks[u].object
      /\ \A j \in MusicObjSlot : g[<<"intro", j>>] = m[j].intro /\ g[<<"loop", j>>] = m[j].loop
      /\ \A j \in MusicSlot : g[<<"player", j>>] = w.mslots[j].loop
  BY <1>1, HandFacts
<1>4. k \in Holder /\ w.mslots[i].loop \in Handles
  BY HolderFacts DEF VoiceType, MusicSlotType
<1>5. /\ h1 \in [Holder -> Handles] /\ h1[k] = w.mslots[i].loop
      /\ \A j \in Holder : j # k => h1[j] = h[j]
  BY <1>1, <1>2, <1>4
<1>6. ASSUME NEW j \in MusicSlot PROVE g[<<"player", j>>] = h1[<<"player", j>>]
  <2>1. CASE j = i
    BY <1>3, <1>5, <2>1
  <2>2. CASE j # i
    <3>1. <<"player", j>> \in Holder /\ <<"player", j>> # k /\ w.mslots[j] = v.mslots[j]
      BY <2>2, HolderFacts
    <3> QED
      BY <1>2, <1>3, <1>5, <3>1
  <2> QED
    BY <2>1, <2>2
<1>7. ASSUME NEW u \in Track PROVE g[<<"voice", u>>] = h1[<<"voice", u>>]
  <2>1. <<"voice", u>> \in Holder /\ <<"voice", u>> # k
    BY HolderFacts
  <2> QED
    BY <1>2, <1>3, <1>5, <2>1
<1>8. ASSUME NEW j \in MusicObjSlot
      PROVE  g[<<"intro", j>>] = h1[<<"intro", j>>] /\ g[<<"loop", j>>] = h1[<<"loop", j>>]
  <2>1. /\ <<"intro", j>> \in Holder /\ <<"intro", j>> # k
        /\ <<"loop", j>> \in Holder /\ <<"loop", j>> # k
    BY HolderFacts
  <2> QED
    BY <1>2, <1>3, <1>5, <2>1
<1>9. g = h1
  BY <1>3, <1>5, <1>6, <1>7, <1>8, SameHand
<1> QED
  BY <1>1, <1>9

\* A free track takes a voice with what it holds; nothing streams.
LEMMA ClaimKept ==
    ASSUME NEW v, VoiceOK(v), NEW m, MusicObjsOK(m), NEW cr, NEW keep \in BOOLEAN,
           keep => Kept(v, m, cr), NEW t \in Track, ~v.tracks[t].active,
           NEW rec \in TrackType, rec.active = TRUE, NEW chan \in ChannelType, chan.active = TRUE,
           rec.object # NoObject => resolve(v.pool, rec.object),
           NEW p, p = audio_pool_ref(v.pool, rec.object),
           NEW w, w = Claimed(v, t, rec, chan, p)
    PROVE  VoiceOK(w) /\ (keep => Kept(w, m, cr))
<1>1. /\ v \in VoiceType /\ PoolOK(v.pool) /\ v.tracks \in [Track -> TrackType]
      /\ v.tracks[t].object = NoObject /\ rec.object \in Handles
  BY IdleTypes DEF VoiceOK, VoiceType, Cleared, TrackType
<1>2. PoolOK(p)
  BY <1>1, RefPool
<1>3. VoiceOK(w) /\ w \in VoiceType
  <2>1. VoiceOK(w)
    BY <1>2, ClaimVoice
  <2> QED
    BY <2>1 DEF VoiceOK
<1>4. /\ w.tracks[t] = rec /\ w.mslots = v.mslots /\ w.pool = p
      /\ \A u \in Track : u # t => w.tracks[u] = v.tracks[u]
  BY <1>1 DEF Claimed
<1>5. ASSUME keep PROVE Kept(w, m, cr)
  <2>1. PICK h, k, o : h = Hand(v, m) /\ k = <<"voice", t>> /\ o = rec.object
    OBVIOUS
  <2>2. Accounted(v.pool, cr, h)
    BY <1>5, <2>1 DEF Kept
  <2>3. k \in Holder /\ h[k] = NoObject
    BY <1>1, <2>1, HolderFacts, HandFacts
  <2>4. Accounted(p, cr, [h EXCEPT ![k] = o])
    <3>1. o \in Handles /\ (o # NoObject => resolve(v.pool, o)) /\ p = audio_pool_ref(v.pool, o)
      BY <1>1, <2>1
    <3> QED
      BY <1>1, <2>2, <2>3, <3>1, TakeOne
  <2>5. Hand(w, m) = [h EXCEPT ![k] = o]
    <3>1. Hand(w, m) = [Hand(v, m) EXCEPT ![k] = w.tracks[t].object]
      BY <1>1, <1>3, <1>4, <2>1, VoiceHand
    <3> QED
      BY <1>4, <2>1, <3>1
  <2> QED
    BY <1>4, <2>4, <2>5 DEF Kept
<1> QED
  BY <1>3, <1>5

\* A free track and a free player take a voice: the track holds what is played
\* first, the player what it streams.
LEMMA PlayKept ==
    ASSUME NEW v, VoiceOK(v), NEW m, MusicObjsOK(m), NEW cr, NEW keep \in BOOLEAN,
           keep => Kept(v, m, cr), NEW t \in Track, ~v.tracks[t].active,
           NEW i \in MusicSlot, ~v.mslots[i].in_use,
           NEW rec \in TrackType, rec.active = TRUE, rec.kind = "music",
           NEW chan \in ChannelType, chan.active = TRUE,
           NEW slot \in MusicSlotType, slot.in_use = TRUE, slot.track = t, NEW kind, kind = slot.kind,
           kind = "fmv" => \A j \in MusicSlot : v.mslots[j].kind # "fmv",
           rec.object # NoObject => resolve(v.pool, rec.object),
           slot.loop # NoObject => resolve(v.pool, slot.loop),
           NEW p, p = audio_pool_ref(v.pool, rec.object),
           NEW q, q = audio_pool_ref(p, slot.loop),
           NEW w, w = Played(v, t, i, rec, chan, slot, q)
    PROVE  VoiceOK(w) /\ (keep => Kept(w, m, cr))
<1>1. /\ v \in VoiceType /\ PoolOK(v.pool) /\ v.tracks \in [Track -> TrackType]
      /\ v.mslots \in [MusicSlot -> MusicSlotType]
      /\ v.tracks[t].object = NoObject /\ v.mslots[i].loop = NoObject
      /\ rec.object \in Handles /\ slot.loop \in Handles
  BY IdleTypes DEF VoiceOK, VoiceType, Cleared, TrackType, MusicSlotType
<1>2. PoolOK(p) /\ PoolOK(q)
  <2>1. PoolOK(p)
    BY <1>1, RefPool
  <2> QED
    BY <1>1, <2>1, RefPool
<1>3. VoiceOK(w) /\ w \in VoiceType
  <2>1. VoiceOK(w)
    BY <1>2, ClaimPlayer
  <2> QED
    BY <2>1 DEF VoiceOK
\* In between, the track is set and the player is not.
<1>4. PICK x : x = Claimed(v, t, rec, chan, p)
  OBVIOUS
<1>5. VoiceOK(x) /\ (keep => Kept(x, m, cr)) /\ x \in VoiceType
  <2>1. VoiceOK(x) /\ (keep => Kept(x, m, cr))
    BY <1>4, ClaimKept
  <2> QED
    BY <2>1 DEF VoiceOK
<1>6. /\ x.mslots = v.mslots /\ x.pool = p /\ w.tracks = x.tracks /\ w.mslots[i] = slot /\ w.pool = q
      /\ \A j \in MusicSlot : j # i => w.mslots[j] = x.mslots[j]
  BY <1>1, <1>4 DEF Claimed, Played
<1>7. ASSUME keep PROVE Kept(w, m, cr)
  <2>1. PICK h, k, o : h = Hand(x, m) /\ k = <<"player", i>> /\ o = slot.loop
    OBVIOUS
  <2>2. Accounted(p, cr, h)
    BY <1>5, <1>6, <1>7, <2>1 DEF Kept
  <2>3. k \in Holder /\ h[k] = NoObject
    BY <1>1, <1>5, <1>6, <2>1, HolderFacts, HandFacts
  <2>4. o # NoObject => resolve(p, o)
    <3> SUFFICES ASSUME o # NoObject PROVE resolve(p, o)
      OBVIOUS
    <3>1. resolve(v.pool, o) /\ o \in Handles
      BY <1>1, <2>1
    <3>2. PICK y, k1, a : y = Hand(v, m) /\ k1 = <<"voice", t>> /\ a = rec.object
      OBVIOUS
    <3>3. Accounted(v.pool, cr, y)
      BY <1>7, <3>2 DEF Kept
    <3>4. k1 \in Holder /\ y[k1] = NoObject
      BY <1>1, <3>2, HolderFacts, HandFacts
    <3>5. a \in Handles /\ (a # NoObject => resolve(v.pool, a)) /\ p = audio_pool_ref(v.pool, a)
      BY <1>1, <3>2
    <3>6. \A g \in Handles : resolve(v.pool, g) => resolve(p, g)
      BY <1>1, <3>3, <3>4, <3>5, TakeOne
    <3> QED
      BY <3>1, <3>6
  <2>5. Accounted(q, cr, [h EXCEPT ![k] = o])
    <3>1. o \in Handles /\ q = audio_pool_ref(p, o)
      BY <1>1, <2>1
    <3> QED
      BY <1>2, <2>2, <2>3, <2>4, <3>1, TakeOne
  <2>6. Hand(w, m) = [h EXCEPT ![k] = o]
    <3>1. Hand(w, m) = [Hand(x, m) EXCEPT ![k] = w.mslots[i].loop]
      BY <1>3, <1>5, <1>6, <2>1, PlayerHand
    <3> QED
      BY <1>6, <2>1, <3>1
  <2> QED
    BY <1>6, <2>5, <2>6 DEF Kept
<1> QED
  BY <1>3, <1>7

LEMMA FreeTrack ==
    ASSUME find_free_track # {}, NEW t, t = Min(find_free_track)
    PROVE  t \in Track /\ ~VoiceState.tracks[t].active
<1>1. find_free_track \in SUBSET Nat
  BY DEF find_free_track, Track
<1>2. t \in find_free_track
  BY <1>1, LeastIsMin
<1> QED
  BY <1>2, StateFields DEF find_free_track

LEMMA FreePlayer ==
    ASSUME find_free_music_slot # {}, NEW i, i = Min(find_free_music_slot)
    PROVE  i \in MusicSlot /\ ~VoiceState.mslots[i].in_use
<1>1. find_free_music_slot \in SUBSET Nat
  BY DEF find_free_music_slot, MusicSlot
<1>2. i \in find_free_music_slot
  BY <1>1, LeastIsMin
<1> QED
  BY <1>2, StateFields DEF find_free_music_slot

LEMMA TriggerInv == ASSUME ServiceInv, TriggerSfx PROVE ServiceInv'
<1>1. PICK h \in ObjHandle, o \in Owner :
        LET t == Min(find_free_track)
            v == [VoiceState EXCEPT !.pool = audio_pool_ref(@, h)]
        IN  /\ resolve(pool, h)
            /\ find_free_track # {}
            /\ IF audio_pool_object_size(pool, h) = 0
               THEN pool' = TriggerSfxDeclined(h) /\ UNCHANGED voicevars
               ELSE SetVoiceState(Claim(StartSfx(v, t, h), t, h, "sfx", o))
            /\ UNCHANGED <<mobjs, mgens, created, clean>>
  BY DEF TriggerSfx
<1>2. PICK v, t, p, u : /\ v = VoiceState /\ t = Min(find_free_track) /\ p = audio_pool_ref(pool, h)
                        /\ u = [v EXCEPT !.pool = p]
  OBVIOUS
<1>3. /\ VoiceOK(v) /\ PoolOK(pool) /\ v.pool = pool /\ MusicObjsOK(mobjs)
      /\ clean \in BOOLEAN /\ v \in VoiceType /\ Shape(v)
      /\ clean => Kept(v, mobjs, created)
  BY <1>2, StateFields, ShapeOfState DEF ServiceInv, VoiceOK
<1>4. resolve(pool, h) /\ find_free_track # {} /\ UNCHANGED <<mobjs, mgens, created, clean>>
  BY <1>1
<1>5. t \in Track /\ ~v.tracks[t].active
  BY <1>2, <1>4, FreeTrack
<1>6. h \in Handles
  BY DEF Handles
<1>7. PoolOK(p)
  BY <1>2, <1>3, <1>6, RefPool
<1>8. CASE audio_pool_object_size(pool, h) = 0
  <2>1. pool' = audio_pool_unref(p, h) /\ UNCHANGED voicevars
    BY <1>1, <1>2, <1>8 DEF TriggerSfxDeclined
  <2>2. PICK q, w : /\ q = audio_pool_unref(p, h)
                    /\ w = [pool |-> q, tracks |-> v.tracks, tgens |-> v.tgens,
                            channels |-> v.channels, mslots |-> v.mslots, fmvSync |-> v.fmvSync]
    OBVIOUS
  <2>3. VoiceOK(w)
    <3>1. PoolOK(q)
      BY <1>6, <1>7, <2>2, UnrefPool
    <3> QED
      BY <1>3, <2>2, <3>1, PoolVoice
  <2>4. SetVoiceState(w)
    BY <1>2, <2>1, <2>2, StateFields DEF SetVoiceState, voicevars
  <2>5. ASSUME clean PROVE Kept(w, mobjs, created)
    \* The rolled back reference, as if the track had held it for a moment.
    <3>1. PICK y, k, y1, y2 : /\ y = Hand(v, mobjs) /\ k = <<"voice", t>>
                              /\ y1 = [y EXCEPT ![k] = h] /\ y2 = [y1 EXCEPT ![k] = NoObject]
      OBVIOUS
    <3>2. k \in Holder /\ y[k] = NoObject /\ y \in [Holder -> Handles]
      <4>1. v.tracks[t].object = NoObject
        BY <1>3, <1>5, IdleTypes DEF VoiceOK, Cleared
      <4> QED
        BY <1>3, <1>5, <3>1, <4>1, HolderFacts, HandFacts
    <3>3. Accounted(pool, created, y)
      BY <1>3, <2>5, <3>1 DEF Kept
    <3>4. Accounted(p, created, y1)
      <4>1. Accounted(p, created, [y EXCEPT ![k] = h])
        BY <1>2, <1>3, <1>4, <1>6, <3>2, <3>3, TakeOne
      <4> QED
        BY <3>1, <4>1
    <3>5. y1[k] = h
      BY <3>1, <3>2
    <3>6. Accounted(q, created, y2)
      <4>1. q = audio_pool_unref(p, y1[k])
        BY <2>2, <3>5
      <4>2. Accounted(q, created, [y1 EXCEPT ![k] = NoObject])
        BY <1>7, <3>2, <3>4, <4>1, GiveBack
      <4> QED
        BY <3>1, <4>2
    <3>7. y2 = y
      BY <3>1, <3>2
    <3>8. Hand(w, mobjs) = y /\ w.pool = q
      BY <2>2, <3>1, SameTracksSameHand
    <3> QED
      BY <3>6, <3>7, <3>8 DEF Kept
  <2>6. After(w, mobjs', clean', created')
    BY <1>3, <1>4, <2>3, <2>5 DEF After
  <2> QED
    BY <2>4, <2>6, AfterInv
<1>9. CASE audio_pool_object_size(pool, h) # 0
  <2>1. PICK rec, n, rate :
          /\ rec = [active |-> TRUE, object |-> h, kind |-> "sfx", owner |-> o]
          /\ n = Min({Copied(p, h, 0, audio_pool_object_size(p, h)), ChannelFrames})
          /\ rate = audio_pool_object_sample_rate(p, h)
    OBVIOUS
  <2>2. PICK chan : chan = [active |-> TRUE, frames |-> n, rate |-> rate]
    OBVIOUS
  <2>3. rec \in TrackType /\ rec.active = TRUE /\ rec.object = h
    BY <1>6, <2>1 DEF TrackType, Owners
  <2>4. chan \in ChannelType /\ chan.active = TRUE
    <3>1. rate \in Rates \cup {0} /\ Copied(p, h, 0, audio_pool_object_size(p, h)) \in Int
      BY <1>7, <2>1, SampleFacts
    <3>2. n \in Int
      BY <2>1, <3>1, MinOfTwo, ServiceAssumption
    <3> QED
      BY <2>2, <3>1, <3>2 DEF ChannelType
  <2>5. PICK w : w = Claimed(v, t, rec, chan, p)
    OBVIOUS
  <2>6. SetVoiceState(w)
    <3>1. SetVoiceState(Claim(StartSfx(u, t, h), t, h, "sfx", o))
      <4>1. u = [VoiceState EXCEPT !.pool = audio_pool_ref(@, h)]
        BY <1>2, StateFields
      <4> QED
        BY <1>1, <1>2, <1>9, <4>1
    <3>2. Claim(StartSfx(u, t, h), t, h, "sfx", o) = w
      BY <1>2, <1>3, <2>1, <2>2, <2>5, SfxUnfolds
    <3> QED
      BY <3>1, <3>2
  <2>7. VoiceOK(w) /\ (clean => Kept(w, mobjs, created))
    <3>1. p = audio_pool_ref(v.pool, rec.object) /\ resolve(v.pool, rec.object)
      BY <1>2, <1>3, <1>4, <2>3
    <3> QED
      BY <1>3, <1>5, <2>3, <2>4, <2>5, <3>1, ClaimKept
  <2>8. After(w, mobjs', clean', created')
    BY <1>3, <1>4, <2>7 DEF After
  <2> QED
    BY <2>6, <2>8, AfterInv
<1> QED
  BY <1>8, <1>9

LEMMA PlayMusicInv == ASSUME ServiceInv, PlayMusic PROVE ServiceInv'
<1>1. PICK g \in MusicHandle, o \in Streamers :
        LET mo == mobjs[g[1]]
            t == Min(find_free_track)
            v == [VoiceState EXCEPT !.pool = audio_pool_ref(@, mo.intro)]
        IN  /\ mo.loop = NoObject \/ resolve(pool, mo.loop)
            /\ resolve(pool, mo.intro)
            /\ find_free_track # {} /\ find_free_music_slot # {}
            /\ SetVoiceState(Claim(StartMusic(v, t, Min(find_free_music_slot), "pool", mo.loop),
                                   t, mo.intro, "music", o))
            /\ UNCHANGED <<mobjs, mgens, created, clean>>
  BY DEF PlayMusic
<1>2. PICK v, t, i, intro, loop :
        /\ v = VoiceState /\ t = Min(find_free_track) /\ i = Min(find_free_music_slot)
        /\ intro = mobjs[g[1]].intro /\ loop = mobjs[g[1]].loop
  OBVIOUS
<1>3. PICK p, q, u : p = audio_pool_ref(pool, intro) /\ q = audio_pool_ref(p, loop) /\ u = [v EXCEPT !.pool = p]
  OBVIOUS
<1>4. /\ VoiceOK(v) /\ PoolOK(pool) /\ v.pool = pool /\ MusicObjsOK(mobjs)
      /\ clean \in BOOLEAN /\ v \in VoiceType /\ Shape(v)
      /\ clean => Kept(v, mobjs, created)
  BY <1>2, StateFields, ShapeOfState DEF ServiceInv, VoiceOK
<1>5. /\ loop # NoObject => resolve(pool, loop)
      /\ resolve(pool, intro) /\ find_free_track # {} /\ find_free_music_slot # {}
      /\ UNCHANGED <<mobjs, mgens, created, clean>>
  BY <1>1, <1>2
<1>6. t \in Track /\ ~v.tracks[t].active /\ i \in MusicSlot /\ ~v.mslots[i].in_use
  BY <1>2, <1>5, FreeTrack, FreePlayer
<1>7. intro \in Handles /\ loop \in Handles
  BY <1>2, <1>4 DEF MusicHandle, MusicObjsOK, MusicObjType
<1>8. PICK rec, chan, slot :
        /\ rec = [active |-> TRUE, object |-> intro, kind |-> "music", owner |-> o]
        /\ chan = [active |-> TRUE, frames |-> 0, rate |-> v.channels[t].rate]
        /\ slot = [in_use |-> TRUE, track |-> t, kind |-> "pool", loop |-> loop]
  OBVIOUS
<1>9. rec \in TrackType /\ rec.active = TRUE /\ rec.object = intro /\ rec.kind = "music"
  BY <1>7, <1>8 DEF TrackType, Owners
<1>10. chan \in ChannelType /\ chan.active = TRUE
  <2>1. v.channels[t].rate \in Rates \cup {0}
    BY <1>4, <1>6 DEF VoiceType, ChannelType
  <2> QED
    BY <1>8, <2>1 DEF ChannelType
<1>11. /\ slot \in MusicSlotType /\ slot.in_use = TRUE /\ slot.track = t /\ slot.kind = "pool"
       /\ slot.loop = loop
  BY <1>6, <1>7, <1>8, ServiceAssumption DEF MusicSlotType, Track
<1>12. PICK w : w = Played(v, t, i, rec, chan, slot, q)
  OBVIOUS
<1>13. SetVoiceState(w)
  <2>1. SetVoiceState(Claim(StartMusic(u, t, i, "pool", loop), t, intro, "music", o))
    <3>1. u = [VoiceState EXCEPT !.pool = audio_pool_ref(@, intro)]
      BY <1>2, <1>3, StateFields
    <3> QED
      BY <1>1, <1>2, <3>1
  <2>2. Claim(StartMusic(u, t, i, "pool", loop), t, intro, "music", o) = w
    BY <1>3, <1>4, <1>8, <1>12, MusicUnfolds
  <2> QED
    BY <2>1, <2>2
<1>14. VoiceOK(w) /\ (clean => Kept(w, mobjs, created))
  <2>1. /\ p = audio_pool_ref(v.pool, rec.object) /\ resolve(v.pool, rec.object)
        /\ slot.loop # NoObject => resolve(v.pool, slot.loop)
        /\ q = audio_pool_ref(p, slot.loop) /\ slot.kind # "fmv"
    BY <1>3, <1>4, <1>5, <1>9, <1>11
  <2> QED
    BY <1>4, <1>6, <1>9, <1>10, <1>11, <1>12, <2>1, PlayKept
<1>15. After(w, mobjs', clean', created')
  BY <1>4, <1>5, <1>14 DEF After
<1> QED
  BY <1>13, <1>15, AfterInv

LEMMA ExternalInv ==
    ASSUME ServiceInv, NEW kind \in {"file", "fmv"}, NEW o \in Owners, PlayExternal(kind, o),
           kind = "fmv" => \A j \in MusicSlot : mslots[j].kind # "fmv"
    PROVE  ServiceInv'
<1>1. /\ find_free_track # {} /\ find_free_music_slot # {}
      /\ SetVoiceState(Claim(StartMusic(VoiceState, Min(find_free_track), Min(find_free_music_slot),
                                        kind, NoObject),
                             Min(find_free_track), NoObject, "music", o))
      /\ UNCHANGED <<mobjs, mgens, created, clean>>
  BY DEF PlayExternal
<1>2. PICK v, t, i : v = VoiceState /\ t = Min(find_free_track) /\ i = Min(find_free_music_slot)
  OBVIOUS
<1>3. PICK p, u : p = pool /\ u = [v EXCEPT !.pool = p]
  OBVIOUS
<1>4. /\ VoiceOK(v) /\ v.pool = pool /\ MusicObjsOK(mobjs) /\ v.mslots = mslots
      /\ clean \in BOOLEAN /\ v \in VoiceType /\ Shape(v)
      /\ clean => Kept(v, mobjs, created)
  BY <1>2, StateFields, ShapeOfState DEF ServiceInv, VoiceOK
<1>5. u = v
  BY <1>3, <1>4 DEF Shape
<1>6. t \in Track /\ ~v.tracks[t].active /\ i \in MusicSlot /\ ~v.mslots[i].in_use
  BY <1>1, <1>2, FreeTrack, FreePlayer
<1>7. PICK rec, chan, slot :
        /\ rec = [active |-> TRUE, object |-> NoObject, kind |-> "music", owner |-> o]
        /\ chan = [active |-> TRUE, frames |-> 0, rate |-> v.channels[t].rate]
        /\ slot = [in_use |-> TRUE, track |-> t, kind |-> kind, loop |-> NoObject]
  OBVIOUS
<1>8. rec \in TrackType /\ rec.active = TRUE /\ rec.object = NoObject /\ rec.kind = "music"
  BY <1>7, NoObjectFacts DEF TrackType
<1>9. chan \in ChannelType /\ chan.active = TRUE
  <2>1. v.channels[t].rate \in Rates \cup {0}
    BY <1>4, <1>6 DEF VoiceType, ChannelType
  <2> QED
    BY <1>7, <2>1 DEF ChannelType
<1>10. /\ slot \in MusicSlotType /\ slot.in_use = TRUE /\ slot.track = t /\ slot.kind = kind
       /\ slot.loop = NoObject
  BY <1>6, <1>7, NoObjectFacts, ServiceAssumption DEF MusicSlotType, Track
<1>11. PICK q, w : q = audio_pool_ref(p, NoObject) /\ w = Played(v, t, i, rec, chan, slot, q)
  OBVIOUS
<1>12. SetVoiceState(w)
  <2>1. SetVoiceState(Claim(StartMusic(u, t, i, kind, NoObject), t, NoObject, "music", o))
    BY <1>1, <1>2, <1>5
  <2>2. Claim(StartMusic(u, t, i, kind, NoObject), t, NoObject, "music", o) = w
    BY <1>3, <1>4, <1>7, <1>11, MusicUnfolds
  <2> QED
    BY <2>1, <2>2
<1>13. VoiceOK(w) /\ (clean => Kept(w, mobjs, created))
  <2>1. /\ p = audio_pool_ref(v.pool, rec.object) /\ q = audio_pool_ref(p, slot.loop)
        /\ rec.object = NoObject /\ slot.loop = NoObject
        /\ kind = "fmv" => \A j \in MusicSlot : v.mslots[j].kind # "fmv"
    BY <1>3, <1>4, <1>8, <1>10, <1>11, NoObjectFacts
  <2> QED
    BY <1>4, <1>6, <1>8, <1>9, <1>10, <1>11, <2>1, PlayKept
<1>14. After(w, mobjs', clean', created')
  BY <1>1, <1>4, <1>13 DEF After
<1> QED
  BY <1>12, <1>14, AfterInv

LEMMA PcmOpenInv == ASSUME ServiceInv, PcmOpen PROVE ServiceInv'
<1>1. PICK o \in Streamers, rate \in Rates :
        /\ find_free_track # {}
        /\ SetVoiceState(Claim(StartPcm(VoiceState, Min(find_free_track), rate),
                               Min(find_free_track), NoObject, "music", o))
        /\ UNCHANGED <<mobjs, mgens, created, clean>>
  BY DEF PcmOpen
<1>2. PICK v, t : v = VoiceState /\ t = Min(find_free_track)
  OBVIOUS
<1>3. /\ VoiceOK(v) /\ v.pool = pool /\ MusicObjsOK(mobjs)
      /\ clean \in BOOLEAN /\ Shape(v)
      /\ clean => Kept(v, mobjs, created)
  BY <1>2, StateFields, ShapeOfState DEF ServiceInv
<1>4. t \in Track /\ ~v.tracks[t].active
  BY <1>1, <1>2, FreeTrack
<1>5. PICK rec, chan :
        /\ rec = [active |-> TRUE, object |-> NoObject, kind |-> "music", owner |-> o]
        /\ chan = [active |-> TRUE, frames |-> 0, rate |-> rate]
  OBVIOUS
<1>6. rec \in TrackType /\ rec.active = TRUE /\ rec.object = NoObject
  BY <1>5, NoObjectFacts DEF TrackType, Owners
<1>7. chan \in ChannelType /\ chan.active = TRUE
  BY <1>5 DEF ChannelType
<1>8. PICK w : w = Claimed(v, t, rec, chan, v.pool)
  OBVIOUS
<1>9. SetVoiceState(w)
  <2>1. Claim(StartPcm(v, t, rate), t, NoObject, "music", o) = w
    BY <1>3, <1>5, <1>8, PcmUnfolds
  <2> QED
    BY <1>1, <1>2, <2>1
<1>10. VoiceOK(w) /\ (clean => Kept(w, mobjs, created))
  <2>1. v.pool = audio_pool_ref(v.pool, rec.object)
    BY <1>6, NoObjectFacts
  <2> QED
    BY <1>3, <1>4, <1>6, <1>7, <1>8, <2>1, ClaimKept
<1>11. After(w, mobjs', clean', created')
  BY <1>1, <1>3, <1>10 DEF After
<1> QED
  BY <1>9, <1>11, AfterInv

\* Steps of which only the mixer channels know: fed and rendered frames.
LEMMA ChannelStep ==
    ASSUME ServiceInv, NEW c, channels' = c, c \in [Track -> ChannelType],
           \A t \in Track : c[t].active = channels[t].active,
           UNCHANGED <<pool, tracks, tgens, mslots, fmvSync, mobjs, mgens, created, clean>>
    PROVE  ServiceInv'
<1>1. PICK v, w : /\ v = VoiceState
                  /\ w = [pool |-> v.pool, tracks |-> v.tracks, tgens |-> v.tgens,
                          channels |-> c, mslots |-> v.mslots, fmvSync |-> v.fmvSync]
  OBVIOUS
<1>2. /\ VoiceOK(v) /\ MusicObjsOK(mobjs) /\ clean \in BOOLEAN
      /\ clean => Kept(v, mobjs, created)
      /\ v.channels = channels
  BY <1>1, StateFields DEF ServiceInv
<1>3. VoiceOK(w)
  BY <1>1, <1>2, ChannelVoice
<1>4. Kept(w, mobjs, created) <=> Kept(v, mobjs, created)
  <2>1. Hand(w, mobjs) = Hand(v, mobjs) /\ w.pool = v.pool
    BY <1>1, SameTracksSameHand
  <2> QED
    BY <2>1 DEF Kept
<1>5. SetVoiceState(w)
  BY <1>1, StateFields DEF SetVoiceState
<1>6. After(w, mobjs', clean', created')
  BY <1>2, <1>3, <1>4 DEF After
<1> QED
  BY <1>5, <1>6, AfterInv

LEMMA ChannelsTyped == ServiceInv => channels \in [Track -> ChannelType]
  BY StateFields DEF ServiceInv, VoiceOK, VoiceType

\* A channel with another number of frames.
LEMMA WithFrames ==
    ASSUME NEW c \in ChannelType, NEW n \in Int
    PROVE  [c EXCEPT !.frames = n] \in ChannelType /\ [c EXCEPT !.frames = n].active = c.active
  BY DEF ChannelType

LEMMA PcmFeedInv == ASSUME ServiceInv, PcmFeed PROVE ServiceInv'
<1>1. PICK h \in Voice, n \in Sizes :
        /\ channels' = [channels EXCEPT ![h[1]] =
                          FillChannel(@, Min({n, ChannelFrames - @.frames}))]
        /\ UNCHANGED <<pool, tracks, tgens, mslots, fmvSync, mobjs, mgens, created, clean>>
  BY DEF PcmFeed
<1>2. channels \in [Track -> ChannelType] /\ h[1] \in Track
  BY ChannelsTyped DEF Voice
<1>3. PICK old : old = channels[h[1]]
  OBVIOUS
<1>4. old \in ChannelType /\ old.frames \in Int
  BY <1>2, <1>3 DEF ChannelType
<1>5. PICK m \in Int : m = Min({n, ChannelFrames - old.frames})
  BY <1>4, MinOfTwo, ServiceAssumption
<1>6. PICK k \in Int : k = Min({old.frames + m, ChannelFrames})
  BY <1>4, MinOfTwo, ServiceAssumption
<1>7. PICK new : new = [old EXCEPT !.frames = k]
  OBVIOUS
<1>8. new \in ChannelType /\ new.active = old.active
  BY <1>4, <1>7, WithFrames
<1>9. PICK c : c = [channels EXCEPT ![h[1]] = new]
  OBVIOUS
<1>10. channels' = c
  BY <1>1, <1>3, <1>5, <1>6, <1>7, <1>9 DEF FillChannel
<1>11. c \in [Track -> ChannelType] /\ \A t \in Track : c[t] = IF t = h[1] THEN new ELSE channels[t]
  BY <1>2, <1>8, <1>9
<1>12. \A t \in Track : c[t].active = channels[t].active
  <2> SUFFICES ASSUME NEW t \in Track PROVE c[t].active = channels[t].active
    OBVIOUS
  <2>1. CASE t = h[1]
    BY <1>3, <1>8, <1>11, <2>1
  <2>2. CASE t # h[1]
    BY <1>11, <2>2
  <2> QED
    BY <2>1, <2>2
<1> QED
  BY <1>1, <1>10, <1>11, <1>12, ChannelStep

LEMMA RenderInv == ASSUME ServiceInv, Render PROVE ServiceInv'
<1>1. PICK c : c = [t \in Track |-> IF channels[t].active /\ channels[t].frames > 0
                                    THEN [channels[t] EXCEPT !.frames = @ - 1]
                                    ELSE channels[t]]
  OBVIOUS
<1>2. /\ channels' = c
      /\ UNCHANGED <<pool, tracks, tgens, mslots, fmvSync, mobjs, mgens, created, clean>>
  BY <1>1 DEF Render
<1>3. ASSUME NEW t \in Track
      PROVE  c[t] \in ChannelType /\ c[t].active = channels[t].active
  <2>1. PICK old : old = channels[t]
    OBVIOUS
  <2>2. old \in ChannelType /\ old.frames \in Int
    BY <2>1, ChannelsTyped DEF ChannelType
  <2>3. PICK n \in Int : n = old.frames - 1
    BY <2>2
  <2>4. c[t] = [old EXCEPT !.frames = n] \/ c[t] = old
    BY <1>1, <2>1, <2>3
  <2> QED
    BY <2>1, <2>2, <2>4, WithFrames
<1>4. c \in [Track -> ChannelType]
  BY <1>1, <1>3
<1> QED
  BY <1>2, <1>3, <1>4, ChannelStep

LEMMA VoiceStopInv == ASSUME ServiceInv, VoiceStop PROVE ServiceInv'
<1>1. PICK h \in Voice : /\ SetVoiceState(stop_track(VoiceState, h[1]))
                         /\ UNCHANGED <<mobjs, mgens, created, clean>>
  BY DEF VoiceStop
<1>2. PICK v, w, t : v = VoiceState /\ t = h[1] /\ w = stop_track(v, t)
  OBVIOUS
<1>3. /\ VoiceOK(v) /\ MusicObjsOK(mobjs) /\ clean \in BOOLEAN
      /\ clean => Kept(v, mobjs, created) /\ t \in Track
  BY <1>2 DEF ServiceInv, Voice
<1>4. t \in Track
  BY <1>2 DEF Voice
<1>5. VoiceOK(w)
  BY <1>2, <1>3, <1>4, StopVoice
<1>6. clean => Kept(w, mobjs, created)
  BY <1>2, <1>3, <1>4, StopKept
<1>7. After(w, mobjs', clean', created')
  BY <1>1, <1>3, <1>5, <1>6 DEF After
<1> QED
  BY <1>1, <1>2, <1>7, AfterInv

LEMMA ReapInv == ASSUME ServiceInv, Reap PROVE ServiceInv'
<1>1. PICK v, ts, w :
        /\ v = VoiceState /\ ts = {t \in Track : tracks[t].active /\ tracks[t].kind = "sfx" /\ Done(t)}
        /\ w = StopAll(v, ts)
  OBVIOUS
<1>2. SetVoiceState(w) /\ UNCHANGED <<mobjs, mgens, created, clean>>
  BY <1>1 DEF Reap
<1>3. /\ VoiceOK(v) /\ MusicObjsOK(mobjs) /\ clean \in BOOLEAN
      /\ clean => Kept(v, mobjs, created)
      /\ ts \in SUBSET Track
  BY <1>1 DEF ServiceInv
<1>4. VoiceOK(w) /\ (clean => Kept(w, mobjs, created))
  BY <1>1, <1>3, StopAllKept
<1>5. After(w, mobjs', clean', created')
  BY <1>2, <1>3, <1>4 DEF After
<1> QED
  BY <1>2, <1>5, AfterInv

LEMMA SweepInv == ASSUME ServiceInv, NEW vm, Sweep(vm) PROVE ServiceInv'
<1>1. PICK v, ts, x, p, ss :
        /\ v = VoiceState /\ ts = {t \in Track : tracks[t].active /\ tracks[t].owner = vm}
        /\ x = StopAll(v, ts) /\ p = x.pool /\ ss = Owned(p, vm)
  OBVIOUS
<1>2. PICK q : q = audio_pool_sweep_vm(p, vm)
  OBVIOUS
<1>3. /\ SetVoiceState([x EXCEPT !.pool = q])
      /\ created' = created \ ss
      /\ clean' = (clean /\ ss \subseteq created)
      /\ UNCHANGED <<mobjs, mgens>>
  BY <1>1, <1>2 DEF Sweep, SweepState
<1>4. /\ VoiceOK(v) /\ MusicObjsOK(mobjs) /\ clean \in BOOLEAN
      /\ clean => Kept(v, mobjs, created)
      /\ ts \in SUBSET Track
  BY <1>1 DEF ServiceInv
<1>5. VoiceOK(x) /\ (clean => Kept(x, mobjs, created))
  BY <1>1, <1>4, StopAllKept
<1>6. PoolOK(p) /\ x \in VoiceType
  BY <1>1, <1>5 DEF VoiceOK
<1>7. PICK h, keep : h = Hand(x, mobjs) /\ keep = clean'
  OBVIOUS
<1>8. keep \in BOOLEAN /\ (keep => Accounted(p, created, h) /\ Owned(p, vm) \subseteq created)
  BY <1>1, <1>3, <1>5, <1>7 DEF Kept
<1>9. PoolOK(q) /\ (keep => Accounted(q, created \ Owned(p, vm), h))
  BY <1>2, <1>6, <1>8, SweepKept
<1>10. PICK w : w = [pool |-> q, tracks |-> x.tracks, tgens |-> x.tgens,
                     channels |-> x.channels, mslots |-> x.mslots, fmvSync |-> x.fmvSync]
  OBVIOUS
<1>11. [x EXCEPT !.pool = q] = w
  BY <1>6, <1>10 DEF VoiceType
<1>12. VoiceOK(w)
  BY <1>5, <1>9, <1>10, PoolVoice
<1>13. Hand(w, mobjs) = h /\ w.pool = q
  BY <1>7, <1>10, SameTracksSameHand
<1>14. keep => Kept(w, mobjs, created')
  BY <1>1, <1>3, <1>9, <1>13 DEF Kept
<1>15. After(w, mobjs', clean', created')
  BY <1>3, <1>4, <1>7, <1>8, <1>12, <1>14 DEF After
<1> QED
  BY <1>3, <1>11, <1>15, AfterInv

LEMMA ServiceNextInv == ServiceInv /\ [AudioNext]_avars => ServiceInv'
<1> SUFFICES ASSUME ServiceInv, [AudioNext]_avars PROVE ServiceInv'
  OBVIOUS
<1>1. CASE UNCHANGED avars
  BY <1>1, StutterInv
<1>2. CASE PoolAlloc \/ LoadStaged
  BY <1>2, LoadsKeep
<1>3. CASE PoolFree \/ FreeMusic \/ LoadMusic
  BY <1>3, PoolFreeInv, FreeMusicInv, LoadMusicInv
<1>4. CASE TriggerSfx \/ PlayMusic \/ PcmOpen \/ PcmFeed
  BY <1>4, TriggerInv, PlayMusicInv, PcmOpenInv, PcmFeedInv
<1>5. CASE StreamWav
  <2>1. PICK o \in Streamers : PlayExternal("file", o)
    BY <1>5 DEF StreamWav
  <2> QED
    BY <2>1, ExternalInv DEF Owners
<1>6. CASE FmvOpen
  <2>1. PlayExternal("fmv", 0) /\ \A i \in MusicSlot : mslots[i].kind # "fmv"
    BY <1>6 DEF FmvOpen
  <2> QED
    BY <2>1, ExternalInv DEF Owners
<1>7. CASE VoiceStop \/ Reap \/ Render
  BY <1>7, VoiceStopInv, ReapInv, RenderInv
<1>8. CASE \E vm \in Owner : Sweep(vm)
  BY <1>8, SweepInv
<1> QED
  BY <1>1, <1>2, <1>3, <1>4, <1>5, <1>6, <1>7, <1>8 DEF AudioNext

-----------------------------------------------------------------------------
(* What the invariant says of the counts. *)

Image(tag, S, s) == {<<<<tag, i>>, s>> : i \in S}

LEMMA ImageSize ==
    ASSUME NEW tag, NEW S, IsFiniteSet(S), NEW s
    PROVE  IsFiniteSet(Image(tag, S, s)) /\ Cardinality(Image(tag, S, s)) = Cardinality(S)
<1> DEFINE f == [i \in S |-> <<<<tag, i>>, s>>]
<1>1. f \in Injection(S, Image(tag, S, s)) /\ f \in Surjection(S, Image(tag, S, s))
  <2>1. f \in [S -> Image(tag, S, s)]
    BY DEF Image
  <2>2. \A i, j \in S : f[i] = f[j] => i = j
    OBVIOUS
  <2>3. \A x \in Image(tag, S, s) : \E i \in S : f[i] = x
    BY DEF Image
  <2> HIDE DEF f
  <2> QED
    BY <2>1, <2>2, <2>3 DEF Injection, IsInjective, Surjection
<1> HIDE DEF f
<1> QED
  BY <1>1, FS_Surjection

LEMMA DisjointSize ==
    ASSUME NEW A, IsFiniteSet(A), NEW B, IsFiniteSet(B), A \cap B = {}
    PROVE  IsFiniteSet(A \cup B) /\ Cardinality(A \cup B) = Cardinality(A) + Cardinality(B)
<1>1. Cardinality(A \cup B) = Cardinality(A) + Cardinality(B) - Cardinality(A \cap B)
      /\ IsFiniteSet(A \cup B)
  BY FS_Union
<1>2. Cardinality(A) \in Nat /\ Cardinality(B) \in Nat /\ Cardinality(A \cap B) = 0
  BY FS_CardinalityType, FS_EmptySet
<1> QED
  BY <1>1, <1>2

\* A holder counts for a slot while it holds a handle of it.
LEMMA HeldFacts ==
    ASSUME ServiceInv, clean, NEW h, h = Hand(VoiceState, mobjs), NEW s \in ObjSlot,
           NEW k \in Holder
    PROVE  HeldBy(h[k], s) <=> h[k] # NoObject /\ h[k][1] = s
<1>1. Accounted(pool, created, h)
  BY StateFields DEF ServiceInv, Kept
<1> QED
  BY <1>1 DEF Accounted, HeldBy

LEMMA CountIsReferences ==
    ASSUME ServiceInv, clean, NEW h, h = Hand(VoiceState, mobjs), NEW s \in ObjSlot
    PROVE  Cardinality(At(Tokens(created, h), s)) = References(s)
<1> DEFINE VT == {t \in Track : tracks[t].active /\ HeldBy(tracks[t].object, s)}
           IM == {i \in MusicObjSlot : mobjs[i].in_use /\ HeldBy(mobjs[i].intro, s)}
           LM == {i \in MusicObjSlot : mobjs[i].in_use /\ HeldBy(mobjs[i].loop, s)}
           PM == {i \in MusicSlot : mslots[i].in_use /\ HeldBy(mslots[i].loop, s)}
           C == IF s \in created THEN {<<Creator, s>>} ELSE {}
<1>1. /\ h \in [Holder -> Handles]
      /\ \A t \in Track : h[<<"voice", t>>] = tracks[t].object
      /\ \A i \in MusicObjSlot : h[<<"intro", i>>] = mobjs[i].intro /\ h[<<"loop", i>>] = mobjs[i].loop
      /\ \A i \in MusicSlot : h[<<"player", i>>] = mslots[i].loop
  <2>1. VoiceState \in VoiceType /\ MusicObjsOK(mobjs)
    BY DEF ServiceInv, VoiceOK
  <2> QED
    BY <2>1, HandFacts, StateFields
<1>2. /\ \A t \in Track : tracks[t].object # NoObject => tracks[t].active
      /\ \A i \in MusicObjSlot : mobjs[i].intro # NoObject \/ mobjs[i].loop # NoObject => mobjs[i].in_use
      /\ \A i \in MusicSlot : mslots[i].loop # NoObject => mslots[i].in_use
  <2>1. \A t \in Track : ~tracks[t].active => tracks[t] = IdleTrack
    BY StateFields DEF ServiceInv, VoiceOK, Cleared
  <2>2. \A i \in MusicSlot : ~mslots[i].in_use => mslots[i] = IdleMusic
    BY StateFields DEF ServiceInv, VoiceOK, Cleared
  <2>3. \A i \in MusicObjSlot : ~mobjs[i].in_use => mobjs[i] = IdleMusicObj
    BY DEF ServiceInv, MusicObjsOK
  <2> QED
    BY <2>1, <2>2, <2>3, IdleTypes, IdleMusicObjType
<1>3. /\ VT = {t \in Track : h[<<"voice", t>>] # NoObject /\ h[<<"voice", t>>][1] = s}
      /\ IM = {i \in MusicObjSlot : h[<<"intro", i>>] # NoObject /\ h[<<"intro", i>>][1] = s}
      /\ LM = {i \in MusicObjSlot : h[<<"loop", i>>] # NoObject /\ h[<<"loop", i>>][1] = s}
      /\ PM = {i \in MusicSlot : h[<<"player", i>>] # NoObject /\ h[<<"player", i>>][1] = s}
  <2>1. ASSUME NEW t \in Track
        PROVE  tracks[t].active /\ HeldBy(tracks[t].object, s)
                  <=> h[<<"voice", t>>] # NoObject /\ h[<<"voice", t>>][1] = s
    BY <1>1, <1>2, HolderFacts, HeldFacts
  <2>2. ASSUME NEW i \in MusicObjSlot
        PROVE  mobjs[i].in_use /\ HeldBy(mobjs[i].intro, s)
                  <=> h[<<"intro", i>>] # NoObject /\ h[<<"intro", i>>][1] = s
    <3>1. h[<<"intro", i>>] = mobjs[i].intro /\ <<"intro", i>> \in Holder
      BY <1>1, HolderFacts
    <3>2. HeldBy(mobjs[i].intro, s) <=> h[<<"intro", i>>] # NoObject /\ h[<<"intro", i>>][1] = s
      <4>1. h[<<"intro", i>>] \in Handles
        BY <1>1, <3>1
      <4> QED
        BY <3>1, <4>1, HeldFacts
    <3>3. mobjs[i].intro # NoObject => mobjs[i].in_use
      BY <1>2
    <3> QED
      BY <3>1, <3>2, <3>3
  <2>3. ASSUME NEW i \in MusicObjSlot
        PROVE  mobjs[i].in_use /\ HeldBy(mobjs[i].loop, s)
                  <=> h[<<"loop", i>>] # NoObject /\ h[<<"loop", i>>][1] = s
    <3>1. h[<<"loop", i>>] = mobjs[i].loop /\ <<"loop", i>> \in Holder
      BY <1>1, HolderFacts
    <3>2. HeldBy(mobjs[i].loop, s) <=> h[<<"loop", i>>] # NoObject /\ h[<<"loop", i>>][1] = s
      <4>1. h[<<"loop", i>>] \in Handles
        BY <1>1, <3>1
      <4> QED
        BY <3>1, <4>1, HeldFacts
    <3>3. mobjs[i].loop # NoObject => mobjs[i].in_use
      BY <1>2
    <3> QED
      BY <3>1, <3>2, <3>3
  <2>4. ASSUME NEW i \in MusicSlot
        PROVE  mslots[i].in_use /\ HeldBy(mslots[i].loop, s)
                  <=> h[<<"player", i>>] # NoObject /\ h[<<"player", i>>][1] = s
    BY <1>1, <1>2, HolderFacts, HeldFacts
  <2> QED
    BY <2>1, <2>2, <2>3, <2>4
<1>4. References(s) = (IF s \in created THEN 1 ELSE 0) + Cardinality(VT) + Cardinality(IM)
                         + Cardinality(LM) + Cardinality(PM)
  BY DEF References
<1>5. /\ IsFiniteSet(VT) /\ IsFiniteSet(IM) /\ IsFiniteSet(LM) /\ IsFiniteSet(PM)
  <2>1. IsFiniteSet(Track) /\ IsFiniteSet(MusicObjSlot) /\ IsFiniteSet(MusicSlot)
    BY ServiceAssumption, FS_Interval DEF Track, MusicObjSlot, MusicSlot
  <2>2. VT \in SUBSET Track /\ IM \in SUBSET MusicObjSlot /\ LM \in SUBSET MusicObjSlot
        /\ PM \in SUBSET MusicSlot
    OBVIOUS
  <2> HIDE DEF VT, IM, LM, PM
  <2> QED
    BY <2>1, <2>2, FS_Subset
<1>6. IsFiniteSet(C) /\ Cardinality(C) = IF s \in created THEN 1 ELSE 0
  BY FS_EmptySet, FS_Singleton
<1> HIDE DEF VT, IM, LM, PM
<1>7. At(Tokens(created, h), s) = C \cup (Image("voice", VT, s) \cup (Image("intro", IM, s)
                                    \cup (Image("loop", LM, s) \cup Image("player", PM, s))))
  <2> DEFINE A == At(Tokens(created, h), s)
             U == C \cup (Image("voice", VT, s) \cup (Image("intro", IM, s)
                      \cup (Image("loop", LM, s) \cup Image("player", PM, s))))
  <2>1. ASSUME NEW x \in A PROVE x \in U
    <3>1. CASE \E z \in created : x = <<Creator, z>>
      BY <2>1, <3>1 DEF At
    <3>2. CASE \E k \in Holder : h[k] # NoObject /\ x = <<k, h[k][1]>>
      <4>1. PICK k \in Holder : h[k] # NoObject /\ h[k][1] = s /\ x = <<k, s>>
        BY <2>1, <3>2 DEF At
      <4>2. CASE \E t \in Track : k = <<"voice", t>>
        BY <1>3, <4>1, <4>2 DEF Image
      <4>3. CASE \E i \in MusicObjSlot : k = <<"intro", i>> \/ k = <<"loop", i>>
        BY <1>3, <4>1, <4>3 DEF Image
      <4>4. CASE \E i \in MusicSlot : k = <<"player", i>>
        BY <1>3, <4>1, <4>4 DEF Image
      <4> QED
        BY <4>2, <4>3, <4>4, HolderCases
    <3> QED
      BY <2>1, <3>1, <3>2 DEF At, Tokens
  <2>2. ASSUME NEW x \in C PROVE x \in A
    BY <2>2 DEF At, Tokens
  <2>3. ASSUME NEW x \in Image("voice", VT, s) PROVE x \in A
    <3>1. PICK t \in VT : x = <<<<"voice", t>>, s>>
      BY <2>3 DEF Image
    <3>2. /\ <<"voice", t>> \in Holder /\ h[<<"voice", t>>] # NoObject
          /\ x = <<<<"voice", t>>, h[<<"voice", t>>][1]>> /\ x[2] = s
      BY <1>3, <3>1, HolderFacts
    <3> QED
      BY <3>2 DEF At, Tokens
  <2>4. ASSUME NEW x \in Image("intro", IM, s) PROVE x \in A
    <3>1. PICK t \in IM : x = <<<<"intro", t>>, s>>
      BY <2>4 DEF Image
    <3>2. /\ <<"intro", t>> \in Holder /\ h[<<"intro", t>>] # NoObject
          /\ x = <<<<"intro", t>>, h[<<"intro", t>>][1]>> /\ x[2] = s
      BY <1>3, <3>1, HolderFacts
    <3> QED
      BY <3>2 DEF At, Tokens
  <2>5. ASSUME NEW x \in Image("loop", LM, s) PROVE x \in A
    <3>1. PICK t \in LM : x = <<<<"loop", t>>, s>>
      BY <2>5 DEF Image
    <3>2. /\ <<"loop", t>> \in Holder /\ h[<<"loop", t>>] # NoObject
          /\ x = <<<<"loop", t>>, h[<<"loop", t>>][1]>> /\ x[2] = s
      BY <1>3, <3>1, HolderFacts
    <3> QED
      BY <3>2 DEF At, Tokens
  <2>6. ASSUME NEW x \in Image("player", PM, s) PROVE x \in A
    <3>1. PICK t \in PM : x = <<<<"player", t>>, s>>
      BY <2>6 DEF Image
    <3>2. /\ <<"player", t>> \in Holder /\ h[<<"player", t>>] # NoObject
          /\ x = <<<<"player", t>>, h[<<"player", t>>][1]>> /\ x[2] = s
      BY <1>3, <3>1, HolderFacts
    <3> QED
      BY <3>2 DEF At, Tokens
  <2> HIDE DEF A, C
  <2> QED
    BY <2>1, <2>2, <2>3, <2>4, <2>5, <2>6 DEF A
<1>8. PICK iv, ii, il, ip : /\ iv = Image("voice", VT, s) /\ ii = Image("intro", IM, s)
                            /\ il = Image("loop", LM, s) /\ ip = Image("player", PM, s)
  OBVIOUS
<1>9. /\ IsFiniteSet(iv) /\ Cardinality(iv) = Cardinality(VT)
      /\ IsFiniteSet(ii) /\ Cardinality(ii) = Cardinality(IM)
      /\ IsFiniteSet(il) /\ Cardinality(il) = Cardinality(LM)
      /\ IsFiniteSet(ip) /\ Cardinality(ip) = Cardinality(PM)
  BY <1>5, <1>8, ImageSize
<1>10. /\ C \cap (iv \cup (ii \cup (il \cup ip))) = {} /\ iv \cap (ii \cup (il \cup ip)) = {}
       /\ ii \cap (il \cup ip) = {} /\ il \cap ip = {}
  BY <1>8 DEF Image, Creator
<1> HIDE DEF C
<1>11. IsFiniteSet(il \cup ip) /\ Cardinality(il \cup ip) = Cardinality(il) + Cardinality(ip)
  BY <1>9, <1>10, DisjointSize
<1>12. /\ IsFiniteSet(ii \cup (il \cup ip))
       /\ Cardinality(ii \cup (il \cup ip)) = Cardinality(ii) + Cardinality(il \cup ip)
  BY <1>9, <1>10, <1>11, DisjointSize
<1>13. /\ IsFiniteSet(iv \cup (ii \cup (il \cup ip)))
       /\ Cardinality(iv \cup (ii \cup (il \cup ip))) = Cardinality(iv) + Cardinality(ii \cup (il \cup ip))
  BY <1>9, <1>10, <1>12, DisjointSize
<1>14. Cardinality(C \cup (iv \cup (ii \cup (il \cup ip))))
          = Cardinality(C) + Cardinality(iv \cup (ii \cup (il \cup ip)))
  BY <1>6, <1>10, <1>13, DisjointSize
<1>15. /\ Cardinality(VT) \in Nat /\ Cardinality(IM) \in Nat /\ Cardinality(LM) \in Nat
       /\ Cardinality(PM) \in Nat /\ Cardinality(C) \in Nat
  BY <1>5, <1>6, FS_CardinalityType
<1> QED
  BY <1>4, <1>6, <1>7, <1>8, <1>9, <1>11, <1>12, <1>13, <1>14, <1>15

LEMMA ServiceRefs == ServiceInv => RefsExact
<1> SUFFICES ASSUME ServiceInv PROVE RefsExact
  OBVIOUS
<1>1. PoolOK(pool) /\ BlocksExact(pool)
  BY StateFields DEF ServiceInv, VoiceOK, PoolOK
<1>2. ASSUME clean, NEW s \in ObjSlot, pool.objects[s].in_use \/ s \in created
      PROVE  pool.objects[s].in_use /\ pool.objects[s].refs = References(s)
  <2>1. PICK h : h = Hand(VoiceState, mobjs)
    OBVIOUS
  <2>2. PICK H : H = Tokens(created, h)
    OBVIOUS
  <2>3. Books(pool, H)
    BY <1>2, <2>1, <2>2, StateFields DEF ServiceInv, Kept, Accounted
  <2>4. s \in created => At(H, s) # {}
    <3>1. s \in created => <<Creator, s>> \in At(H, s)
      BY <2>2 DEF At, Tokens
    <3> QED
      BY <3>1
  <2>5. pool.objects[s].in_use
    BY <1>1, <1>2, <2>3, <2>4, BooksUse
  <2>6. pool.objects[s].refs = Cardinality(At(H, s))
    BY <2>3 DEF Books
  <2>7. Cardinality(At(H, s)) = References(s)
    BY <1>2, <2>1, <2>2, CountIsReferences
  <2> QED
    BY <2>5, <2>6, <2>7
<1> QED
  BY <1>1, <1>2 DEF RefsExact

LEMMA ServiceVoices == ServiceInv => VoicesMatchSlots
<1> SUFFICES ASSUME ServiceInv PROVE VoicesMatchSlots
  OBVIOUS
<1>1. SlotsMatch(VoiceState) /\ SyncMatch(VoiceState) /\ ChannelsMatch(VoiceState)
  BY DEF ServiceInv, VoiceOK
<1> QED
  BY <1>1, StateFields DEF SlotsMatch, SyncMatch, ChannelsMatch, VoicesMatchSlots

LEMMA ServiceAlive == ServiceInv => (clean => PlayingIsAlive)
<1> SUFFICES ASSUME ServiceInv, clean, NEW t \in Track, tracks[t].object # NoObject
             PROVE  resolve(pool, tracks[t].object)
  BY DEF PlayingIsAlive
<1>1. PICK h : h = Hand(VoiceState, mobjs)
  OBVIOUS
<1>2. VoiceState \in VoiceType /\ MusicObjsOK(mobjs) /\ Accounted(pool, created, h)
  BY <1>1, StateFields DEF ServiceInv, VoiceOK, Kept
<1>3. <<"voice", t>> \in Holder /\ h[<<"voice", t>>] = tracks[t].object
  BY <1>1, <1>2, HolderFacts, HandFacts, StateFields
<1> QED
  BY <1>2, <1>3 DEF Accounted

-----------------------------------------------------------------------------
(* The music player (music_player.c). *)

LEMMA MaxOfTwo ==
    ASSUME NEW a \in Int, NEW b \in Int
    PROVE  Max({a, b}) = IF a >= b THEN a ELSE b
  BY DEF Max

\* A segment is at least as long as the head that was primed from it.
HeadsFit == \A s \in DOMAIN SegLen : SegLen[s] \in Nat /\ (SegLen[s] > 0 => HeadFrames <= SegLen[s])

Segment == {"intro", "loop"}
Sample == Segment \X Int
PlayerFields == {"state", "segment", "offset", "pinned", "buf", "ring", "last", "covered",
                 "partial", "order", "over"}

PlayerType(m) ==
    /\ DOMAIN m = PlayerFields
    /\ m.offset \in Nat /\ m.pinned \in 0 .. HeadFrames
    /\ m.buf \in Seq(Sample) /\ m.ring \in Seq(Sample)

\* What is behind the next offset to read has been pushed, is still in the pinned
\* head or waits in the buffer.
InHand(m) ==
    LET end == SegLen[m.segment]
    IN  /\ m.segment \in Segment /\ end > 0
        /\ m.covered \subseteq 0 .. end - 1
        /\ \A k \in DOMAIN m.buf : m.buf[k][2] \in 0 .. end - 1
        /\ \A i \in 0 .. end - 1 : i < m.offset + m.pinned + Len(m.buf) =>
              \/ i \in m.covered
              \/ i \in HeadFrames - m.pinned .. HeadFrames - 1
              \/ \E k \in DOMAIN m.buf : m.buf[k][2] = i

PlayerGood(m) ==
    /\ PlayerType(m) /\ m.partial = FALSE
    /\ IF m.state = "stopped" THEN m.segment = "none" ELSE InHand(m)

\* The places in its segment of the samples of a run.
Numbers(s) == {s[k][2] : k \in DOMAIN s}

LEMMA SamplesFacts ==
    ASSUME NEW seg \in Segment, NEW from \in Int, NEW to \in Int, from <= to,
           NEW s, s = Samples(seg, from, to)
    PROVE  /\ s \in Seq(Sample) /\ Len(s) = to - from
           /\ \A k \in DOMAIN s : s[k][2] = from + k - 1
           /\ Numbers(s) = from .. to - 1
<1>1. s \in [1 .. to - from -> Sample]
  BY DEF Samples, Sample
<1>2. s \in Seq(Sample) /\ Len(s) = to - from /\ DOMAIN s = 1 .. to - from
  BY <1>1
<1>3. \A k \in DOMAIN s : s[k][2] = from + k - 1
  BY <1>2 DEF Samples
<1>4. ASSUME NEW i \in from .. to - 1 PROVE i \in Numbers(s)
  <2>1. PICK k \in 1 .. to - from : k = i - from + 1
    OBVIOUS
  <2>2. k \in DOMAIN s /\ from + k - 1 = i
    BY <1>2, <2>1
  <2>3. s[k][2] = from + k - 1
    BY <1>3, <2>2
  <2> QED
    BY <2>2, <2>3 DEF Numbers
<1>5. ASSUME NEW k \in DOMAIN s PROVE s[k][2] \in from .. to - 1
  BY <1>2, <1>3
<1>6. Numbers(s) = from .. to - 1
  BY <1>4, <1>5 DEF Numbers
<1> QED
  BY <1>2, <1>3, <1>6

LEMMA PushFacts ==
    ASSUME NEW m, PlayerType(m), NEW s \in Seq(Sample), NEW r, r = push_to_mixer(m, s)
    PROVE  /\ PlayerType(r)
           /\ r.state = m.state /\ r.segment = m.segment /\ r.offset = m.offset
           /\ r.pinned = m.pinned /\ r.buf = m.buf /\ r.partial = m.partial
           /\ r.covered = m.covered \cup Numbers(s)
<1> DEFINE all == m.ring \o s
           drop == Max({0, Len(all) - RingFrames})
<1>1. all \in Seq(Sample) /\ Len(all) \in Nat /\ drop \in Nat
  BY PlayerAssumption, MaxOfTwo DEF PlayerType
<1>2. SubSeq(all, drop + 1, Len(all)) \in Seq(Sample)
  <2> HIDE DEF all, drop
  <2> QED
    BY <1>1
<1>3. /\ DOMAIN r = PlayerFields
      /\ r.ring = SubSeq(all, drop + 1, Len(all))
      /\ r.state = m.state /\ r.segment = m.segment /\ r.offset = m.offset
      /\ r.pinned = m.pinned /\ r.buf = m.buf /\ r.partial = m.partial
      /\ r.covered = m.covered \cup Numbers(s)
  BY DEF push_to_mixer, PlayerType, PlayerFields, Numbers
<1> QED
  BY <1>2, <1>3 DEF PlayerType

\* Refilling reads on from where the data in hand ends.
LEMMA RefillGood ==
    ASSUME HeadsFit, NEW m, PlayerGood(m), m.state # "stopped", NEW r, r = Refilled(m)
    PROVE  /\ PlayerGood(r) /\ r.state = m.state /\ r.segment = m.segment
           /\ Len(r.buf) = Len(m.buf) /\ Len(m.buf) < StreamFrames \div 2
                 => r.offset + r.pinned + Len(r.buf) >= SegLen[r.segment]
<1> DEFINE end == SegLen[m.segment]
           place == m.offset + m.pinned + Len(m.buf)
           room == StreamFrames - Len(m.buf)
           to == IF place >= end THEN place ELSE Min({place + room, end})
<1>1. /\ end \in Nat /\ place \in Nat /\ m.segment \in Segment /\ Len(m.buf) \in Nat
      /\ m.buf \in Seq(Sample) /\ m.offset \in Nat /\ m.pinned \in Nat
  BY PlayerAssumption DEF HeadsFit, PlayerGood, PlayerType, InHand, Segment
<1>2. CASE Len(m.buf) >= StreamFrames \div 2
  BY <1>1, <1>2, PlayerAssumption DEF Refilled
<1>3. CASE Len(m.buf) < StreamFrames \div 2
  <2>1. room \in Nat \ {0}
    BY <1>1, <1>3, PlayerAssumption
  <2>2. /\ to \in Int /\ place <= to /\ to <= place + room
        /\ place < end => place < to /\ to <= end
        /\ place >= end => to = place
    <3>1. place + room \in Int /\ end \in Int /\ place + room > place
      BY <1>1, <2>1
    <3>2. Min({place + room, end}) = IF place + room <= end THEN place + room ELSE end
      BY <3>1, MinOfTwo
    <3> HIDE DEF place, room, end
    <3> QED
      BY <1>1, <2>1, <3>1, <3>2
  <2>3. PICK s : s = Samples(m.segment, place, to)
    OBVIOUS
  <2>4. /\ DOMAIN r = PlayerFields /\ r.buf = m.buf \o s
        /\ r.state = m.state /\ r.segment = m.segment /\ r.offset = m.offset
        /\ r.pinned = m.pinned /\ r.ring = m.ring /\ r.covered = m.covered
        /\ r.partial = m.partial
    BY <1>3, <2>3 DEF Refilled, refill_streaming_buffer, stream_fn, PlayerGood, PlayerType, PlayerFields
  <2>11. place = m.offset + m.pinned + Len(m.buf)
    OBVIOUS
  <2> HIDE DEF to, place, end
  <2>12. /\ s \in Seq(Sample) /\ Len(s) = to - place
         /\ \A k \in DOMAIN s : s[k][2] = place + k - 1
    <3>1. PICK seg \in Segment, from \in Int, till \in Int :
              seg = m.segment /\ from = place /\ till = to
      BY <1>1, <2>2
    <3>2. /\ seg \in Segment /\ from \in Int /\ till \in Int
          /\ s = Samples(seg, from, till) /\ from <= till
      BY <2>2, <2>3, <3>1
    <3>3. /\ s \in Seq(Sample) /\ Len(s) = till - from
          /\ \A k \in DOMAIN s : s[k][2] = from + k - 1
      BY <3>2, SamplesFacts
    <3> QED
      BY <3>1, <3>3
  <2>5. /\ r.buf \in Seq(Sample) /\ Len(r.buf) = Len(m.buf) + (to - place)
        /\ \A k \in 1 .. Len(m.buf) : r.buf[k] = m.buf[k]
        /\ \A k \in 1 .. to - place : r.buf[Len(m.buf) + k][2] = place + k - 1
    <3>1. r.buf \in Seq(Sample) /\ Len(r.buf) = Len(m.buf) + (to - place)
      <4>1. /\ m.buf \in Seq(Sample) /\ s \in Seq(Sample) /\ Len(s) = to - place
            /\ r.buf = m.buf \o s
        BY <1>1, <2>12, <2>4
      <4> QED
        BY <4>1
    <3>2. \A k \in 1 .. Len(m.buf) : r.buf[k] = m.buf[k]
      BY <1>1, <2>12, <2>4
    <3>3. ASSUME NEW k \in 1 .. to - place PROVE r.buf[Len(m.buf) + k][2] = place + k - 1
      <4>1. r.buf[Len(m.buf) + k] = s[k] /\ k \in DOMAIN s
        BY <1>1, <2>2, <2>12, <2>4
      <4> QED
        BY <2>12, <4>1
    <3> QED
      BY <3>1, <3>2, <3>3
  <2>6. PlayerType(r)
    BY <2>4, <2>5 DEF PlayerGood, PlayerType
  <2>7. \A k \in DOMAIN r.buf : r.buf[k][2] \in 0 .. end - 1
    <3> SUFFICES ASSUME NEW k \in 1 .. Len(r.buf) PROVE r.buf[k][2] \in 0 .. end - 1
      BY <2>5
    <3>1. CASE k <= Len(m.buf)
      BY <1>1, <2>5, <3>1 DEF PlayerGood, InHand, end
    <3>2. CASE k > Len(m.buf)
      <4>1. PICK j \in 1 .. to - place : k = Len(m.buf) + j
        <5>1. k - Len(m.buf) \in 1 .. to - place
          BY <1>1, <2>2, <2>5, <3>2
        <5> QED
          BY <1>1, <5>1
      <4>2. r.buf[k][2] = place + j - 1
        BY <2>5, <4>1
      <4> QED
        BY <1>1, <2>2, <4>1, <4>2
    <3> QED
      BY <1>1, <3>1, <3>2
  <2>8. ASSUME NEW i \in 0 .. end - 1, i < r.offset + r.pinned + Len(r.buf)
        PROVE  \/ i \in r.covered
               \/ i \in HeadFrames - r.pinned .. HeadFrames - 1
               \/ \E k \in DOMAIN r.buf : r.buf[k][2] = i
    <3>1. CASE i < place
      <4>1. \/ i \in m.covered
            \/ i \in HeadFrames - m.pinned .. HeadFrames - 1
            \/ \E k \in DOMAIN m.buf : m.buf[k][2] = i
        BY <3>1, <2>8, <2>11 DEF PlayerGood, InHand, end
      <4>2. ASSUME NEW k \in DOMAIN m.buf PROVE k \in DOMAIN r.buf /\ r.buf[k] = m.buf[k]
        <5>1. k \in 1 .. Len(m.buf)
          BY <1>1
        <5> QED
          BY <1>1, <2>2, <2>5, <5>1
      <4> QED
        BY <2>4, <4>1, <4>2
    <3>2. CASE i >= place
      <4>1. PICK j \in 1 .. to - place : i = place + j - 1
        <5>1. i < to
          BY <1>1, <2>2, <2>4, <2>5, <2>8, <2>11, <3>2
        <5>2. i - place + 1 \in 1 .. to - place /\ i = place + (i - place + 1) - 1
          BY <1>1, <2>2, <3>2, <5>1
        <5> QED
          BY <5>2
      <4>2. Len(m.buf) + j \in DOMAIN r.buf
        BY <1>1, <2>2, <2>5
      <4> QED
        BY <2>5, <4>1, <4>2
    <3> QED
      BY <1>1, <3>1, <3>2
  <2>9. InHand(r)
    BY <1>1, <2>4, <2>7, <2>8 DEF PlayerGood, InHand, end
  <2>10. Len(r.buf) = Len(m.buf) => r.offset + r.pinned + Len(r.buf) >= SegLen[r.segment]
    <3> SUFFICES ASSUME Len(r.buf) = Len(m.buf) PROVE r.offset + r.pinned + Len(r.buf) >= end
      BY <2>4 DEF end
    <3>1. to = place
      BY <1>1, <2>2, <2>5
    <3> QED
      BY <1>1, <2>2, <2>4, <2>11, <3>1
  <2> QED
    BY <2>4, <2>6, <2>9, <2>10 DEF PlayerGood
<1> QED
  BY <1>1, <1>2, <1>3, PlayerAssumption

LEMMA CutSize ==
    ASSUME NEW l \in Nat, NEW n \in 0 .. l, NEW x, x = IF n + 1 <= l THEN l - (n + 1) + 1 ELSE 0
    PROVE  x = l - n
  OBVIOUS

\* A sequence cut in two after n elements.
IsCut(s, n, p, q) == p = SubSeq(s, 1, n) /\ q = SubSeq(s, n + 1, Len(s))

LEMMA CutFacts ==
    ASSUME NEW s \in Seq(Sample), NEW n \in 0 .. Len(s),
           NEW p, NEW q, IsCut(s, n, p, q)
    PROVE  /\ p \in Seq(Sample) /\ Len(p) = n /\ DOMAIN p = 1 .. n
           /\ \A k \in 1 .. n : k \in DOMAIN s /\ p[k] = s[k]
           /\ q \in Seq(Sample) /\ Len(q) = Len(s) - n /\ DOMAIN q = 1 .. Len(s) - n
           /\ \A k \in 1 .. Len(s) - n : n + k \in DOMAIN s /\ q[k] = s[n + k]
<1>1. Len(s) \in Nat /\ n \in Nat /\ DOMAIN s = 1 .. Len(s)
  OBVIOUS
<1>2. PICK from \in Int, to \in Int : from = n + 1 /\ to = Len(s)
  <2>1. n + 1 \in Int /\ Len(s) \in Int
    BY <1>1
  <2> QED
    BY <2>1, Zenon
<1>3. \A i \in 1 .. n : s[i] \in Sample
  BY <1>1
<1>4. /\ p \in Seq(Sample) /\ Len(p) = IF 1 <= n THEN n - 1 + 1 ELSE 0
      /\ \A i \in 1 .. n - 1 + 1 : p[i] = s[1 + i - 1]
  BY <1>1, <1>3, SubSeqProperties DEF IsCut
<1>5. \A i \in from .. to : s[i] \in Sample
  BY <1>1, <1>2
<1>6. /\ q \in Seq(Sample) /\ Len(q) = IF from <= to THEN to - from + 1 ELSE 0
      /\ \A i \in 1 .. to - from + 1 : q[i] = s[from + i - 1]
  BY <1>2, <1>5, SubSeqProperties DEF IsCut
<1>7. Len(p) = n /\ Len(q) = Len(s) - n
  <2>1. Len(p) = IF 1 <= n THEN n - 1 + 1 ELSE 0
    BY <1>4
  <2>2. Len(q) = IF from <= to THEN to - from + 1 ELSE 0
    BY <1>6
  <2>3. from \in Int /\ to \in Int /\ from = n + 1 /\ to = Len(s) /\ n <= Len(s)
    BY <1>2
  <2>4. PICK l \in Nat : l = Len(s)
    BY <1>1
  <2>5. Len(q) = IF n + 1 <= l THEN l - (n + 1) + 1 ELSE 0
    BY <2>2, <2>3, <2>4
  <2>6. n \in 0 .. l
    BY <1>1, <2>3, <2>4
  <2>7. Len(p) = n
    BY <1>1, <2>1
  <2>8. Len(q) = l - n
    BY <2>5, <2>6, CutSize
  <2> QED
    BY <2>4, <2>7, <2>8
<1>8. ASSUME NEW k \in 1 .. n PROVE k \in DOMAIN s /\ p[k] = s[k]
  <2>1. k \in 1 .. n - 1 + 1 /\ 1 + k - 1 = k
    BY <1>1
  <2> QED
    BY <1>1, <1>4, <2>1
<1>9. ASSUME NEW k \in 1 .. Len(s) - n PROVE n + k \in DOMAIN s /\ q[k] = s[n + k]
  <2>1. k \in 1 .. to - from + 1 /\ from + k - 1 = n + k /\ n + k \in 1 .. Len(s)
    BY <1>1, <1>2
  <2> QED
    BY <1>1, <1>6, <2>1
<1>10. DOMAIN p = 1 .. n /\ DOMAIN q = 1 .. Len(s) - n
  BY <1>4, <1>6, <1>7
<1> QED
  BY <1>4, <1>6, <1>7, <1>8, <1>9, <1>10

\* What is pushed leaves the head or the buffer and is covered.
LEMMA PumpGood ==
    ASSUME HeadsFit, NEW m, PlayerGood(m), m.state # "stopped", NEW max \in Nat,
           NEW r, r = pump_to_mixer(m, max)
    PROVE  /\ PlayerGood(r) /\ r.state = m.state /\ r.segment = m.segment
           /\ r.offset + r.pinned + Len(r.buf) <= m.offset + m.pinned + Len(m.buf)
           /\ r.offset + Len(r.buf) = m.offset + Len(m.buf)
           /\ HeadFrames - r.pinned >= HeadFrames - m.pinned
           /\ \A i \in 0 .. SegLen[m.segment] - 1 :
                 i < m.offset + m.pinned + Len(m.buf) =>
                     \/ i \in r.covered
                     \/ i \in HeadFrames - r.pinned .. HeadFrames - 1
                     \/ \E k \in DOMAIN r.buf : r.buf[k][2] = i
<1>1. PICK end \in Nat, head \in Nat, start \in Nat :
         /\ end = SegLen[m.segment] /\ head = Min({m.pinned, max})
         /\ start = HeadFrames - m.pinned /\ head <= m.pinned /\ head <= max
  <2>1. m.pinned \in 0 .. HeadFrames /\ HeadFrames \in Nat /\ m.segment \in Segment
    BY PlayerAssumption DEF PlayerGood, PlayerType, InHand
  <2>2. SegLen[m.segment] \in Nat
    BY <2>1, PlayerAssumption DEF HeadsFit, Segment
  <2>3. Min({m.pinned, max}) = IF m.pinned <= max THEN m.pinned ELSE max
    BY <2>1, MinOfTwo
  <2> QED
    BY <2>1, <2>2, <2>3
<1>2. /\ m.segment \in Segment /\ m.buf \in Seq(Sample) /\ Len(m.buf) \in Nat
      /\ m.offset \in Nat /\ m.pinned \in 0 .. HeadFrames /\ HeadFrames \in Nat
      /\ HeadFrames <= end /\ PlayerType(m) /\ m.partial = FALSE
      /\ m.covered \subseteq 0 .. end - 1
      /\ \A k \in DOMAIN m.buf : m.buf[k][2] \in 0 .. end - 1
      /\ end > 0
  BY <1>1, PlayerAssumption DEF PlayerGood, PlayerType, InHand, HeadsFit, Segment
<1>3. PICK s : s = Samples(m.segment, start, start + head)
  OBVIOUS
<1>4. /\ s \in Seq(Sample) /\ Numbers(s) = start .. start + head - 1
  <2>1. PICK to \in Int : to = start + head
    BY <1>1
  <2>2. start \in Int /\ start <= to /\ s = Samples(m.segment, start, to) /\ m.segment \in Segment
    BY <1>1, <1>2, <1>3, <2>1
  <2>3. PICK seg \in Segment : seg = m.segment /\ s = Samples(seg, start, to)
    BY <2>2
  <2>4. s \in Seq(Sample) /\ Numbers(s) = start .. to - 1
    <3>1. start \in Int /\ to \in Int /\ start <= to /\ seg \in Segment /\ s = Samples(seg, start, to)
      BY <2>1, <2>2, <2>3
    <3>2. /\ s \in Seq(Sample) /\ Len(s) = to - start
          /\ \A k \in DOMAIN s : s[k][2] = start + k - 1
          /\ Numbers(s) = start .. to - 1
      BY <3>1, SamplesFacts
    <3> QED
      BY <3>2
  <2> QED
    BY <2>1, <2>4
<1>5. PICK headed : headed = push_to_mixer(m, s)
  OBVIOUS
<1>6. /\ PlayerType(headed)
      /\ headed.state = m.state /\ headed.segment = m.segment /\ headed.offset = m.offset
      /\ headed.pinned = m.pinned /\ headed.buf = m.buf /\ headed.partial = m.partial
      /\ headed.covered = m.covered \cup Numbers(s)
  BY <1>2, <1>4, <1>5, PushFacts
<1>7. PICK a : a = [headed EXCEPT !.pinned = @ - head]
  OBVIOUS
<1>8. /\ PlayerType(a)
      /\ a.state = m.state /\ a.segment = m.segment /\ a.offset = m.offset
      /\ a.pinned = m.pinned - head /\ a.buf = m.buf /\ a.partial = m.partial
      /\ a.covered = m.covered \cup (start .. start + head - 1)
  <2>1. /\ DOMAIN a = PlayerFields
        /\ a.state = headed.state /\ a.segment = headed.segment /\ a.offset = headed.offset
        /\ a.pinned = headed.pinned - head /\ a.buf = headed.buf /\ a.partial = headed.partial
        /\ a.covered = headed.covered /\ a.ring = headed.ring
    BY <1>6, <1>7 DEF PlayerType, PlayerFields
  <2>2. a.pinned = m.pinned - head /\ m.pinned - head \in 0 .. HeadFrames
    BY <1>1, <1>2, <1>6, <2>1
  <2>3. a.covered = m.covered \cup (start .. start + head - 1)
    BY <1>4, <1>6, <2>1
  <2>4. a.offset \in Nat /\ a.buf \in Seq(Sample) /\ a.ring \in Seq(Sample)
    BY <1>6, <2>1 DEF PlayerType
  <2> QED
    BY <1>6, <2>1, <2>2, <2>3, <2>4 DEF PlayerType
<1>9. PICK take \in Nat : take = Min({Len(m.buf), max - head}) /\ take <= Len(m.buf)
  <2>1. max - head \in Nat
    BY <1>1
  <2>2. Min({Len(m.buf), max - head}) = IF Len(m.buf) <= max - head THEN Len(m.buf) ELSE max - head
    BY <1>2, <2>1, MinOfTwo
  <2> QED
    BY <1>2, <2>1, <2>2
<1>10. PICK p : p = SubSeq(m.buf, 1, take)
  OBVIOUS
<1>11. PICK q : q = SubSeq(m.buf, take + 1, Len(m.buf))
  OBVIOUS
<1>12. /\ p \in Seq(Sample) /\ Len(p) = take /\ DOMAIN p = 1 .. take
       /\ \A k \in 1 .. take : k \in DOMAIN m.buf /\ p[k] = m.buf[k]
       /\ q \in Seq(Sample) /\ Len(q) = Len(m.buf) - take /\ DOMAIN q = 1 .. Len(m.buf) - take
       /\ \A k \in 1 .. Len(m.buf) - take : take + k \in DOMAIN m.buf /\ q[k] = m.buf[take + k]
  <2>1. m.buf \in Seq(Sample) /\ take \in 0 .. Len(m.buf)
    BY <1>2, <1>9
  <2> QED
    BY <2>1, <1>10, <1>11, CutFacts DEF IsCut
<1>13. PICK b : b = push_to_mixer(a, p)
  OBVIOUS
<1>14. /\ PlayerType(b)
       /\ b.state = m.state /\ b.segment = m.segment /\ b.offset = m.offset
       /\ b.pinned = m.pinned - head /\ b.buf = m.buf /\ b.partial = m.partial
       /\ b.covered = m.covered \cup (start .. start + head - 1) \cup Numbers(p)
  <2>1. /\ PlayerType(b)
        /\ b.state = a.state /\ b.segment = a.segment /\ b.offset = a.offset
        /\ b.pinned = a.pinned /\ b.buf = a.buf /\ b.partial = a.partial
        /\ b.covered = a.covered \cup Numbers(p)
    <3>1. PlayerType(a) /\ p \in Seq(Sample) /\ b = push_to_mixer(a, p)
      BY <1>8, <1>12, <1>13
    <3> QED
      BY <3>1, PushFacts
  <2> QED
    BY <1>8, <2>1
<1>15. /\ PlayerType(r)
       /\ r.state = m.state /\ r.segment = m.segment /\ r.offset = m.offset + take
       /\ r.pinned = m.pinned - head /\ r.buf = q /\ r.partial = m.partial
       /\ r.covered = m.covered \cup (start .. start + head - 1) \cup Numbers(p)
  <2>1. r = [b EXCEPT !.buf = SubSeq(@, take + 1, Len(@)), !.offset = @ + take]
    BY <1>1, <1>3, <1>5, <1>7, <1>8, <1>9, <1>10, <1>13 DEF pump_to_mixer
  <2>2. /\ DOMAIN r = PlayerFields
        /\ r.state = b.state /\ r.segment = b.segment /\ r.offset = b.offset + take
        /\ r.pinned = b.pinned /\ r.buf = SubSeq(b.buf, take + 1, Len(b.buf))
        /\ r.partial = b.partial /\ r.covered = b.covered /\ r.ring = b.ring
    BY <1>14, <2>1 DEF PlayerType, PlayerFields
  <2>3. r.buf = q /\ r.pinned \in 0 .. HeadFrames /\ r.offset \in Nat /\ r.ring \in Seq(Sample)
    BY <1>2, <1>9, <1>11, <1>14, <2>2 DEF PlayerType
  <2> QED
    BY <1>12, <1>14, <2>2, <2>3 DEF PlayerType
<1>16. ASSUME NEW k \in 1 .. take PROVE m.buf[k][2] \in Numbers(p)
  <2>1. k \in DOMAIN p /\ p[k] = m.buf[k]
    BY <1>12
  <2> QED
    BY <2>1 DEF Numbers
<1>17. ASSUME NEW i \in 0 .. end - 1, i < m.offset + m.pinned + Len(m.buf)
       PROVE  \/ i \in r.covered
              \/ i \in HeadFrames - r.pinned .. HeadFrames - 1
              \/ \E k \in DOMAIN r.buf : r.buf[k][2] = i
  <2>1. \/ i \in m.covered
        \/ i \in start .. HeadFrames - 1
        \/ \E k \in DOMAIN m.buf : m.buf[k][2] = i
    BY <1>1, <1>17 DEF PlayerGood, InHand
  <2>2. CASE i \in m.covered
    BY <1>15, <2>2
  <2>3. CASE i \in start .. HeadFrames - 1
    <3>1. i \in start .. start + head - 1 \/ i \in start + head .. HeadFrames - 1
      BY <1>1, <1>2, <2>3
    <3>2. HeadFrames - r.pinned = start + head
      BY <1>1, <1>2, <1>15
    <3> QED
      BY <1>15, <3>1, <3>2
  <2>4. CASE \E k \in DOMAIN m.buf : m.buf[k][2] = i
    <3>1. PICK k \in 1 .. Len(m.buf) : m.buf[k][2] = i
      BY <1>2, <2>4
    <3>2. CASE k <= take
      <4>1. k \in 1 .. take
        BY <1>2, <1>9, <3>2
      <4> QED
        BY <1>15, <1>16, <3>1, <4>1
    <3>3. CASE k > take
      <4>1. PICK j \in 1 .. Len(m.buf) - take : k = take + j
        <5>1. k - take \in 1 .. Len(m.buf) - take
          BY <1>2, <1>9, <3>3
        <5> QED
          BY <1>2, <1>9, <5>1
      <4>2. q[j][2] = i /\ j \in DOMAIN q
        BY <1>12, <3>1, <4>1
      <4> QED
        BY <1>15, <4>2
    <3> QED
      BY <1>2, <1>9, <3>2, <3>3
  <2> QED
    BY <2>1, <2>2, <2>3, <2>4
<1>18. r.covered \subseteq 0 .. end - 1
  <2>1. start .. start + head - 1 \subseteq 0 .. end - 1
    <3>1. start \in Nat /\ head \in Nat /\ start + head <= end
      BY <1>1, <1>2
    <3> QED
      BY <3>1
  <2>2. ASSUME NEW k \in DOMAIN p PROVE p[k][2] \in 0 .. end - 1
    <3>1. k \in 1 .. take /\ k \in DOMAIN m.buf /\ p[k] = m.buf[k]
      BY <1>12
    <3> QED
      BY <1>2, <3>1
  <2> QED
    BY <1>2, <1>15, <2>1, <2>2 DEF Numbers
<1>19. \A k \in DOMAIN r.buf : r.buf[k][2] \in 0 .. end - 1
  <2> SUFFICES ASSUME NEW k \in 1 .. Len(m.buf) - take PROVE q[k][2] \in 0 .. end - 1
    BY <1>12, <1>15
  <2>1. take + k \in DOMAIN m.buf /\ q[k] = m.buf[take + k]
    BY <1>12
  <2> QED
    BY <1>2, <2>1
<1>20. r.offset + r.pinned + Len(r.buf) <= m.offset + m.pinned + Len(m.buf)
       /\ r.offset + Len(r.buf) = m.offset + Len(m.buf)
       /\ HeadFrames - r.pinned >= HeadFrames - m.pinned
  <2>1. /\ r.offset = m.offset + take /\ r.pinned = m.pinned - head
        /\ Len(r.buf) = Len(m.buf) - take
    BY <1>12, <1>15
  <2>2. /\ m.offset \in Nat /\ m.pinned \in Nat /\ Len(m.buf) \in Nat /\ take \in Nat
        /\ head \in Nat /\ HeadFrames \in Nat
    BY <1>1, <1>2, <1>9
  <2>3. r.offset + r.pinned + Len(r.buf) <= m.offset + m.pinned + Len(m.buf)
    BY <2>1, <2>2
  <2>4. r.offset + Len(r.buf) = m.offset + Len(m.buf)
    BY <2>1, <2>2
  <2>5. HeadFrames - r.pinned >= HeadFrames - m.pinned
    BY <2>1, <2>2
  <2> QED
    BY <2>3, <2>4, <2>5
<1>21. InHand(r)
  <2>1. ASSUME NEW i \in 0 .. end - 1, i < r.offset + r.pinned + Len(r.buf)
        PROVE  i < m.offset + m.pinned + Len(m.buf)
    <3>1. /\ r.offset \in Nat /\ r.pinned \in Nat /\ Len(r.buf) \in Nat
          /\ m.offset \in Nat /\ m.pinned \in Nat /\ Len(m.buf) \in Nat
      <4>1. r.pinned \in 0 .. HeadFrames /\ r.offset \in Nat /\ r.buf \in Seq(Sample)
        BY <1>15 DEF PlayerType
      <4> QED
        BY <1>2, <4>1
    <3>2. r.offset + r.pinned + Len(r.buf) <= m.offset + m.pinned + Len(m.buf)
      BY <1>20
    <3> QED
      BY <2>1, <3>1, <3>2
  <2> QED
    BY <1>1, <1>2, <1>15, <1>17, <1>18, <1>19, <2>1 DEF InHand
<1> QED
  BY <1>1, <1>2, <1>15, <1>17, <1>20, <1>21, m.state # "stopped" DEF PlayerGood

\* All of the segment has been pushed.
Whole(m) == m.covered = 0 .. SegLen[m.segment] - 1

\* A new pass of a segment: all of it is still to come.
LEMMA EnterGood ==
    ASSUME HeadsFit, NEW m, PlayerType(m), m.partial = FALSE,
           m.segment = "none" \/ Whole(m),
           NEW seg \in Segment, SegLen[seg] > 0, NEW r, r = enter_segment(m, seg)
    PROVE  PlayerType(r) /\ r.partial = FALSE /\ InHand(r) /\ r.segment = seg /\ r.state = m.state
           /\ r.ring = m.ring
<1>1. /\ DOMAIN r = PlayerFields
      /\ r.state = m.state /\ r.segment = seg /\ r.offset = 0 /\ r.buf = <<>>
      /\ r.pinned = HeadFrames /\ r.covered = {} /\ r.ring = m.ring
  BY DEF enter_segment, PlayerType, PlayerFields
<1>2. r.partial = FALSE
  BY DEF enter_segment, PlayerType, PlayerFields, Whole
<1>3. PlayerType(r)
  BY <1>1, PlayerAssumption DEF PlayerType
<1>4. SegLen[seg] \in Nat
  BY PlayerAssumption DEF HeadsFit, Segment
<1> QED
  BY <1>1, <1>2, <1>3, <1>4, PlayerAssumption DEF InHand

LEMMA StopGood ==
    ASSUME NEW m, PlayerType(m), m.partial = FALSE, NEW r, r = music_stop(m)
    PROVE  PlayerGood(r) /\ r.state = "stopped" /\ r.segment = "none"
<1>1. /\ DOMAIN r = PlayerFields /\ r.state = "stopped" /\ r.segment = "none" /\ r.offset = 0
      /\ r.pinned = 0 /\ r.buf = <<>> /\ r.ring = <<>> /\ r.partial = m.partial
  BY DEF music_stop, PlayerType, PlayerFields
<1> QED
  BY <1>1, PlayerAssumption DEF PlayerType, PlayerGood

\* A segment that counts as exhausted has been pushed from end to end.
LEMMA ExhaustedWhole ==
    ASSUME HeadsFit, NEW m, PlayerGood(m), m.state # "stopped", NEW max \in Nat,
           NEW p, p = pump_to_mixer(Refilled(m), max), segment_exhausted(m, p)
    PROVE  p.covered = 0 .. SegLen[p.segment] - 1
<1>1. PICK r : r = Refilled(m)
  OBVIOUS
<1>2. /\ Len(m.buf) < StreamFrames \div 2 /\ Len(r.buf) = Len(m.buf)
      /\ p.buf = <<>> /\ p.pinned = 0
  BY <1>1 DEF segment_exhausted
<1>3. /\ PlayerGood(r) /\ r.state # "stopped"
      /\ r.offset + r.pinned + Len(r.buf) >= SegLen[r.segment]
  BY <1>1, <1>2, RefillGood
<1>4. p = pump_to_mixer(r, max)
  BY <1>1
<1>5. /\ PlayerGood(p) /\ p.state # "stopped" /\ p.segment = r.segment
      /\ \A i \in 0 .. SegLen[r.segment] - 1 :
            i < r.offset + r.pinned + Len(r.buf) =>
                \/ i \in p.covered
                \/ i \in HeadFrames - p.pinned .. HeadFrames - 1
                \/ \E k \in DOMAIN p.buf : p.buf[k][2] = i
  BY <1>3, <1>4, PumpGood
<1>6. PICK end \in Nat : end = SegLen[r.segment]
  BY <1>3, PlayerAssumption DEF PlayerGood, InHand, HeadsFit, Segment
<1>7. r.offset \in Nat /\ r.pinned \in Nat /\ Len(r.buf) \in Nat /\ HeadFrames \in Nat
  BY <1>3, PlayerAssumption DEF PlayerGood, PlayerType
<1>8. ASSUME NEW i \in 0 .. end - 1 PROVE i \in p.covered
  <2>1. i < r.offset + r.pinned + Len(r.buf)
    BY <1>3, <1>6, <1>7
  <2>2. i \notin HeadFrames - p.pinned .. HeadFrames - 1
    BY <1>2, <1>7
  <2>3. DOMAIN p.buf = {}
    BY <1>2
  <2> QED
    BY <1>5, <1>6, <2>1, <2>2, <2>3
<1>9. p.covered \subseteq 0 .. end - 1
  BY <1>5, <1>6 DEF PlayerGood, InHand
<1> QED
  BY <1>5, <1>6, <1>8, <1>9

LEMMA EnterLoop ==
    ASSUME HeadsFit, NEW p, PlayerType(p), p.partial = FALSE, Whole(p), SegLen["loop"] > 0,
           NEW e, e = enter_segment(p, "loop")
    PROVE  PlayerType(e) /\ e.partial = FALSE /\ InHand(e)
<1>1. PICK seg \in Segment : seg = "loop"
  BY DEF Segment
<1>2. SegLen[seg] > 0 /\ e = enter_segment(p, seg)
  BY <1>1
<1> QED
  BY <1>2, EnterGood

LEMMA RoundGood ==
    ASSUME HeadsFit, NEW m, PlayerGood(m), m.state # "stopped", NEW target \in Nat,
           NEW o, o = Round(m, target)
    PROVE  PlayerGood(o.m) /\ (o.again => o.m.state # "stopped")
<1>1. PICK p : p = pump_to_mixer(Refilled(m), target)
  OBVIOUS
<1>2. PlayerGood(p) /\ p.state # "stopped"
  <2>1. PICK r : r = Refilled(m)
    OBVIOUS
  <2>2. PlayerGood(r) /\ r.state # "stopped" /\ p = pump_to_mixer(r, target)
    BY <1>1, <2>1, RefillGood
  <2> QED
    BY <2>2, PumpGood
<1>3. CASE ~segment_exhausted(m, p)
  <2>1. o = [m |-> p, again |-> FALSE]
    BY <1>1, <1>3 DEF Round
  <2> QED
    BY <1>2, <2>1
<1>4. CASE segment_exhausted(m, p)
  <2>1. p.covered = 0 .. SegLen[p.segment] - 1
    BY <1>1, <1>4, ExhaustedWhole
  <2>2. PlayerType(p) /\ p.partial = FALSE
    BY <1>2 DEF PlayerGood
  <2>3. CASE SegLen["loop"] > 0
    <3>1. PICK e : e = enter_segment(p, "loop")
      OBVIOUS
    <3>2. PlayerType(e) /\ e.partial = FALSE /\ InHand(e)
      BY <2>1, <2>2, <2>3, <3>1, EnterLoop DEF Whole
    <3>3. PICK n : n = [e EXCEPT !.state = "loop"]
      OBVIOUS
    <3>4. o.m = n /\ o.again = TRUE
      BY <1>1, <1>4, <2>3, <3>1, <3>3 DEF Round
    <3>5. /\ DOMAIN n = PlayerFields /\ n.state = "loop" /\ n.segment = e.segment
          /\ n.offset = e.offset /\ n.pinned = e.pinned /\ n.buf = e.buf /\ n.ring = e.ring
          /\ n.covered = e.covered /\ n.partial = e.partial
      BY <3>2, <3>3 DEF PlayerType, PlayerFields
    <3>6. PlayerGood(n)
      BY <3>2, <3>5 DEF PlayerGood, PlayerType, InHand
    <3> QED
      BY <3>4, <3>5, <3>6
  <2>4. CASE ~(SegLen["loop"] > 0)
    <3>1. PICK e : e = music_stop(p)
      OBVIOUS
    <3>2. PlayerGood(e) /\ e.state = "stopped" /\ e.segment = "none"
      BY <2>2, <3>1, StopGood
    <3>3. PICK n : n = [e EXCEPT !.partial = @ \/ p.covered # 0 .. SegLen[p.segment] - 1]
      OBVIOUS
    <3>4. o.m = n /\ o.again = FALSE
      BY <1>1, <1>4, <2>4, <3>1, <3>3 DEF Round
    <3>5. /\ DOMAIN n = PlayerFields /\ n.state = e.state /\ n.segment = e.segment
          /\ n.offset = e.offset /\ n.pinned = e.pinned /\ n.buf = e.buf /\ n.ring = e.ring
      BY <3>2, <3>3 DEF PlayerGood, PlayerType, PlayerFields
    <3>6. n.partial = FALSE
      <4>1. n.partial = (e.partial \/ p.covered # 0 .. SegLen[p.segment] - 1)
        BY <3>2, <3>3 DEF PlayerGood, PlayerType, PlayerFields
      <4> QED
        BY <2>1, <3>2, <4>1 DEF PlayerGood
    <3>7. PlayerGood(n)
      BY <3>2, <3>5, <3>6 DEF PlayerGood, PlayerType
    <3> QED
      BY <3>4, <3>7
  <2> QED
    BY <2>3, <2>4
<1> QED
  BY <1>3, <1>4

\* A change of the state alone, or of what the mixer still holds.
LEMMA SameSegmentGood ==
    ASSUME NEW m, PlayerGood(m), NEW n, DOMAIN n = PlayerFields,
           n.segment = m.segment, n.offset = m.offset, n.pinned = m.pinned, n.buf = m.buf,
           n.covered = m.covered, n.partial = m.partial, n.ring \in Seq(Sample),
           (n.state = "stopped") <=> (m.state = "stopped")
    PROVE  PlayerGood(n)
<1>1. PlayerType(n) /\ n.partial = FALSE
  BY DEF PlayerGood, PlayerType
<1>2. InHand(m) => InHand(n)
  BY DEF InHand
<1> QED
  BY <1>1, <1>2 DEF PlayerGood

LEMMA PlayerInitGood == PlayerInit => PlayerGood(mp)
  BY PlayerAssumption DEF PlayerInit, Idle, PlayerGood, PlayerType, PlayerFields

LEMMA UpdateGood ==
    ASSUME HeadsFit, PlayerGood(mp), music_update PROVE PlayerGood(mp')
<1>1. mp.state # "stopped" /\ Target > 0
  BY DEF music_update
<1>2. Target \in Nat
  <2>1. PICK fill \in Nat : fill = Len(mp.ring)
    BY DEF PlayerGood, PlayerType
  <2>2. PICK cap \in Int : cap = IF MaxFill \in 1 .. RingFrames - 1 THEN MaxFill ELSE RingFrames
    BY PlayerAssumption
  <2>3. Target = Min({Max({0, cap - fill}), StreamFrames})
    BY <2>1, <2>2 DEF Target
  <2>4. Max({0, cap - fill}) \in Int
    BY <2>2, MaxOfTwo
  <2>5. Target \in Int
    BY <2>3, <2>4, MinOfTwo, PlayerAssumption
  <2> QED
    BY <1>1, <2>5
<1>3. PICK target \in Nat : target = Target
  BY <1>2
<1>4. PICK one : /\ one = Round(mp, target)
                 /\ mp' = IF one.again THEN Round(one.m, target).m ELSE one.m
  BY <1>3 DEF music_update
<1>5. PlayerGood(one.m) /\ (one.again => one.m.state # "stopped")
  BY <1>1, <1>4, RoundGood
<1>6. CASE one.again
  <2>1. PICK m : m = one.m
    OBVIOUS
  <2>2. PICK two : two = Round(m, target)
    OBVIOUS
  <2>3. PlayerGood(m) /\ m.state # "stopped" /\ mp' = two.m
    BY <1>4, <1>5, <1>6, <2>1, <2>2
  <2>4. PlayerGood(two.m)
    BY <2>2, <2>3, RoundGood
  <2> QED
    BY <2>3, <2>4
<1> QED
  BY <1>4, <1>5, <1>6

LEMMA PlayGood ==
    ASSUME HeadsFit, PlayerGood(mp), music_play PROVE PlayerGood(mp')
<1>1. PICK seg \in Segment : seg = IF SegLen["intro"] > 0 THEN "intro" ELSE "loop"
  BY DEF Segment
<1>2. SegLen[seg] > 0
  BY <1>1, PlayerAssumption DEF HeadsFit
<1>3. PICK e : e = enter_segment(mp, seg)
  OBVIOUS
<1>4. mp.state = "stopped" /\ mp' = [e EXCEPT !.state = seg, !.ring = <<>>]
  BY <1>1, <1>3 DEF music_play
<1>5. PlayerType(mp) /\ mp.partial = FALSE /\ mp.segment = "none"
  BY <1>4 DEF PlayerGood
<1>6. PlayerType(e) /\ e.partial = FALSE /\ InHand(e)
  BY <1>2, <1>3, <1>5, EnterGood
<1>7. PICK n : n = mp'
  OBVIOUS
<1>8. /\ DOMAIN n = PlayerFields /\ n.state = seg /\ n.segment = e.segment
      /\ n.offset = e.offset /\ n.pinned = e.pinned /\ n.buf = e.buf /\ n.ring = <<>>
      /\ n.covered = e.covered /\ n.partial = e.partial
  BY <1>4, <1>6, <1>7 DEF PlayerType, PlayerFields
<1>9. seg # "stopped"
  BY DEF Segment
<1>10. PlayerGood(n)
  BY <1>6, <1>8, <1>9 DEF PlayerGood, PlayerType, InHand
<1> QED
  BY <1>7, <1>10

LEMMA PlayerNextGood ==
    ASSUME HeadsFit, PlayerGood(mp), [PlayerNext]_mpvars PROVE PlayerGood(mp')
<1>1. DOMAIN mp = PlayerFields /\ mp.ring \in Seq(Sample)
  BY DEF PlayerGood, PlayerType
<1>2. CASE music_pause
  <2>1. PICK n : n = mp'
    OBVIOUS
  <2>2. n = [mp EXCEPT !.state = "paused"] /\ mp.state # "stopped"
    BY <1>2, <2>1 DEF music_pause
  <2>3. PlayerGood(n)
    BY <1>1, <2>2, SameSegmentGood DEF PlayerFields
  <2> QED
    BY <2>1, <2>3
<1>3. CASE music_resume
  <2>1. PICK n : n = mp'
    OBVIOUS
  <2>2. n = [mp EXCEPT !.state = mp.segment] /\ mp.state = "paused"
    BY <1>3, <2>1 DEF music_resume
  <2>3. mp.segment # "stopped"
    BY <2>2 DEF PlayerGood, InHand, Segment
  <2>4. PlayerGood(n)
    BY <1>1, <2>2, <2>3, SameSegmentGood DEF PlayerFields
  <2> QED
    BY <2>1, <2>4
<1>4. CASE Stop
  <2>1. PICK n : n = mp'
    OBVIOUS
  <2>2. n = music_stop(mp) /\ PlayerType(mp) /\ mp.partial = FALSE
    BY <1>4, <2>1 DEF Stop, PlayerGood
  <2> QED
    BY <2>1, <2>2, StopGood
<1>5. CASE PlayFrames
  <2>1. PICK l \in 1 .. Len(mp.ring) : mp' = [mp EXCEPT !.ring = SubSeq(@, l + 1, Len(@))]
    BY <1>5 DEF PlayFrames
  <2>2. PICK p, q : IsCut(mp.ring, l, p, q)
    BY DEF IsCut
  <2>3. l \in 0 .. Len(mp.ring)
    BY <1>1
  <2>4. q \in Seq(Sample) /\ q = SubSeq(mp.ring, l + 1, Len(mp.ring))
    <3>1. q \in Seq(Sample)
      BY <1>1, <2>2, <2>3, CutFacts
    <3> QED
      BY <2>2, <3>1 DEF IsCut
  <2>5. PICK n : n = mp'
    OBVIOUS
  <2>6. n = [mp EXCEPT !.ring = q]
    BY <1>1, <2>1, <2>4, <2>5
  <2>7. PlayerGood(n)
    BY <1>1, <2>4, <2>6, SameSegmentGood DEF PlayerFields
  <2> QED
    BY <2>5, <2>7
<1>6. CASE UNCHANGED mpvars
  BY <1>6 DEF mpvars
<1> QED
  BY <1>2, <1>3, <1>4, <1>5, <1>6, UpdateGood, PlayGood DEF PlayerNext

-----------------------------------------------------------------------------
(* The run. *)

\* A part that is not looked at does not change.
LEMMA PartSteps ==
    ASSUME [Next]_vars
    PROVE  /\ [AudioNext]_avars /\ [MeterNext]_mtvars
           /\ [PlayerNext]_mpvars /\ [BridgeNext]_bridgevars
  BY DEF Next, vars, Service, Player

\* However the overlay and the service thread interleave, the meter's count is the
\* number of holds as long as no two of their updates have collided.
THEOREM MeterStaysHeld == Spec => []MeterHeld
<1>1. Init => MeterInv
  BY MeterInitInv DEF Init
<1>2. MeterInv /\ [Next]_vars => MeterInv'
  BY MeterNextInv, PartSteps
<1>3. MeterInv => MeterHeld
  BY DEF MeterInv
<1> QED
  BY <1>1, <1>2, <1>3, PTL DEF Spec

\* Whatever lengths a guest passes and whatever the service answers, a request reads
\* what its call has staged, success is told for an answer that accepts only, and
\* the calls are installed whole or not at all.
THEOREM AudioCallsStayExact == UndoneWhole => (Spec => []AudioCallsExact)
<1> SUFFICES ASSUME UndoneWhole PROVE Spec => []AudioCallsExact
  OBVIOUS
<1>1. Init => BridgeInv
  BY BridgeInitInv DEF Init
<1>2. BridgeInv /\ [Next]_vars => BridgeInv'
  BY BridgeNextInv, PartSteps
<1> QED
  BY <1>1, <1>2, BridgeExact, PTL DEF Spec

\* Whatever guests ask of the service and whenever their VMs end: while no request
\* has left its creator behind (clean), the count of an object is the number of
\* its holders, and a voice's slot, track, channel and sync flag always agree.
THEOREM ServiceStaysExact == Spec => []ServiceExact
<1>1. Init => ServiceInv /\ MeterInv
  BY InitInv, MeterInitInv DEF Init
<1>2. ServiceInv /\ MeterInv /\ [Next]_vars => ServiceInv' /\ MeterInv'
  BY ServiceNextInv, MeterNextInv, PartSteps
<1>3. ServiceInv /\ MeterInv => ServiceExact
  BY ServiceRefs, ServiceVoices DEF ServiceExact, MeterInv
<1> QED
  BY <1>1, <1>2, <1>3, PTL DEF Spec

\* While clean, what a playing voice or player holds is an object of the pool, never
\* one that was freed or whose slot another object has taken since.
THEOREM PlayingStaysAlive == Spec => [](AudioClean => PlayingIsAlive)
<1>1. Init => ServiceInv
  BY InitInv DEF Init
<1>2. ServiceInv /\ [Next]_vars => ServiceInv'
  BY ServiceNextInv, PartSteps
<1>3. ServiceInv => (AudioClean => PlayingIsAlive)
  BY ServiceAlive DEF AudioClean
<1> QED
  BY <1>1, <1>2, <1>3, PTL DEF Spec

\* However the samples are read, buffered, pumped, rendered, paused and stopped, the
\* player leaves a segment only when all of it was handed to the mixer, and nothing
\* that is not in it; if no segment is shorter than the head primed from it.
THEOREM SegmentsStayComplete == HeadsFit => (Spec => []SegmentsComplete)
<1> SUFFICES ASSUME HeadsFit PROVE Spec => []SegmentsComplete
  OBVIOUS
<1>1. Init => PlayerGood(mp)
  BY PlayerInitGood DEF Init
<1>2. PlayerGood(mp) /\ [Next]_vars => PlayerGood(mp)'
  BY PlayerNextGood, PartSteps
<1>3. PlayerGood(mp) => SegmentsComplete
  BY DEF PlayerGood, SegmentsComplete
<1> QED
  BY <1>1, <1>2, <1>3, PTL DEF Spec
=============================================================================
