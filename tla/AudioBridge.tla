----------------------------- MODULE AudioBridge -----------------------------
(***************************************************************************)
(* vm_host_audio.c: the SYS_AUDIO_* handlers of a guest, the calls of the  *)
(* host itself, and their installation. Each turns its arguments into one  *)
(* request to the audio service and the answer into a register. What goes  *)
(* on in the channel meanwhile is StagedLoad; here a call either fails or  *)
(* brings an answer.                                                       *)
(***************************************************************************)
EXTENDS Integers, Sequences, SequencesExt, FiniteSetsExt

CONSTANTS
    StagingCap,     \* g_staging_cap, in bytes; 0: no staging buffer
    RegBits,        \* width of a guest register
    Readable,       \* bytes the guest can read at the address it passes
    FileFrames,     \* frames that the WAV files hold
    Registrable,    \* audio calls the router accepts
    MaxLevels,      \* bands that fit a response
    MaxAudioCalls   \* bound

ASSUME AudioBridgeAssumption ==
    /\ StagingCap \in Nat /\ RegBits \in Nat /\ Readable \in Nat /\ MaxLevels \in Nat
    /\ MaxAudioCalls \in Nat /\ FileFrames \subseteq Nat

Word == 0 .. 2^RegBits - 1
FrameBytes == 4             \* a frame of int16 stereo
SampleBytes == 2
EIO == -5
EINVAL == -22

\* In the order they are registered.
AudioEcalls ==
    <<"LOAD_SAMPLE", "LOAD_MUSIC", "FREE", "TRIGGER_SFX", "PLAY_MUSIC", "STOP", "SET_GAIN",
      "GET_LEVELS", "FFT_ENABLE", "LOAD_WAV", "STREAM_WAV", "PCM_STREAM_OPEN",
      "PCM_STREAM_FEED", "PCM_STREAM_CLOSE">>

VARIABLES
    g_channel,      \* a channel is set
    router,         \* audio calls that reach a handler
    locked,         \* audio_lock is held
    g_staging,      \* bytes the last exchange put into the staging buffer
    request,        \* the last request: its type and the bytes the service reads from staging
    answer,         \* what the call brought: [ok, status, value]
    a0,             \* what the caller is told
    audiocalls

bridgevars == <<g_channel, router, locked, g_staging, request, answer, a0, audiocalls>>

NoRequest == [type |-> "none", reads |-> 0]
NoAnswer == [ok |-> FALSE, status |-> 0, value |-> 0]

\* A failed call, an answer that refuses, one that gives a handle or a count.
Answers == {NoAnswer} \cup [ok : {TRUE}, status : {0, 1}, value : {0, 1, 2}]

BridgeInit ==
    /\ g_channel = FALSE /\ router = {} /\ locked = FALSE /\ g_staging = 0
    /\ request = NoRequest /\ answer = NoAnswer /\ a0 = 0 /\ audiocalls = 0

-----------------------------------------------------------------------------
(* Installation *)

\* The calls unregistered when the k-th registration fails: those labels
\* f(k-1) .. f1 name. The label for STREAM_WAV names PCM_STREAM_OPEN, and so on.
RolledBack(k) ==
    LET Label(j) == IF j <= 10 THEN AudioEcalls[j] ELSE AudioEcalls[j + 1]
    IN  {Label(j) : j \in 1 .. k - 1}

vm_host_install_audio ==
    LET bad == {k \in DOMAIN AudioEcalls : AudioEcalls[k] \notin Registrable}
        k == Min(bad)
        before == {AudioEcalls[j] : j \in 1 .. k - 1}
    IN  /\ ~g_channel /\ router = {}
        /\ \/ bad = {} /\ g_channel' = TRUE /\ router' = ToSet(AudioEcalls)
           \/ bad # {} /\ g_channel' = FALSE /\ router' = before \ RolledBack(k)
        /\ UNCHANGED <<locked, g_staging, request, answer, a0, audiocalls>>

-----------------------------------------------------------------------------
(* One exchange, and the ways its answer is reported. *)

HandleOrZero(r) == IF r.ok /\ r.status = 0 THEN r.value ELSE 0
ZeroOrErrno(r) == IF ~r.ok THEN EIO ELSE IF r.status = 0 THEN 0 ELSE EINVAL
Nothing(r) == 0

\* audio_call: the lock is taken, the call made, the lock given back. reads is
\* what the service will read of the staging buffer.
audio_call(type, bytes, reads, Told(_)) ==
    /\ audiocalls < MaxAudioCalls /\ audiocalls' = audiocalls + 1
    /\ g_staging' = bytes /\ request' = [type |-> type, reads |-> reads]
    /\ \E r \in Answers : answer' = r /\ a0' = Told(r)
    /\ locked' = FALSE
    /\ UNCHANGED <<g_channel, router>>

\* A handler that gives up before the lock is taken.
GiveUp ==
    /\ audiocalls < MaxAudioCalls /\ audiocalls' = audiocalls + 1
    /\ request' = NoRequest /\ answer' = NoAnswer /\ a0' = 0
    /\ UNCHANGED <<g_channel, router, locked, g_staging>>

\* Calls that stage nothing.
Ecall(name) == name \in router /\ ~locked
Scalar(name, Told(_)) == Ecall(name) /\ audio_call(name, g_staging, 0, Told)

handle_free == Scalar("FREE", Nothing)
handle_trigger_sfx == Scalar("TRIGGER_SFX", HandleOrZero)
handle_play_music == Scalar("PLAY_MUSIC", HandleOrZero)
handle_stop == Scalar("STOP", ZeroOrErrno)
handle_set_gain == Scalar("SET_GAIN", ZeroOrErrno)
handle_load_music == Scalar("LOAD_MUSIC", HandleOrZero)
handle_pcm_stream_open == Scalar("PCM_STREAM_OPEN", HandleOrZero)
handle_pcm_stream_close == Scalar("PCM_STREAM_CLOSE", ZeroOrErrno)
handle_fft_enable == Scalar("FFT_ENABLE", Nothing)

\* The bands answered, but not more than the guest has room for; nothing is
\* written to a buffer it may not write.
handle_get_levels(want, writable) ==
    Scalar("GET_LEVELS", LAMBDA r :
        IF r.ok /\ (Min({r.value, want, MaxLevels}) <= writable) THEN Min({r.value, want, MaxLevels}) ELSE 0)

handle_load_sample(size) ==
    /\ Ecall("LOAD_SAMPLE")
    /\ \/ size \in 1 .. StagingCap /\ size <= Readable
          /\ audio_call("LOAD_STAGED", size, size, HandleOrZero)
       \/ (size \notin 1 .. StagingCap \/ size > Readable) /\ GiveUp

\* The product is taken in 64 bits.
FeedBytes_Narrow(count) == (count * FrameBytes) % 2^RegBits
FeedBytes(count) == count * FrameBytes

handle_pcm_stream_feed(count) ==
    LET bytes == FeedBytes(count)
    IN  /\ Ecall("PCM_STREAM_FEED")
        /\ \/ bytes \in 1 .. StagingCap /\ bytes <= Readable
              /\ audio_call("PCM_STREAM_FEED", bytes, count * FrameBytes, HandleOrZero)
           \/ (bytes \notin 1 .. StagingCap \/ bytes > Readable) /\ GiveUp

\* A WAV file, cut to what the staging buffer holds. An empty one is noticed
\* with the lock held.
load_wav_to_pool(frames) ==
    LET taken == Min({frames, StagingCap \div SampleBytes})
    IN  \/ StagingCap = 0 /\ GiveUp
        \/ StagingCap # 0 /\ taken = 0 /\ GiveUp
        \/ StagingCap # 0 /\ taken # 0
           /\ audio_call("LOAD_STAGED", taken * SampleBytes, taken * SampleBytes, HandleOrZero)

\* served: the path lies under /host, the root is set and the file parses.
handle_load_wav(served, frames) ==
    /\ Ecall("LOAD_WAV")
    /\ \/ served /\ load_wav_to_pool(frames)
       \/ ~served /\ GiveUp

\* The path is staged with its terminator.
handle_stream_wav(served, length) ==
    /\ Ecall("STREAM_WAV")
    /\ \/ served /\ length + 1 <= StagingCap
          /\ audio_call("STREAM_WAV", length + 1, length + 1, HandleOrZero)
       \/ ~(served /\ length + 1 <= StagingCap) /\ GiveUp

\* The host's own calls, which need only the channel.
HostCall(type, Told(_)) == g_channel /\ ~locked /\ audio_call(type, g_staging, 0, Told)
vm_host_audio_sweep_vm == HostCall("SWEEP_VM", Nothing)
vm_host_audio_fmv_open == HostCall("FMV_OPEN", HandleOrZero)
vm_host_audio_fmv_close == HostCall("FMV_CLOSE", Nothing)
vm_host_audio_sfx_trigger == HostCall("TRIGGER_SFX", HandleOrZero)
vm_host_audio_sfx_load(frames) == g_channel /\ ~locked /\ load_wav_to_pool(frames)

BridgeNext ==
    \/ vm_host_install_audio
    \/ handle_free \/ handle_trigger_sfx \/ handle_play_music \/ handle_stop \/ handle_set_gain
    \/ handle_load_music \/ handle_pcm_stream_open \/ handle_pcm_stream_close \/ handle_fft_enable
    \/ \E want \in {0, 1, MaxLevels + 1}, writable \in {0, MaxLevels} : handle_get_levels(want, writable)
    \/ \E size \in Word : handle_load_sample(size)
    \/ \E count \in Word : handle_pcm_stream_feed(count)
    \/ \E served \in BOOLEAN, frames \in FileFrames : handle_load_wav(served, frames)
    \/ \E served \in BOOLEAN, length \in {1, StagingCap - 1, StagingCap} : handle_stream_wav(served, length)
    \/ vm_host_audio_sweep_vm \/ vm_host_audio_fmv_open \/ vm_host_audio_fmv_close
    \/ vm_host_audio_sfx_trigger
    \/ \E frames \in FileFrames : vm_host_audio_sfx_load(frames)

BridgeSpec == BridgeInit /\ [][BridgeNext]_bridgevars

-----------------------------------------------------------------------------
\* What the service will read from the staging buffer was put there by the
\* same exchange, whatever counts the guest passes; the buffer is not overrun.
StagedCovers == request.reads <= g_staging /\ g_staging <= StagingCap

\* A guest that is given a handle, a count or a success is one whose request
\* the service accepted.
NoFalseSuccess ==
    a0 > 0 => answer.ok /\ (answer.status = 0 \/ request.type = "GET_LEVELS")

\* The lock is free whenever no exchange runs, and either every call reaches
\* its handler or none does.
InstalledWhole == ~locked /\ router = (IF g_channel THEN ToSet(AudioEcalls) ELSE {})

\* What the audio calls promise together.
AudioCallsExact == StagedCovers /\ NoFalseSuccess /\ InstalledWhole
=============================================================================
