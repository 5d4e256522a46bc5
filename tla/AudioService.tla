---------------------------- MODULE AudioService ----------------------------
(***************************************************************************)
(* src/src/audio/audio_service.c with the voice arbiter                    *)
(* (audio_arbiter.c) and the pool: every request handle_one takes from the *)
(* channel, the end of audio_service_process (reaping) and rendering, all  *)
(* on the service thread; at the end, the band meter. SET_GAIN and         *)
(* GET_LEVELS change nothing that is kept here.                            *)
(*                                                                         *)
(* Guests are programs: a request may carry any handle. frames[t] counts   *)
(* what the mixer channel of t still holds of a sample or of fed PCM; what *)
(* a music player puts there is MusicPlayer's concern.                     *)
(***************************************************************************)
EXTENDS Integers, FiniteSets, Sequences, SequencesExt, FiniteSetsExt

-----------------------------------------------------------------------------
(***************************************************************************)
(* src/src/audio/audio_pool.c: reference-counted PCM objects made of       *)
(* chained fixed-size blocks, named by handles that carry the generation of *)
(* their slot. The pool is one value; each operator returns the pool after *)
(* the call. A handle is <<slot, generation>> and NoObject is the reserved *)
(* handle 0. Sizes and offsets count frames; the contents of the blocks are *)
(* left out (StagedLoad is about them).                                    *)
(***************************************************************************)

CONSTANTS MaxObjects,   \* AUDIO_POOL_MAX_OBJECTS
          BlockCount,   \* blocks in the region
          BlockSize,    \* AUDIO_POOL_BLOCK_SIZE
          GenMod        \* generations are counted modulo GenMod (2^16)

ASSUME PoolAssumption ==
    /\ MaxObjects \in Nat \ {0} /\ BlockCount \in Nat \ {0}
    /\ BlockSize \in Nat \ {0} /\ GenMod \in Nat /\ GenMod > 2

ObjSlot == 0 .. MaxObjects - 1
Block == 0 .. BlockCount - 1
Generation == 1 .. GenMod - 1
NoObject == <<>>
ObjHandle == ObjSlot \X Generation

\* A generation is bumped and never becomes the reserved 0.
NextGen(g, mod) == IF (g + 1) % mod = 0 THEN 1 ELSE (g + 1) % mod

NoObj == [in_use |-> FALSE, chain |-> <<>>, size |-> 0, refs |-> 0, gen |-> 0,
          owner |-> 0, rate |-> 0]

audio_pool_init ==
    [objects |-> [s \in ObjSlot |-> NoObj], gens |-> [s \in ObjSlot |-> 1],
     used |-> {}, free |-> BlockCount]

resolve(p, h) ==
    h # NoObject /\ p.objects[h[1]].in_use /\ p.objects[h[1]].gen = h[2]

audio_pool_object_size(p, h) == IF resolve(p, h) THEN p.objects[h[1]].size ELSE 0
audio_pool_object_sample_rate(p, h) == IF resolve(p, h) THEN p.objects[h[1]].rate ELSE 0

\* The block map and the free count are updated block by block.
free_chain(p, chain) ==
    LET gone == Range(chain) \cap p.used
    IN  [p EXCEPT !.used = @ \ gone, !.free = @ + Cardinality(gone)]

\* The slots and blocks a new object may get; the first free one is taken.
find_free_slot(p) == {s \in ObjSlot : ~p.objects[s].in_use}

BlocksFor(size) ==
    LET need == (size + BlockSize - 1) \div BlockSize
    IN  IF need = 0 THEN 1 ELSE need

\* The chain is built from the clear bits of the map, lowest first.
alloc_chain(p, need) ==
    LET clear == Block \ p.used
    IN  [k \in 1 .. need |-> CHOOSE b \in clear : Cardinality({c \in clear : c < b}) = k - 1]

audio_pool_alloc_with_rate(p, size, owner, rate) ==
    LET need == BlocksFor(size)
        slot == Min(find_free_slot(p))
        chain == alloc_chain(p, need)
    IN  IF need > p.free THEN [res |-> "NO_SPACE", pool |-> p]
        ELSE IF find_free_slot(p) = {} THEN [res |-> "NO_OBJECTS", pool |-> p]
        ELSE [res |-> "ok", handle |-> <<slot, p.gens[slot]>>,
              pool |-> [p EXCEPT
                  !.objects[slot] = [in_use |-> TRUE, chain |-> chain, size |-> size,
                                     refs |-> 1, gen |-> p.gens[slot],
                                     owner |-> owner, rate |-> rate],
                  !.used = @ \cup Range(chain),
                  !.free = @ - need]]

audio_pool_alloc(p, size, owner) == audio_pool_alloc_with_rate(p, size, owner, 0)

free_object(p, slot) ==
    [free_chain(p, p.objects[slot].chain) EXCEPT
        !.gens[slot] = NextGen(@, GenMod), !.objects[slot] = NoObj]

\* Drop one reference of a live slot, freeing the object with the last one.
DropRef(p, slot) ==
    IF p.objects[slot].refs <= 1 THEN free_object(p, slot)
    ELSE [p EXCEPT !.objects[slot].refs = @ - 1]

audio_pool_ref(p, h) ==
    IF resolve(p, h) THEN [p EXCEPT !.objects[h[1]].refs = @ + 1] ELSE p

audio_pool_unref(p, h) == IF resolve(p, h) THEN DropRef(p, h[1]) ELSE p

Owned(p, vm) == {s \in ObjSlot : p.objects[s].in_use /\ p.objects[s].owner = vm}

audio_pool_sweep_vm(p, vm) ==
    FoldSet(LAMBDA s, q : DropRef(q, s), p, Owned(p, vm))

\* How many frames a read or write of n at offset covers: clamped to the
\* object, and ending where the chain ends.
seek_block(p, slot, offset) == offset \div BlockSize + 1

Copied(p, h, offset, n) ==
    LET o == p.objects[h[1]]
        inChain == Len(o.chain) * BlockSize - offset
    IN  IF offset >= o.size \/ seek_block(p, h[1], offset) > Len(o.chain) THEN 0
        ELSE Min({n, o.size - offset, inChain})

-----------------------------------------------------------------------------
\* Every block is free or in exactly one object's chain, and the cached free
\* count is exact, whatever sequence of loads, frees and sweeps came before.
BlocksExact(p) ==
    /\ \A s \in ObjSlot : /\ Range(p.objects[s].chain) \subseteq p.used
                          /\ IsInjective(p.objects[s].chain)
                          /\ p.objects[s].in_use =>
                                Len(p.objects[s].chain) * BlockSize >= p.objects[s].size
    /\ \A s, t \in ObjSlot :
          s # t => Range(p.objects[s].chain) \cap Range(p.objects[t].chain) = {}
    /\ p.used = UNION {Range(p.objects[s].chain) : s \in ObjSlot}
    /\ p.free = BlockCount - Cardinality(p.used)

-----------------------------------------------------------------------------
CONSTANTS Owner,          \* the VMs that make requests
          Streamers,      \* those that ask for music and streams (bound)
          MaxTracks,      \* arbiter tracks = mixer channels
          MaxMusicObjs,   \* MUSIC_MAX_OBJECTS
          MaxMusic,       \* AUDIO_SERVICE_MAX_MUSIC
          ChannelFrames,  \* frames a mixer channel holds
          Sizes, Rates,   \* what guests load
          VoiceGenMod,    \* generations of tracks and of music handles (2^16, 2^15)
          FreeOnce        \* TRUE: guests free an object they created once

ASSUME ServiceAssumption ==
    /\ MaxTracks \in Nat /\ MaxMusicObjs \in Nat /\ MaxMusic \in Nat
    /\ ChannelFrames \in Nat /\ Sizes \subseteq Nat
    /\ VoiceGenMod \in Nat /\ VoiceGenMod > 1

Track == 0 .. MaxTracks - 1
MusicSlot == 0 .. MaxMusic - 1
MusicObjSlot == 0 .. MaxMusicObjs - 1
VoiceGen == 1 .. VoiceGenMod - 1
Voice == Track \X VoiceGen
MusicHandle == MusicObjSlot \X VoiceGen

VARIABLES pool,
          tracks,     \* Track -> [active, object, kind, owner]
          tgens,      \* generations of the tracks
          channels,   \* Track -> [active, frames, rate] of the mixer
          mobjs,      \* music_objs: [in_use, intro, loop, owner]
          mgens,      \* music_gen
          mslots,     \* music_slots: [in_use, track, kind, loop]
          fmvSync,    \* fmv_sync_active
          created,    \* slots whose creator still has its reference
          clean       \* no reference was dropped that its dropper did not hold

avars == <<pool, tracks, tgens, channels, mobjs, mgens, mslots, fmvSync,
           created, clean>>
voicevars == <<tracks, tgens, channels, mslots, fmvSync>>

IdleTrack == [active |-> FALSE, object |-> NoObject, kind |-> "none", owner |-> 0]
IdleMusic == [in_use |-> FALSE, track |-> 0, kind |-> "none", loop |-> NoObject]
IdleMusicObj == [in_use |-> FALSE, intro |-> NoObject, loop |-> NoObject, owner |-> 0]
IdleChannel == [active |-> FALSE, frames |-> 0, rate |-> 0]

\* audio_service_create; the track, channel and table sizes are constants.
AudioInit ==
    /\ pool = audio_pool_init
    /\ tracks = [t \in Track |-> IdleTrack]
    /\ tgens = [t \in Track |-> 1]
    /\ channels = [t \in Track |-> IdleChannel]
    /\ mobjs = [m \in MusicObjSlot |-> IdleMusicObj]
    /\ mgens = [m \in MusicObjSlot |-> 1]
    /\ mslots = [i \in MusicSlot |-> IdleMusic]
    /\ fmvSync = FALSE
    /\ created = {} /\ clean = TRUE

-----------------------------------------------------------------------------
\* The voice state as one value, so that several stops compose.
VoiceState == [pool |-> pool, tracks |-> tracks, tgens |-> tgens,
               channels |-> channels, mslots |-> mslots, fmvSync |-> fmvSync]

SetVoiceState(v) ==
    /\ pool' = v.pool /\ tracks' = v.tracks /\ tgens' = v.tgens
    /\ channels' = v.channels /\ mslots' = v.mslots /\ fmvSync' = v.fmvSync

voice_valid(h) == tracks[h[1]].active /\ tgens[h[1]] = h[2]
resolve_music(h) == mobjs[h[1]].in_use /\ mgens[h[1]] = h[2]

find_free_track == {t \in Track : ~tracks[t].active}
find_free_music_slot == {i \in MusicSlot : ~mslots[i].in_use}
music_slot_for_track(v, t) == {i \in MusicSlot : v.mslots[i].in_use /\ v.mslots[i].track = t}

\* mixer_channel_reset keeps the source rate.
ResetChannel(ch) == [active |-> FALSE, frames |-> 0, rate |-> ch.rate]

\* mixer_write_channel overwrites the oldest frames when the ring is full.
FillChannel(ch, n) == [ch EXCEPT !.frames = Min({@ + n, ChannelFrames})]

Claim(v, t, object, kind, owner) ==
    [v EXCEPT !.tracks[t] = [active |-> TRUE, object |-> object, kind |-> kind, owner |-> owner]]

\* svc_sink_start for a pool sample. An empty object is declined.
StartSfx(v, t, h) ==
    LET size == audio_pool_object_size(v.pool, h)
    IN  [v EXCEPT !.channels[t] =
            [active |-> TRUE, frames |-> Min({Copied(v.pool, h, 0, size), ChannelFrames}),
             rate |-> audio_pool_object_sample_rate(v.pool, h)]]

\* svc_sink_start for a voice with a music player (file, FMV or pool objects).
StartMusic(v, t, i, kind, loop) ==
    [v EXCEPT !.mslots[i] = [in_use |-> TRUE, track |-> t, kind |-> kind, loop |-> loop],
              !.channels[t] = [active |-> TRUE, frames |-> 0, rate |-> @.rate],
              !.pool = audio_pool_ref(@, loop),
              !.fmvSync = @ \/ kind = "fmv"]

\* svc_sink_start for a guest-fed PCM stream: no music slot.
StartPcm(v, t, rate) ==
    [v EXCEPT !.channels[t] = [active |-> TRUE, frames |-> 0, rate |-> rate]]

svc_sink_stop(v, t) ==
    LET ms == music_slot_for_track(v, t)
    IN  [v EXCEPT
            !.pool = FoldSet(LAMBDA i, p : audio_pool_unref(p, v.mslots[i].loop), @, ms),
            !.mslots = [i \in MusicSlot |-> IF i \in ms THEN IdleMusic ELSE @[i]],
            !.fmvSync = @ /\ \A i \in ms : v.mslots[i].kind # "fmv",
            !.channels[t] = ResetChannel(@)]

stop_track(v, t) ==
    LET s == svc_sink_stop(v, t)
    IN  [s EXCEPT !.pool = audio_pool_unref(@, v.tracks[t].object),
                  !.tgens[t] = NextGen(@, VoiceGenMod),
                  !.tracks[t] = IdleTrack]

StopAll(v, ts) == FoldSet(LAMBDA t, w : stop_track(w, t), v, ts)

-----------------------------------------------------------------------------
\* REQ_AUDIO_POOL_ALLOC, LOAD_SAMPLE and LOAD_STAGED. A refused one changes nothing.
Load(size, owner, rate) ==
    LET r == audio_pool_alloc_with_rate(pool, size, owner, rate)
    IN  /\ r.res = "ok"
        /\ pool' = r.pool
        /\ created' = created \cup {r.handle[1]}
        /\ UNCHANGED <<voicevars, mobjs, mgens, clean>>

\* REQ_AUDIO_POOL_ALLOC and LOAD_SAMPLE may ask for no frames at all.
PoolAlloc == \E size \in Sizes \cup {0}, o \in Owner : Load(size, o, 0)
LoadStaged == \E size \in Sizes, o \in Owner, rate \in Rates : Load(size, o, rate)

\* REQ_AUDIO_POOL_FREE of a sample handle: whoever asks, one reference goes.
PoolFree ==
    \E h \in ObjHandle :
        /\ resolve(pool, h)
        /\ FreeOnce => h[1] \in created
        /\ pool' = audio_pool_unref(pool, h)
        /\ created' = created \ {h[1]}
        /\ clean' = (clean /\ h[1] \in created)
        /\ UNCHANGED <<voicevars, mobjs, mgens>>

\* REQ_AUDIO_POOL_FREE of a music handle.
FreeMusic ==
    \E h \in MusicHandle :
        /\ resolve_music(h)
        /\ pool' = audio_pool_unref(audio_pool_unref(pool, mobjs[h[1]].intro), mobjs[h[1]].loop)
        /\ mobjs' = [mobjs EXCEPT ![h[1]] = IdleMusicObj]
        /\ mgens' = [mgens EXCEPT ![h[1]] = NextGen(@, VoiceGenMod)]
        /\ UNCHANGED <<voicevars, created, clean>>

\* REQ_AUDIO_LOAD_MUSIC pairs an intro with an optional loop object.
LoadMusic ==
    \E intro \in ObjHandle, loop \in ObjHandle \cup {NoObject}, o \in Streamers :
        LET free == {m \in MusicObjSlot : ~mobjs[m].in_use}
        IN  /\ resolve(pool, intro)
            /\ loop # NoObject => resolve(pool, loop)
            /\ free # {}
            /\ pool' = audio_pool_ref(audio_pool_ref(pool, intro), loop)
            /\ mobjs' = [mobjs EXCEPT ![Min(free)] =
                            [in_use |-> TRUE, intro |-> intro, loop |-> loop, owner |-> o]]
            /\ UNCHANGED <<voicevars, mgens, created, clean>>

-----------------------------------------------------------------------------
\* Mutant: the reference taken before the sink declines is kept.
TriggerSfxDeclined_NoRollback(h) == audio_pool_ref(pool, h)

\* REQ_AUDIO_TRIGGER_SFX when the sink declines: the reference is rolled back.
TriggerSfxDeclined(h) == audio_pool_unref(audio_pool_ref(pool, h), h)

\* REQ_AUDIO_TRIGGER_SFX through audio_arbiter_play; full is a refusal.
TriggerSfx ==
    \E h \in ObjHandle, o \in Owner :
        LET t == Min(find_free_track)
            v == [VoiceState EXCEPT !.pool = audio_pool_ref(@, h)]
        IN  /\ resolve(pool, h)
            /\ find_free_track # {}
            /\ IF audio_pool_object_size(pool, h) = 0
               THEN pool' = TriggerSfxDeclined(h) /\ UNCHANGED voicevars
               ELSE SetVoiceState(Claim(StartSfx(v, t, h), t, h, "sfx", o))
            /\ UNCHANGED <<mobjs, mgens, created, clean>>

\* REQ_AUDIO_PLAY_MUSIC: the intro is the arbiter's object, the loop is held by the slot.
\* With no player slot the sink declines and the intro's reference is rolled back.
PlayMusic ==
    \E h \in MusicHandle, o \in Streamers :
        LET mo == mobjs[h[1]]
            t == Min(find_free_track)
            v == [VoiceState EXCEPT !.pool = audio_pool_ref(@, mo.intro)]
            sound == mo.loop = NoObject \/ resolve(pool, mo.loop)
        IN  /\ resolve_music(h)
            /\ resolve(pool, mo.intro)
            /\ find_free_track # {}
            /\ find_free_music_slot # {} /\ sound
            /\ SetVoiceState(Claim(StartMusic(v, t, Min(find_free_music_slot), "pool", mo.loop),
                                   t, mo.intro, "music", o))
            /\ UNCHANGED <<mobjs, mgens, created, clean>>

\* audio_arbiter_play_external for STREAM_WAV and FMV_OPEN. A file that does not open,
\* or no free player slot, leaves everything as it was.
PlayExternal(kind, o) ==
    LET t == Min(find_free_track)
    IN  /\ find_free_track # {} /\ find_free_music_slot # {}
        /\ SetVoiceState(Claim(StartMusic(VoiceState, t, Min(find_free_music_slot), kind, NoObject),
                               t, NoObject, "music", o))
        /\ UNCHANGED <<mobjs, mgens, created, clean>>

StreamWav == \E o \in Streamers : PlayExternal("file", o)

\* REQ_AUDIO_FMV_OPEN is the host's; it plays one clip at a time.
FmvOpen ==
    /\ \A i \in MusicSlot : mslots[i].kind # "fmv"
    /\ PlayExternal("fmv", 0)

\* REQ_AUDIO_PCM_STREAM_OPEN.
PcmOpen ==
    \E o \in Streamers, rate \in Rates :
        LET t == Min(find_free_track)
        IN  /\ find_free_track # {}
            /\ SetVoiceState(Claim(StartPcm(VoiceState, t, rate), t, NoObject, "music", o))
            /\ UNCHANGED <<mobjs, mgens, created, clean>>

\* REQ_AUDIO_PCM_STREAM_FEED takes what fits; the voice need not be a PCM stream.
PcmFeed ==
    \E h \in Voice, n \in Sizes :
        /\ voice_valid(h)
        /\ tracks[h[1]].kind = "music"
        /\ channels' = [channels EXCEPT ![h[1]] =
                          FillChannel(@, Min({n, ChannelFrames - @.frames}))]
        /\ UNCHANGED <<pool, tracks, tgens, mslots, fmvSync, mobjs, mgens, created, clean>>

\* REQ_AUDIO_VOICE_STOP, STOP_MUSIC, PCM_STREAM_CLOSE and FMV_CLOSE.
VoiceStop ==
    \E h \in Voice :
        /\ voice_valid(h)
        /\ SetVoiceState(stop_track(VoiceState, h[1]))
        /\ UNCHANGED <<mobjs, mgens, created, clean>>

-----------------------------------------------------------------------------
\* audio_arbiter_sweep_vm, then audio_pool_sweep_vm.
SweepState(vm) ==
    LET v == StopAll(VoiceState, {t \in Track : tracks[t].active /\ tracks[t].owner = vm})
    IN  [v EXCEPT !.pool = audio_pool_sweep_vm(@, vm)]

\* REQ_AUDIO_SWEEP_VM, posted when a VM is torn down. The pool sweep drops a
\* reference of every object the VM created, also when the VM gave it back already.
Sweep(vm) ==
    LET v == StopAll(VoiceState, {t \in Track : tracks[t].active /\ tracks[t].owner = vm})
    IN  /\ SetVoiceState(SweepState(vm))
        /\ created' = created \ Owned(v.pool, vm)
        /\ clean' = (clean /\ Owned(v.pool, vm) \subseteq created)
        /\ UNCHANGED <<mobjs, mgens>>

\* Mutant: a finished voice keeps its track.
Done_NotActive(t) == ~channels[t].active

\* svc_sink_is_done, asked about samples only.
Done(t) == channels[t].frames = 0

\* The end of audio_service_process: audio_arbiter_reap.
Reap ==
    /\ SetVoiceState(StopAll(VoiceState,
                             {t \in Track : tracks[t].active /\ tracks[t].kind = "sfx" /\ Done(t)}))
    /\ UNCHANGED <<mobjs, mgens, created, clean>>

\* audio_service_render: each running channel gives up a frame.
Render ==
    /\ channels' = [t \in Track |-> IF channels[t].active /\ channels[t].frames > 0
                                    THEN [channels[t] EXCEPT !.frames = @ - 1]
                                    ELSE channels[t]]
    /\ UNCHANGED <<pool, tracks, tgens, mslots, fmvSync, mobjs, mgens, created, clean>>

AudioNext ==
    \/ PoolAlloc \/ LoadStaged \/ PoolFree \/ FreeMusic \/ LoadMusic
    \/ TriggerSfx \/ PlayMusic \/ StreamWav \/ FmvOpen \/ PcmOpen \/ PcmFeed
    \/ VoiceStop \/ (\E vm \in Owner : Sweep(vm)) \/ Reap \/ Render

\* The service loop keeps processing and the output device keeps rendering.
AudioSpec == AudioInit /\ [][AudioNext]_avars /\ WF_avars(Reap) /\ WF_avars(Render)

-----------------------------------------------------------------------------
HeldBy(h, s) == h # NoObject /\ h[1] = s /\ resolve(pool, h)

\* References somebody can account for: the creator's, one per voice, one per
\* part of a music object, one per loop a player streams.
References(s) ==
    (IF s \in created THEN 1 ELSE 0)
    + Cardinality({t \in Track : tracks[t].active /\ HeldBy(tracks[t].object, s)})
    + Cardinality({m \in MusicObjSlot : mobjs[m].in_use /\ HeldBy(mobjs[m].intro, s)})
    + Cardinality({m \in MusicObjSlot : mobjs[m].in_use /\ HeldBy(mobjs[m].loop, s)})
    + Cardinality({i \in MusicSlot : mslots[i].in_use /\ HeldBy(mslots[i].loop, s)})

\* As long as nobody drops a reference he does not hold, every object's count is
\* exactly the references in existence (so it is freed with the last one, not
\* before and not never), across declined starts, shared objects and sweeps; and
\* every block is free or in one chain.
RefsExact ==
    /\ BlocksExact(pool)
    /\ clean => \A s \in ObjSlot : pool.objects[s].in_use \/ s \in created
                   => pool.objects[s].in_use /\ pool.objects[s].refs = References(s)

\* A player slot is taken exactly while an active music track streams through it;
\* the drift controller is armed exactly while the FMV voice is one of them; a
\* mixer channel runs exactly while a track owns it.
VoicesMatchSlots ==
    /\ \A i \in MusicSlot : mslots[i].in_use =>
          /\ tracks[mslots[i].track].active /\ tracks[mslots[i].track].kind = "music"
          /\ \A j \in MusicSlot : mslots[j].in_use /\ mslots[j].track = mslots[i].track => i = j
    /\ fmvSync <=> \E i \in MusicSlot : mslots[i].in_use /\ mslots[i].kind = "fmv"
    /\ \A t \in Track : channels[t].active = tracks[t].active

\* A one-shot sample gives its track back once it has been played.
SampleEnds ==
    \A t \in Track : tracks[t].active /\ tracks[t].kind = "sfx" ~> ~tracks[t].active

\* What audio_pool.h and audio_arbiter.h promise: what a voice plays exists.
PlayingIsAlive ==
    \A t \in Track : tracks[t].active /\ tracks[t].object # NoObject
                     => resolve(pool, tracks[t].object)

\* What channel_msg.h says of SWEEP_VM: a dead guest leaves nothing behind.
SweptOwnsNothing ==
    [][\A vm \in Owner : Sweep(vm) =>
          \A m \in MusicObjSlot : mobjs'[m].in_use => mobjs'[m].owner # vm]_avars

\* docs/audio-architecture.md: the source rate is per source; music is at the mixer's.
MusicAtNativeRate ==
    \A i \in MusicSlot : mslots[i].in_use => channels[mslots[i].track].rate = 0

AudioClean == clean

\* The state up to a renaming of generations: a stored handle is live or stale.
Age(h) == IF h = NoObject THEN h ELSE IF resolve(pool, h) THEN <<h[1], 1>> ELSE <<h[1], 0>>
AudioView ==
    <<[s \in ObjSlot |-> [pool.objects[s] EXCEPT !.gen = 0]], pool.used, pool.free,
      [t \in Track |-> [tracks[t] EXCEPT !.object = Age(@)]], tgens, channels, mgens,
      [m \in MusicObjSlot |-> [mobjs[m] EXCEPT !.intro = Age(@), !.loop = Age(@)]],
      [i \in MusicSlot |-> [mslots[i] EXCEPT !.loop = Age(@)]],
      fmvSync, created, clean>>

-----------------------------------------------------------------------------
(***************************************************************************)
(* The reference-counted band meter of audio_service.c:                    *)
(* REQ_AUDIO_FFT_ENABLE and the sweep of a dead VM on the service thread,  *)
(* and audio_service_fft_hold, which the FMV overlay calls on its own      *)
(* thread without a lock: its update of the count is a read and a write.   *)
(***************************************************************************)

CONSTANTS MeterVms,       \* VMs with an id below AUDIO_SERVICE_FFT_MAX_VMS
          MeterFarVms,    \* VMs beyond it, which are counted but not tracked
          HostHolds       \* holds of the overlay at a time (bound)

VARIABLES fftCount, fftOn,   \* fft_enable_count, fft_vm_on
          fftEnabled,        \* audio_fft_set_enabled
          hostPc, hostLoad,  \* the overlay inside fft_hold and what it read
          hosts, farHolds,   \* holds of the overlay and of untracked VMs
          raced              \* the count was written while the overlay was inside

mtvars == <<fftCount, fftOn, fftEnabled, hostPc, hostLoad, hosts, farHolds, raced>>

MeterInit ==
    /\ fftCount = 0 /\ fftOn = {} /\ fftEnabled = FALSE
    /\ hostPc = "out" /\ hostLoad = 0 /\ hosts = 0 /\ farHolds = [o \in MeterFarVms |-> 0]
    /\ raced = FALSE

Count(n) ==
    /\ fftCount' = n
    /\ fftEnabled' = (n > 0)
    /\ raced' = (raced \/ (n # fftCount /\ hostPc # "out"))
    /\ UNCHANGED <<hostPc, hostLoad, hosts>>

Less(n) == IF n > 0 THEN n - 1 ELSE n

\* One hold per tracked VM, however often it asks.
FftEnable(o) ==
    /\ Count(IF o \in fftOn THEN fftCount ELSE fftCount + 1)
    /\ fftOn' = fftOn \cup {o}
    /\ UNCHANGED farHolds

FftDisable(o) ==
    /\ Count(IF o \in fftOn THEN Less(fftCount) ELSE fftCount)
    /\ fftOn' = fftOn \ {o}
    /\ UNCHANGED farHolds

\* An untracked VM is trusted to balance its calls.
FftFar(o) ==
    /\ \/ farHolds[o] = 0 /\ Count(fftCount + 1) /\ farHolds' = [farHolds EXCEPT ![o] = 1]
       \/ farHolds[o] = 1 /\ Count(Less(fftCount)) /\ farHolds' = [farHolds EXCEPT ![o] = 0]
    /\ UNCHANGED fftOn

\* The end of audio_service_sweep_vm.
FftSweep(o) ==
    /\ o \in fftOn
    /\ Count(Less(fftCount))
    /\ fftOn' = fftOn \ {o}
    /\ UNCHANGED farHolds

HoldLoad ==
    /\ hostPc = "out"
    /\ \/ hosts < HostHolds /\ hostPc' = "on"
       \/ hosts > 0 /\ hostPc' = "off"
    /\ hostLoad' = fftCount
    /\ UNCHANGED <<fftCount, fftOn, fftEnabled, hosts, farHolds, raced>>

HoldStore ==
    /\ hostPc # "out"
    /\ fftCount' = IF hostPc = "on" THEN hostLoad + 1 ELSE Less(hostLoad)
    /\ fftEnabled' = (fftCount' > 0)
    /\ hosts' = IF hostPc = "on" THEN hosts + 1 ELSE hosts - 1
    /\ hostPc' = "out" /\ hostLoad' = 0
    /\ UNCHANGED <<fftOn, farHolds, raced>>

MeterNext ==
    \/ \E o \in MeterVms : FftEnable(o) \/ FftDisable(o) \/ FftSweep(o)
    \/ \E o \in MeterFarVms : FftFar(o)
    \/ HoldLoad \/ HoldStore

MeterSpec == MeterInit /\ [][MeterNext]_mtvars

Holds == Cardinality(fftOn) + hosts + Cardinality({o \in MeterFarVms : farHolds[o] = 1})

\* The meter's count is the number of holds, and the meter runs while there is
\* one: a VM's disable or death neither switches it off for another nor leaves it
\* on for nobody. It holds as long as no update of the two threads collided.
MeterHeld == ~raced => fftCount = Holds /\ (fftEnabled <=> Holds > 0)

\* audio_service.c:543-546 takes no lock since "the worst case is a one-frame
\* torn/stale byte": the count would have to survive the collisions too.
MeterHeldUnlocked == fftCount = Holds
=============================================================================
