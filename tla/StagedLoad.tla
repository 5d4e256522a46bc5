----------------------------- MODULE StagedLoad -----------------------------
(***************************************************************************)
(* vm_host_audio.c and audio_service.c around the channel: the guest's PCM *)
(* is copied into one shared staging buffer, a REQ_AUDIO_LOAD_STAGED call  *)
(* is made, and the service copies the staging buffer into a pool object.  *)
(* audio_lock is held from the staging write to the end of the call, so    *)
(* however many VMs there are one exchange runs at a time: the lock is     *)
(* free exactly when rpc = "idle".                                         *)
(***************************************************************************)
EXTENDS ServiceChannel, Integers

NotALoad == -1

VARIABLES
    staging,    \* whose data the staging buffer holds (a call, 0: nobody)
    object      \* per call, whose data its pool object holds (0: none yet)

svars == <<vars, staging, object>>

StagedInit ==
    /\ Init
    /\ staging = 0
    /\ object = [c \in 1 .. MaxCalls |-> NotALoad]

\* Mutant: the staging buffer is written before audio_lock is taken.
LoadStart_Unlocked ==
    \/ calls < MaxCalls /\ CallStart /\ staging' = calls' /\ object' = [object EXCEPT ![calls'] = 0]
    \/ rpc # "idle" /\ calls < MaxCalls /\ staging' = calls + 1
       /\ UNCHANGED <<vars, object>>

\* handle_load_sample / load_wav_to_pool: under audio_lock, write the staging
\* buffer, then call.
LoadStart ==
    /\ calls < MaxCalls
    /\ CallStart
    /\ staging' = calls'
    /\ object' = [object EXCEPT ![calls'] = 0]

\* handle_one; in case REQ_AUDIO_LOAD_STAGED: copy staging into a new object.
LoadHandle ==
    /\ ProviderHandle
    /\ object' = IF object[pmsg.call] = NotALoad THEN object
                 ELSE [object EXCEPT ![pmsg.call] = staging]
    /\ UNCHANGED staging

ProviderOther ==
    ProviderPoll \/ ProviderRespond \/ ProviderNotify \/ ProviderWait \/ ProviderWaitOver

\* The channel's own steps, and the posts that carry no load.
OtherStep ==
    /\ RequesterStep \/ RequesterChoice \/ ProviderOther
    /\ UNCHANGED <<staging, object>>

StagedNext == LoadStart \/ LoadHandle \/ OtherStep

StagedSpec ==
    /\ StagedInit /\ [][StagedNext]_svars
    /\ WF_svars(RequesterStep /\ UNCHANGED <<staging, object>>)
    /\ WF_svars(LoadHandle \/ (ProviderOther /\ UNCHANGED <<staging, object>>))

\* A load the guest is told succeeded is the load of its own PCM: no other
\* exchange, late or concurrent, can put its data into that object.
SuccessIsOwnData ==
    calls < SeqMod /\ result.ok => object[result.own] \in {NotALoad, result.own}

\* channel_msg.h:64-68 and vm_host_audio.c:28-36: an exchange is atomic, so
\* every object ever made for a call holds the data that call staged.
LoadedIsStaged ==
    calls < MaxCalls =>
        \A c \in 1 .. MaxCalls : object[c] \in {NotALoad, 0, c}
=============================================================================
