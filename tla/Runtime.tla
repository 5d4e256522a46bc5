------------------------------ MODULE Runtime ------------------------------
(***************************************************************************)
(* The embedding API: mgapi_init brings a dozen subsystems up one after    *)
(* the other, any of them can fail, and mgapi_shutdown takes them down     *)
(* while three threads are about: the embedder's (which makes the calls),  *)
(* the worker (the tick body) and the audio thread.                        *)
(*   src/src/mgapi/mgapi_init.c   mgapi_init, mgapi_shutdown, mgapi_step,  *)
(*                                the tick body, cart reset                *)
(*   src/src/mgapi/vm_init.c      mgapi_vm_init, its mounts, dev probes    *)
(*   src/src/mgapi/audio_init.c   mgapi_audio_init and the audio thread    *)
(*   src/src/mgapi/psram_pool.c, cart_volume.c, l2_init.c                  *)
(*                                                                         *)
(* A call of mgapi_init is a walk through Stages, one step per stage; a    *)
(* stage that fails hands the subsystems to take down again to the same    *)
(* Release action mgapi_shutdown uses.  What a subsystem does inside is    *)
(* the other modules' matter; here it is up or it is not, and a thread     *)
(* that uses it needs it up.                                               *)
(***************************************************************************)
EXTENDS Integers, Sequences, FiniteSets, TLC

CONSTANTS
    MayFail,        \* the stages that may fail
    Port,           \* cfg->tcp_listen_port is not 0
    MaxInits,       \* bound: calls of mgapi_init
    MaxSteps,       \* bound: vblanks signalled by the embedder in all
    ProbeAnyTime,   \* the dev probes may be called while a tick is due
    HoldMs,         \* g_reset_hold_ms
    MsBits,         \* width of the millisecond clock
    MaxMs           \* bound: milliseconds that pass

ASSUME RuntimeAssumption ==
    /\ Port \in BOOLEAN /\ ProbeAnyTime \in BOOLEAN
    /\ MaxInits \in Nat /\ MaxSteps \in Nat /\ MaxMs \in Nat
    /\ MsBits \in Nat \ {0} /\ HoldMs \in 0 .. (2^MsBits - 1)

VARIABLES
    runtimeUp,      \* the subsystems that are up
    mounts,         \* names in the file bridge's mount table (process-global)
    g_initialized,
    initStage,      \* the stage mgapi_init is at; 0: no call under way
    releasing,      \* subsystems the embedder's call still has to take down
    result,         \* what the last call of mgapi_init returned
    tickPc,         \* where the worker thread is; "none" when there is none
    pending,        \* vblanks signalled and not yet ticked
    audioPc,        \* where the audio thread is; "none" when there is none
    probe,          \* the dev probe's VM: "none", "running", "left"
    clock,          \* host_platform_monotonic_ms, unbounded here
    g_reset_t_start_ms,
    resetAt,        \* ghost: the clock when the reset began; 0: none yet
    inits,          \* ghost: calls of mgapi_init so far
    steps           \* ghost: vblanks signalled so far

runtimevars == <<runtimeUp, mounts, g_initialized, initStage, releasing, result, tickPc,
    pending, audioPc, probe, clock, g_reset_t_start_ms, resetAt, inits, steps>>
resetvars == <<clock, g_reset_t_start_ms, resetAt>>
threadvars == <<tickPc, pending, audioPc, probe>>

-----------------------------------------------------------------------------
(* What init does, in order.  A stage brings `gets' up; if it fails and is  *)
(* fatal, `undo' names what is taken down, in that order.                    *)

\* MUTANT: the device is closed before the thread that writes to it is joined.
AudioShutdown_SinkFirst == <<"sink", "audioThread", "service", "channel">>

\* mgapi_audio_shutdown stops the thread before it closes what the thread uses.
AudioShutdown == <<"audioThread", "sink", "service", "channel">>

Memory == <<"psram", "window">>

\* fail_sys: the VM system only; then mgapi_init's own unwinding.
FailSys == <<"vm", "l2", "volume">> \o AudioShutdown \o Memory

Stage(gets, fatal, undo) == [gets |-> gets, fatal |-> fatal, undo |-> undo]

psram_pool_init == Stage("psram", TRUE, <<"window">>)

\* In mgapi_audio_init: the transport and the channel are taken down together.
service_channel_init == Stage("channel", TRUE, Memory)
audio_service_create == Stage("service", TRUE, <<"channel">> \o Memory)
audio_sink_open == Stage("sink", FALSE, <<>>)

\* The sink is not closed when the thread cannot be started.
audio_worker_start == Stage("audioThread", TRUE, <<"service", "channel">> \o Memory)

mgapi_cart_volume_init == Stage("volume", TRUE, AudioShutdown \o Memory)
mgapi_l2_init == Stage("l2", TRUE, <<"volume">> \o AudioShutdown \o Memory)

\* In mgapi_vm_init: formatting /td0/ or vm_system_init fails before g_sys_alive.
vm_system_init == Stage("vm", TRUE, <<"l2", "volume">> \o AudioShutdown \o Memory)

\* stdio, file, copro, game-API and L2 handlers: any of them fails the same way.
install_bridges == Stage("bridges", TRUE, FailSys)
StartArbiter == Stage("arbiter", TRUE, FailSys)

\* stream, FMV and 3D handlers; the arbiter is not taken down with them.
install_media == Stage("media", TRUE, FailSys)
mount_td0 == Stage("td0", TRUE, FailSys)
mount_cart == Stage("cart", FALSE, <<>>)
mount_host == Stage("host", FALSE, <<>>)
audio_install_ecalls == Stage("audioEcalls", FALSE, <<>>)
load_shell == Stage("shell", FALSE, <<>>)
mgapi_tcp_listen_init == Stage("tcp", FALSE, <<>>)
StartWorker == Stage("worker", FALSE, <<>>)

cart_window_init == Stage("window", TRUE, <<>>)

Stages == <<
    cart_window_init, psram_pool_init,
    service_channel_init, audio_service_create, audio_sink_open, audio_worker_start,
    mgapi_cart_volume_init, mgapi_l2_init,
    vm_system_init, install_bridges, StartArbiter, install_media,
    mount_td0, mount_cart, mount_host, audio_install_ecalls, load_shell,
    mgapi_tcp_listen_init, StartWorker >>

Mountable == {"td0", "cart", "host"}

\* What vm_system_destroy takes away with the VM system.
PartsOfVm == {"vm", "bridges", "media", "audioEcalls", "shell"}

-----------------------------------------------------------------------------
RuntimeInit ==
    /\ runtimeUp = {} /\ mounts = {} /\ g_initialized = FALSE
    /\ initStage = 0 /\ releasing = <<>> /\ result = "none"
    /\ tickPc = "none" /\ pending = 0 /\ audioPc = "none" /\ probe = "none"
    /\ clock = 0 /\ g_reset_t_start_ms = 0 /\ resetAt = 0
    /\ inits = 0 /\ steps = 0

EmbedderIdle == initStage = 0 /\ releasing = <<>> /\ probe # "running"

(* mgapi_init: the argument checks come before anything is taken.          *)
mgapi_init ==
    /\ EmbedderIdle /\ inits < MaxInits
    /\ inits' = inits + 1
    /\ \/ g_initialized /\ result' = "EALREADY" /\ UNCHANGED initStage
       \/ ~g_initialized /\ result' = "EINVAL" /\ UNCHANGED initStage
       \/ ~g_initialized /\ initStage' = 1 /\ UNCHANGED result
    /\ UNCHANGED <<runtimeUp, mounts, g_initialized, releasing, threadvars, resetvars, steps>>

Here == Stages[initStage]

\* A stage the configuration or the state rules out is passed over: no port,
\* no shell to bind the listener to, no service for the audio handlers.
Skipped ==
    \/ Here.gets = "tcp" /\ (~Port \/ "shell" \notin runtimeUp)
    \/ Here.gets = "audioEcalls" /\ "service" \notin runtimeUp

\* vm_host_fs_mount_trashfs and vm_host_fs_mount_host refuse a name in use.
Refused == Here.gets \in mounts

\* g_initialized is set between the listener and the worker.
NextStage(acquired) ==
    /\ runtimeUp' = runtimeUp \cup (acquired \ Mountable)
    /\ mounts' = mounts \cup (acquired \cap Mountable)
    /\ initStage' = IF initStage = Len(Stages) THEN 0 ELSE initStage + 1
    /\ result' = IF initStage = Len(Stages) THEN "ok" ELSE result
    /\ g_initialized' = (g_initialized \/ initStage + 1 = Len(Stages))
    /\ UNCHANGED releasing

StageOk ==
    /\ initStage > 0 /\ ~Skipped /\ ~Refused
    /\ NextStage({Here.gets})
    /\ audioPc' = IF Here.gets = "audioThread" THEN "top" ELSE audioPc
    /\ tickPc' = IF Here.gets = "worker" THEN "idle" ELSE tickPc
    /\ UNCHANGED <<pending, probe, resetvars, inits, steps>>

StageSkipped ==
    /\ initStage > 0
    /\ Skipped \/ (~Here.fatal /\ (Refused \/ Here.gets \in MayFail))
    /\ NextStage({})
    /\ UNCHANGED <<threadvars, resetvars, inits, steps>>

StageFails ==
    /\ initStage > 0 /\ Here.fatal /\ (Refused \/ Here.gets \in MayFail)
    /\ releasing' = Here.undo /\ initStage' = 0 /\ result' = "failed"
    /\ UNCHANGED <<runtimeUp, mounts, g_initialized, threadvars, resetvars, inits, steps>>

(* mgapi_shutdown: the worker is joined first, the memory goes last.       *)
mgapi_shutdown ==
    /\ EmbedderIdle /\ g_initialized
    /\ releasing' = <<"worker", "fmv", "arbiter", "tcp", "vm", "l2", "volume">>
           \o AudioShutdown \o Memory \o <<"flag">>
    /\ UNCHANGED <<runtimeUp, mounts, g_initialized, initStage, result, threadvars, resetvars,
                   inits, steps>>

\* mgapi_worker_stop and audio_worker_stop wait for the thread to end its loop.
MayRelease(s) ==
    /\ s = "worker" => tickPc \in {"none", "idle"}
    /\ s = "audioThread" => audioPc \in {"none", "top", "ended"}

\* One step of an unwinding or of mgapi_shutdown.  The mounts stay.
Release ==
    /\ releasing # <<>> /\ MayRelease(Head(releasing))
    /\ LET s == Head(releasing) IN
        /\ releasing' = Tail(releasing)
        /\ runtimeUp' = runtimeUp \ (IF s = "vm" THEN PartsOfVm ELSE {s})
        /\ g_initialized' = (g_initialized /\ s # "flag")
        /\ tickPc' = IF s = "worker" THEN "none" ELSE tickPc
        /\ pending' = IF s = "worker" THEN 0 ELSE pending
        /\ audioPc' = IF s = "audioThread" THEN "none" ELSE audioPc
    /\ UNCHANGED <<mounts, initStage, result, probe, resetvars, inits, steps>>

-----------------------------------------------------------------------------
(* The threads.  Uses names what each step of a thread needs to be up.      *)

mgapi_step ==
    /\ EmbedderIdle /\ g_initialized /\ steps < MaxSteps
    /\ steps' = steps + 1
    /\ pending' = IF tickPc = "none" THEN pending ELSE pending + 1
    /\ UNCHANGED <<runtimeUp, mounts, g_initialized, initStage, releasing, result, tickPc,
                   audioPc, probe, resetvars, inits>>

\* The order of mgapi_step_body: listener, streams, FMV player, virtual machines.
TickOrder == <<"tcp", "arbiter", "fmv", "vm">>

\* What the embedder's own step of taking a subsystem down uses.
ReleaseUses(s) ==
    CASE s = "fmv" -> {"arbiter", "window", "service"}
      [] s = "vm" -> {"window", "channel"}
      [] OTHER -> {}

TickUses ==
    [tcp     |-> {"vm"},
     arbiter |-> {"arbiter", "vm"},
     fmv     |-> {"arbiter", "window", "service"},
     vm      |-> {"vm", "l2", "psram", "volume", "window", "channel"}]

NextTick(pc) ==
    LET i == CHOOSE n \in 1 .. Len(TickOrder) : TickOrder[n] = pc
    IN IF i = Len(TickOrder) THEN "idle" ELSE TickOrder[i + 1]

\* mgapi_step_body returns at once when the runtime is not initialised.
mgapi_step_body ==
    /\ \/ tickPc = "idle" /\ pending > 0 /\ pending' = pending - 1
          /\ tickPc' = IF g_initialized THEN Head(TickOrder) ELSE "idle"
       \/ tickPc \notin {"none", "idle"} /\ tickPc' = NextTick(tickPc) /\ UNCHANGED pending
    /\ UNCHANGED <<runtimeUp, mounts, g_initialized, initStage, releasing, result, audioPc,
                   probe, resetvars, inits, steps>>

AudioUses ==
    [process |-> {"service", "channel", "psram"},
     render  |-> {"service", "psram"},
     write   |-> {"sink"},
     wait    |-> {"channel"}]

\* A device that fails ends the thread for good; without a sink it paces
\* itself on the channel.
audio_worker_body ==
    /\ audioPc' \in
        CASE audioPc = "top" -> {"process"}
          [] audioPc = "process" -> {"render"}
          [] audioPc = "render" -> IF "sink" \in runtimeUp THEN {"write"} ELSE {"wait"}
          [] audioPc = "write" -> {"top", "ended"}
          [] audioPc = "wait" -> {"top"}
          [] OTHER -> {}
    /\ UNCHANGED <<runtimeUp, mounts, g_initialized, initStage, releasing, result, tickPc,
                   pending, probe, resetvars, inits, steps>>

(* mgapi_dev_spawn_elf_and_wait steps the virtual machines on the caller's  *)
(* thread; it unloads the VM it loaded unless it gives up waiting.          *)
mgapi_dev_spawn_elf_and_wait ==
    /\ \/ /\ EmbedderIdle /\ "vm" \in runtimeUp
          /\ ProbeAnyTime \/ (pending = 0 /\ tickPc \in {"none", "idle"})
          /\ probe' = "running"
       \/ probe = "running" /\ probe' \in {"none", "left"}
    /\ UNCHANGED <<runtimeUp, mounts, g_initialized, initStage, releasing, result, tickPc,
                   pending, audioPc, resetvars, inits, steps>>

-----------------------------------------------------------------------------
(* The cart's warm reset.                                                   *)
ClockMs == clock % 2^MsBits

mgapi_cart_reset_begin ==
    /\ EmbedderIdle /\ g_initialized
    /\ g_reset_t_start_ms' = ClockMs /\ resetAt' = clock + 1
    /\ UNCHANGED <<runtimeUp, mounts, g_initialized, initStage, releasing, result, threadvars,
                   clock, inits, steps>>

mgapi_cart_reset_ready ==
    ~g_initialized \/ (ClockMs - g_reset_t_start_ms) % 2^MsBits >= HoldMs

Millisecond ==
    /\ clock < MaxMs /\ resetAt > 0 /\ clock' = clock + 1
    /\ UNCHANGED <<runtimeUp, mounts, g_initialized, initStage, releasing, result, threadvars,
                   g_reset_t_start_ms, resetAt, inits, steps>>

RuntimeNext ==
    \/ mgapi_init \/ StageOk \/ StageSkipped \/ StageFails
    \/ mgapi_shutdown \/ Release
    \/ mgapi_step \/ mgapi_step_body \/ audio_worker_body
    \/ mgapi_dev_spawn_elf_and_wait
    \/ mgapi_cart_reset_begin \/ Millisecond

-----------------------------------------------------------------------------
(* Properties.                                                              *)

\* No thread ever touches a subsystem that is not up: not the tick body or
\* the audio thread while mgapi_shutdown, or the unwinding of a failed
\* mgapi_init, takes the runtime down around them.
ThreadsUseLive ==
    /\ releasing # <<>> => ReleaseUses(Head(releasing)) \subseteq runtimeUp
    /\ tickPc \notin {"none", "idle"} => TickUses[tickPc] \subseteq runtimeUp
    /\ audioPc \notin {"none", "top", "ended"} => AudioUses[audioPc] \subseteq runtimeUp

\* With no call under way the runtime is either wholly up or down.  Down, all
\* that is left is the stream arbiter's table: fail_sys does not shut it down
\* (the next stream_arbiter_init finds it initialised and goes on).
AllOrNothing ==
    (initStage = 0 /\ releasing = <<>>) =>
        IF g_initialized
        THEN \A i \in DOMAIN Stages :
                Stages[i].fatal => Stages[i].gets \in runtimeUp \cup mounts
        ELSE runtimeUp \subseteq {"arbiter"} /\ tickPc = "none" /\ audioPc = "none"

\* A reset is never reported ready before it was held for HoldMs, whatever the
\* clock's wrap-around; it is reported ready once it was, until the clock has
\* gone round.
ResetHeld ==
    (g_initialized /\ resetAt > 0) =>
        LET held == clock - (resetAt - 1) IN
        /\ mgapi_cart_reset_ready => held >= HoldMs
        /\ (held >= HoldMs /\ held < 2^MsBits) => mgapi_cart_reset_ready

RuntimeExact == ThreadsUseLive /\ AllOrNothing /\ ResetHeld

\* mgapi.h: "After this returns, mgapi_init may be called again with a fresh
\* config": where no stage may fail, no call does.
RestartWorks == MayFail = {} => result # "failed"

\* audio_init.c: "any step fails and we roll back everything we acquired".
AudioRolledBack == ("sink" \in runtimeUp /\ initStage = 0 /\ releasing = <<>>) => g_initialized

\* vm_init.h: a dev probe shares the scheduler with the running shell; two
\* threads must not step it at once.
OneStepper == ~(probe = "running" /\ tickPc = "vm")
=============================================================================
