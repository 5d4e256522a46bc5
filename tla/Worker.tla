------------------------------- MODULE Worker -------------------------------
(***************************************************************************)
(* mgapi's worker thread (src/mgapi/worker.c): a thread that runs one tick *)
(* for every vblank it is signalled, woken by an auto-reset event on       *)
(* Windows and by a counting semaphore elsewhere.                          *)
(*                                                                         *)
(* Three threads take part: the embedder, which starts, signals and stops  *)
(* the worker; the emulator thread, which wakes it from the frame-consumed *)
(* hook; and the worker.  A step is one access of an atomic or one call of *)
(* the operating system, so the embedder may be anywhere in a signal while *)
(* the worker drains.                                                      *)
(***************************************************************************)
EXTENDS Naturals

CONSTANTS
    WakeObject,     \* "event" (Win32, auto-reset) or "sem" (POSIX)
    MaxVblanks,     \* bound on the vblanks and wake-ups of one start
    MaxStarts       \* bound on the starts

ASSUME WorkerAssumption ==
    /\ WakeObject \in {"event", "sem"}
    /\ MaxVblanks \in Nat
    /\ MaxStarts \in Nat

VARIABLES
    g_started,          \* the plain int; written by the embedder only
    g_stop,             \* atomic
    g_pending_vblanks,  \* atomic
    g_last_elapsed_ns,  \* atomic; the number of the vblank stands for its dt
    g_evt,              \* 0 or 1 for the event, the semaphore's count otherwise
    evtOpen,            \* the event or semaphore exists
    workerPc,           \* where the worker thread is; "none" when there is none
    embedderPc,         \* where the embedder is in a call
    emulatorPc,         \* where the emulator thread is in mgapi_worker_wake
    asked,              \* ghost: vblanks and wake-ups counted since the start
    ticked,             \* ghost: ticks run since the start
    lateTicks,          \* ghost: ticks begun after mgapi_worker_stop stored g_stop
    starts              \* ghost: number of starts so far

atomics == <<g_stop, g_pending_vblanks, g_last_elapsed_ns>>
ghosts == <<asked, ticked, lateTicks, starts>>
workervars == <<g_started, atomics, g_evt, evtOpen, workerPc, embedderPc, emulatorPc, ghosts>>

WorkerTypeOK ==
    /\ g_started \in BOOLEAN /\ g_stop \in BOOLEAN /\ evtOpen \in BOOLEAN
    /\ g_pending_vblanks \in 0 .. MaxVblanks
    /\ g_last_elapsed_ns \in 0 .. MaxVblanks
    /\ g_evt \in 0 .. (MaxVblanks + 2)
    /\ workerPc \in {"none", "top", "wait", "woken", "drain", "take", "tick", "ticked"}
    /\ embedderPc \in {"idle", "add", "post", "stopPost", "join", "close"}
    /\ emulatorPc \in {"idle", "add", "post"}

WorkerInit ==
    /\ g_started = FALSE /\ g_stop = FALSE /\ evtOpen = FALSE
    /\ g_pending_vblanks = 0 /\ g_last_elapsed_ns = 0 /\ g_evt = 0
    /\ workerPc = "none" /\ embedderPc = "idle" /\ emulatorPc = "idle"
    /\ asked = 0 /\ ticked = 0 /\ lateTicks = 0 /\ starts = 0

-----------------------------------------------------------------------------
(* The wake object. *)

\* SetEvent leaves a set event set; sem_post counts.
Posted == IF WakeObject = "event" THEN 1 ELSE g_evt + 1

\* A successful wait resets the event, or takes one from the semaphore.
Waited == IF WakeObject = "event" THEN 0 ELSE g_evt - 1

\* The bound on vblanks, those being counted included.
Room == asked + (IF embedderPc = "add" THEN 1 ELSE 0) + (IF emulatorPc = "add" THEN 1 ELSE 0)
            < MaxVblanks

-----------------------------------------------------------------------------
(* The embedder. *)

\* The creation of the object or of the thread may fail; the object is then
\* destroyed again and only the atomics have been reset.
mgapi_worker_start ==
    /\ embedderPc = "idle" /\ ~g_started /\ starts < MaxStarts
    /\ g_stop' = FALSE /\ g_pending_vblanks' = 0 /\ g_last_elapsed_ns' = 0
    /\ asked' = 0 /\ ticked' = 0 /\ lateTicks' = 0 /\ starts' = starts + 1
    /\ \/ /\ g_started' = TRUE /\ evtOpen' = TRUE /\ g_evt' = 0 /\ workerPc' = "top"
       \/ UNCHANGED <<g_started, evtOpen, g_evt, workerPc>>
    /\ UNCHANGED <<embedderPc, emulatorPc>>

mgapi_worker_signal ==
    /\ embedderPc = "idle" /\ g_started /\ Room
    /\ g_last_elapsed_ns' = asked + 1
    /\ embedderPc' = "add"
    /\ UNCHANGED <<g_started, g_stop, g_pending_vblanks, g_evt, evtOpen, workerPc, emulatorPc, ghosts>>

SignalAdd ==
    /\ embedderPc = "add"
    /\ g_pending_vblanks' = g_pending_vblanks + 1 /\ asked' = asked + 1
    /\ embedderPc' = "post"
    /\ UNCHANGED <<g_started, g_stop, g_last_elapsed_ns, g_evt, evtOpen, workerPc, emulatorPc,
                   ticked, lateTicks, starts>>

SignalPost ==
    /\ embedderPc = "post"
    /\ g_evt' = Posted
    /\ embedderPc' = "idle"
    /\ UNCHANGED <<g_started, atomics, evtOpen, workerPc, emulatorPc, ghosts>>

mgapi_worker_stop ==
    /\ embedderPc = "idle" /\ g_started
    /\ g_stop' = TRUE
    /\ embedderPc' = "stopPost"
    /\ UNCHANGED <<g_started, g_pending_vblanks, g_last_elapsed_ns, g_evt, evtOpen, workerPc,
                   emulatorPc, ghosts>>

StopPost ==
    /\ embedderPc = "stopPost"
    /\ g_evt' = Posted
    /\ embedderPc' = "join"
    /\ UNCHANGED <<g_started, atomics, evtOpen, workerPc, emulatorPc, ghosts>>

\* The join returns once the thread has; then the object is destroyed.
StopJoin ==
    /\ embedderPc = "join" /\ workerPc = "none"
    /\ evtOpen' = FALSE /\ g_evt' = 0
    /\ embedderPc' = "close"
    /\ UNCHANGED <<g_started, atomics, workerPc, emulatorPc, ghosts>>

StopClose ==
    /\ embedderPc = "close"
    /\ g_started' = FALSE
    /\ embedderPc' = "idle"
    /\ UNCHANGED <<atomics, g_evt, evtOpen, workerPc, emulatorPc, ghosts>>

-----------------------------------------------------------------------------
(* The emulator thread, from the frame-consumed hook. *)

mgapi_worker_wake ==
    /\ emulatorPc = "idle" /\ g_started /\ Room
    /\ emulatorPc' = "add"
    /\ UNCHANGED <<g_started, atomics, g_evt, evtOpen, workerPc, embedderPc, ghosts>>

WakeAdd ==
    /\ emulatorPc = "add"
    /\ g_pending_vblanks' = g_pending_vblanks + 1 /\ asked' = asked + 1
    /\ emulatorPc' = "post"
    /\ UNCHANGED <<g_started, g_stop, g_last_elapsed_ns, g_evt, evtOpen, workerPc, embedderPc,
                   ticked, lateTicks, starts>>

\* Posting an object that mgapi_worker_stop has destroyed has no effect here;
\* see WakeIsSafe.
WakePost ==
    /\ emulatorPc = "post"
    /\ g_evt' = IF evtOpen THEN Posted ELSE g_evt
    /\ emulatorPc' = "idle"
    /\ UNCHANGED <<g_started, atomics, evtOpen, workerPc, embedderPc, ghosts>>

-----------------------------------------------------------------------------
(* The worker thread. *)

\* The test at the top of worker_entry's loop.
Top ==
    /\ workerPc = "top"
    /\ workerPc' = IF g_stop THEN "none" ELSE "wait"
    /\ UNCHANGED <<g_started, atomics, g_evt, evtOpen, embedderPc, emulatorPc, ghosts>>

WaitEvent ==
    /\ workerPc = "wait" /\ g_evt > 0
    /\ g_evt' = Waited
    /\ workerPc' = "woken"
    /\ UNCHANGED <<g_started, atomics, evtOpen, embedderPc, emulatorPc, ghosts>>

\* The test after the wait.
Woken ==
    /\ workerPc = "woken"
    /\ workerPc' = IF g_stop THEN "none" ELSE "drain"
    /\ UNCHANGED <<g_started, atomics, g_evt, evtOpen, embedderPc, emulatorPc, ghosts>>

\* worker_drain: load the counter, take one vblank, run the tick with the last
\* dt, test g_stop, and load the counter again.
DrainLoad ==
    /\ workerPc = "drain"
    /\ workerPc' = IF g_pending_vblanks = 0 THEN "top" ELSE "take"
    /\ UNCHANGED <<g_started, atomics, g_evt, evtOpen, embedderPc, emulatorPc, ghosts>>

DrainTake ==
    /\ workerPc = "take"
    /\ g_pending_vblanks' = g_pending_vblanks - 1
    /\ workerPc' = "tick"
    /\ UNCHANGED <<g_started, g_stop, g_last_elapsed_ns, g_evt, evtOpen, embedderPc, emulatorPc, ghosts>>

DrainTick ==
    /\ workerPc = "tick"
    /\ ticked' = ticked + 1
    /\ lateTicks' = IF g_stop THEN lateTicks + 1 ELSE lateTicks
    /\ workerPc' = "ticked"
    /\ UNCHANGED <<g_started, atomics, g_evt, evtOpen, embedderPc, emulatorPc, asked, starts>>

\* One tick a wake-up, as if the semaphore's count were the vblanks.
DrainNext_Once ==
    /\ workerPc = "ticked"
    /\ workerPc' = "top"
    /\ UNCHANGED <<g_started, atomics, g_evt, evtOpen, embedderPc, emulatorPc, ghosts>>

\* The tick is over: leave if stopping, load the counter again if not.
DrainNext ==
    /\ workerPc = "ticked"
    /\ workerPc' = IF g_stop THEN "top" ELSE "drain"
    /\ UNCHANGED <<g_started, atomics, g_evt, evtOpen, embedderPc, emulatorPc, ghosts>>

worker_drain == DrainLoad \/ DrainTake \/ DrainTick \/ DrainNext

worker_entry == Top \/ WaitEvent \/ Woken \/ worker_drain

Embedder ==
    \/ mgapi_worker_start \/ mgapi_worker_signal \/ SignalAdd \/ SignalPost
    \/ mgapi_worker_stop \/ StopPost \/ StopJoin \/ StopClose

Emulator == mgapi_worker_wake \/ WakeAdd \/ WakePost

WorkerNext == Embedder \/ Emulator \/ worker_entry

\* Threads that can run are scheduled, and a call once begun is carried on.
\* Nothing obliges the embedder to signal or to stop.
WorkerCallGoesOn == SignalAdd \/ SignalPost \/ StopPost \/ StopJoin \/ StopClose
WakeGoesOn == WakeAdd \/ WakePost
WorkerFairness ==
    /\ WF_workervars(worker_entry)
    /\ WF_workervars(WorkerCallGoesOn)
    /\ WF_workervars(WakeGoesOn)

WorkerSpec == WorkerInit /\ [][WorkerNext]_workervars /\ WorkerFairness

-----------------------------------------------------------------------------
(* Properties. *)

\* No vblank is dropped (worker.c:9-11): whatever the worker is doing when one is
\* counted, a tick runs for it unless the worker is stopped first. (Vblanks are
\* bounded, so a worker that drops none catches up.)
EveryVblankRuns == (ticked < asked) ~> (ticked = asked \/ g_stop \/ ~g_started)

\* mgapi_worker_stop (worker.c:148) returns: its wake-up is not lost among those
\* of the vblanks, wherever the worker is when the flag is set.
StopReturns == (embedderPc = "stopPost") ~> (embedderPc = "idle")

\* No tick runs that was not asked for, and at most one begins after
\* mgapi_worker_stop has set the flag (worker.c:13-15).
TicksExact == ticked + g_pending_vblanks <= asked /\ lateTicks <= 1

\* The worker never sleeps through its work: while it waits with a vblank counted or the
\* stop flag set, the wake object is up or the one who asked is about to raise it
\* (mgapi_worker_signal counts before it posts, worker_drain leaves at a count of zero).
NothingSleptThrough ==
    workerPc = "wait" =>
        /\ g_stop => g_evt > 0 \/ embedderPc = "stopPost"
        /\ g_pending_vblanks > 0 =>
              g_evt > 0 \/ embedderPc \in {"post", "stopPost"} \/ emulatorPc = "post"

\* What worker.c:194-195 says of mgapi_worker_wake: it is safe from any thread.
\* A stop may destroy the event between the wake's test and its post.
WakeIsSafe == emulatorPc = "post" => evtOpen
=============================================================================
