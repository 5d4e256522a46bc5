------------------------------ MODULE MCThreads ------------------------------
(***************************************************************************)
(* The threads around the scheduler, checked in one run for what they must *)
(* do in the end: the vblank worker, the stream arbiter with the movie     *)
(* player on top of it, and the pre-emptive scheduler. They are looked at  *)
(* one at a time: part says which, so their state spaces add up, not       *)
(* multiply.                                                               *)
(***************************************************************************)
EXTENDS Fmv, Presched, Worker

VARIABLE part

playervars == <<player, kernel, worker, audio>>
vars == <<fmvvars, prevars, workervars, part>>

\* Three files: the clip, one that is longer than a ring and one that ends at once.
MCFileLen == [f \in 0 .. 2 |-> <<3, 5, 1>>[f + 1]]

Init ==
    /\ part \in {"stream", "fmv", "presched", "worker"}
    /\ FmvInit /\ PreInit /\ WorkerInit

Stream(A) == part = "stream" /\ A /\ UNCHANGED <<playervars, prevars, workervars, part>>
Player(A) == part = "fmv" /\ A /\ UNCHANGED <<prevars, workervars, part>>
Tasks(A) == part = "presched" /\ A /\ UNCHANGED <<fmvvars, workervars, part>>
Vblank(A) == part = "worker" /\ A /\ UNCHANGED <<fmvvars, prevars, part>>

Next ==
    \/ Stream(StreamNext) \/ Player(FmvNext) \/ Tasks(PreNext) \/ Vblank(WorkerNext)

\* The fairness each module states, of the part that runs.
Fairness ==
    /\ WF_vars(Player(WorkerTick)) /\ WF_vars(Player(fmv_player_tick)) /\ WF_vars(Player(GuestYields))
    /\ WF_vars(Player(HookStep)) /\ SF_vars(Player(ReadReady)) /\ SF_vars(Player(FrameDone))
    /\ \A i \in Slots : WF_vars(Tasks(Handler(i))) /\ SF_vars(Tasks(OwnStep(i)))
    /\ WF_vars(Tasks(sched_main)) /\ WF_vars(Tasks(presched_run))
    /\ WF_vars(Vblank(worker_entry)) /\ WF_vars(Vblank(WorkerCallGoesOn)) /\ WF_vars(Vblank(WakeGoesOn))

Spec == Init /\ [][Next]_vars /\ Fairness

-----------------------------------------------------------------------------
\* Nothing is handed from thread to thread out of order, twice or too early: the elements of
\* a file to the guest (GuestStreamExact) and to the movie player (ClipExact), the ticks of the
\* worker (TicksExact) and its waits (NothingSleptThrough), and the end of the pre-emptive
\* scheduler (CompletionExact).
StreamsExact == GuestStreamExact /\ ClipExact /\ TicksExact /\ NothingSleptThrough
                /\ CompletionExact

\* Every vblank is run and mgapi_worker_stop returns (Worker), and presched_run returns as
\* long as no body has blocked (Presched).
WorkDone == EveryVblankRuns /\ StopReturns /\ (part = "presched" => RunReturns)
=============================================================================
