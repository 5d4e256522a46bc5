------------------------------ MODULE Presched ------------------------------
(***************************************************************************)
(* The preemptive backend on POSIX (vm/presched.c, vm_sched_ops_pre.c):    *)
(* one thread per task, let through its gate semaphore one at a time.  The *)
(* scheduler thread takes the ticks; to preempt it stores READY over the   *)
(* running task's state, sends it SIGUSR1, whose handler waits at the gate *)
(* again, and grants the next task.  A task that blocks or ends hands the  *)
(* CPU on itself, from its own thread.  Each access to a shared word is a  *)
(* step; two that follow each other are one where a third thread can tell  *)
(* no difference that matters: the loads of a decision (current and the    *)
(* scan of next_ready), the stores of a grant (current, RUNNING, the post  *)
(* of the gate) and those of a preemption (READY, current, the signal).    *)
(*                                                                         *)
(* The deadline of a sleeper is kept as the ticks it has left plus one (1  *)
(* is due, 0 none), which is all that is compared.  All tasks have one     *)
(* priority, as presched_add_task gives them.                              *)
(***************************************************************************)
EXTENDS Integers, FiniteSets

CONSTANTS NTasks,       \* tasks added before presched_run
          MaxTasks,     \* PRESCHED_MAX_TASKS
          Spawners,     \* the tasks whose body adds tasks at run time
          Calls,        \* what a body may call: "block", "timeout", "sleep", "wake", "spawn"
          MaxCalls,     \* bound on the calls of all bodies, wakes apart
          SleepTicks,   \* the argument of presched_sleep and _block_timeout
          GateCap       \* posts of one gate told apart

ASSUME PreschedAssumption == /\ NTasks \in Nat \ {0} /\ MaxTasks \in Nat /\ NTasks <= MaxTasks
                             /\ Spawners \subseteq 0 .. MaxTasks - 1
                             /\ Calls \subseteq {"block", "timeout", "sleep", "wake", "spawn"}
                             /\ MaxCalls \in Nat /\ SleepTicks \in Nat \ {0} /\ GateCap \in Nat \ {0}

VARIABLES task,         \* [state, gate, pend, dead] of each slot: what other threads touch
          thread,       \* [pc, nxt, sig, hand] of each task's thread
          sched,        \* the scheduler thread: [pc, cur, nxt]
          returned,     \* presched_run has returned
          shared,       \* [current, n, count, stop]
          calls,        \* calls the bodies have left
          parked        \* some body has blocked (history)

prevars == <<task, thread, sched, returned, shared, calls, parked>>

Slots == 0 .. MaxTasks - 1
None == -1
Fresh == [state |-> "ready", gate |-> 0, pend |-> FALSE, dead |-> 0]
Thread(pc) == [pc |-> pc, nxt |-> None, sig |-> FALSE, hand |-> FALSE]

\* presched_run has created the threads, armed the timer and granted the first task of its
\* round; a tick is far longer than the stores of that grant.
First == 1 % NTasks
PreInit ==
    /\ task = [i \in Slots |-> IF i = First THEN [Fresh EXCEPT !.state = "running", !.gate = 1] ELSE Fresh]
    /\ thread = [i \in Slots |-> Thread(IF i < NTasks THEN "start" ELSE "none")]
    /\ sched = [pc |-> "wait", cur |-> None, nxt |-> None]
    /\ returned = FALSE
    /\ shared = [current |-> First, n |-> NTasks, count |-> NTasks, stop |-> FALSE]
    /\ calls = MaxCalls
    /\ parked = FALSE

Runnable(i) == task[i].state \in {"ready", "running"}

\* Round robin from the task after from, from itself last.
next_ready(from) ==
    LET near == {k \in 1 .. shared.n : Runnable((from + k) % shared.n)}
    IN IF near = {} THEN None ELSE (from + (CHOOSE k \in near : \A m \in near : k <= m)) % shared.n

SetCurrent(i) == shared' = [shared EXCEPT !.current = i]
SetState(i, s) == task' = [task EXCEPT ![i].state = s]
\* Nobody waits any more at the gate of a thread that has left.
LetRun(i) ==
    /\ SetCurrent(i)
    /\ task' = [task EXCEPT ![i].state = "running",
                            ![i].gate = IF @ < GateCap /\ thread[i].pc # "gone" THEN @ + 1 ELSE @]

-----------------------------------------------------------------------------
(* A task's thread. *)

Goes(i, from, to) == /\ thread[i].pc = from /\ ~thread[i].hand
                     /\ thread' = [thread EXCEPT ![i].pc = to]

\* park_signal: the handler waits at the gate; SIGUSR1 is masked while it runs.
Signalled(i) ==
    /\ thread[i].sig /\ ~thread[i].hand /\ thread[i].pc \notin {"none", "gone"}
    /\ thread' = [thread EXCEPT ![i].sig = FALSE, ![i].hand = task[i].state # "done"]
    /\ UNCHANGED <<task, sched, returned, shared, calls, parked>>
HandlerPasses(i) ==
    /\ thread[i].hand /\ task[i].gate > 0
    /\ thread' = [thread EXCEPT ![i].hand = FALSE]
    /\ task' = [task EXCEPT ![i].gate = @ - 1]
    /\ UNCHANGED <<sched, returned, shared, calls, parked>>

\* task_trampoline's first wait, and the wait of a task that blocked.
PassGate(i) ==
    /\ task[i].gate > 0
    /\ task' = [task EXCEPT ![i].gate = @ - 1]
    /\ \/ Goes(i, "start", IF shared.stop THEN "skip" ELSE "body")
       \/ Goes(i, "gate", "body")
    /\ UNCHANGED <<sched, returned, shared, calls, parked>>

Call(i, c) == c \in Calls /\ calls > 0 /\ calls' = calls - 1

\* A pending wake is consumed; otherwise the task goes on to park.
presched_block(i) ==
    /\ Call(i, "block")
    /\ IF task[i].pend
       THEN Goes(i, "body", "body") /\ task' = [task EXCEPT ![i].pend = FALSE]
       ELSE Goes(i, "body", "block") /\ UNCHANGED task
    /\ UNCHANGED <<sched, returned, shared, parked>>
presched_block_timeout(i) ==
    /\ Call(i, "timeout")
    /\ IF task[i].pend
       THEN Goes(i, "body", "body") /\ task' = [task EXCEPT ![i].pend = FALSE]
       ELSE Goes(i, "body", "deadline") /\ UNCHANGED task
    /\ UNCHANGED <<sched, returned, shared, parked>>
presched_sleep(i) ==
    /\ Call(i, "sleep") /\ Goes(i, "body", "deadline")
    /\ UNCHANGED <<task, sched, returned, shared, parked>>
StoreDeadline(i) ==
    /\ Goes(i, "deadline", "block")
    /\ task' = [task EXCEPT ![i].dead = SleepTicks + 1]
    /\ UNCHANGED <<sched, returned, shared, calls, parked>>
StoreBlocked(i) ==
    /\ Goes(i, "block", "handoff")
    /\ SetState(i, "blocked")
    /\ parked' = TRUE
    /\ UNCHANGED <<sched, returned, shared, calls>>

\* hand_off_from: the pick, then the stores of a grant.  A task that blocked waits at its gate
\* after it, a task that ended leaves.
Paths == {[at |-> "handoff", grant |-> "grant", after |-> "gate"],
          [at |-> "lastoff", grant |-> "lastgrant", after |-> "leave"]}
HandOffPick(i) ==
    /\ ~thread[i].hand
    /\ \E p \in Paths : LET nxt == next_ready(i) IN
          /\ thread[i].pc = p.at
          /\ IF nxt \notin {None, i}
             THEN thread' = [thread EXCEPT ![i].pc = p.grant, ![i].nxt = nxt] /\ UNCHANGED shared
             ELSE thread' = [thread EXCEPT ![i].pc = p.after] /\ SetCurrent(None)
    /\ UNCHANGED <<task, sched, returned, calls, parked>>
HandOffGrant(i) ==
    /\ ~thread[i].hand
    /\ \E p \in Paths : /\ thread[i].pc = p.grant
                        /\ thread' = [thread EXCEPT ![i].pc = p.after, ![i].nxt = None]
    /\ LetRun(thread[i].nxt)
    /\ UNCHANGED <<sched, returned, calls, parked>>

\* A blocked task is made ready; for any other the wake is kept for its next block.
presched_wake(i, j) ==
    /\ "wake" \in Calls /\ j < shared.n /\ j # i
    /\ IF task[j].state = "blocked"
       THEN Goes(i, "body", "body") /\ task' = [task EXCEPT ![j].state = "ready", ![j].dead = 0]
       ELSE Goes(i, "body", "body") /\ task' = [task EXCEPT ![j].pend = TRUE]
    /\ UNCHANGED <<sched, returned, shared, calls, parked>>

\* The new task is counted before its thread exists, and published last.
presched_add_task_prio(i) ==
    /\ i \in Spawners /\ Call(i, "spawn") /\ shared.n < MaxTasks
    /\ Goes(i, "body", "create")
    /\ task' = [task EXCEPT ![shared.n] = Fresh]
    /\ shared' = [shared EXCEPT !.count = @ + 1]
    /\ UNCHANGED <<sched, returned, parked>>
CreateThread(i) ==
    /\ thread[i].pc = "create" /\ ~thread[i].hand
    /\ \/ /\ thread' = [thread EXCEPT ![i].pc = "publish", ![shared.n] = Thread("start")]
          /\ UNCHANGED shared
       \/ /\ thread' = [thread EXCEPT ![i].pc = "body"]
          /\ shared' = [shared EXCEPT !.count = @ - 1]
    /\ UNCHANGED <<task, sched, returned, calls, parked>>
Publish(i) ==
    /\ Goes(i, "publish", "body")
    /\ shared' = [shared EXCEPT !.n = @ + 1]
    /\ UNCHANGED <<task, sched, returned, calls, parked>>

\* The body returns (a VM's task wakes the parent waiting for it first): DONE is stored, the CPU
\* handed on if this task holds it, and the last one out stops the run.
BodyReturns(i) ==
    /\ Goes(i, "body", "held") \/ Goes(i, "skip", "held")
    /\ SetState(i, "done")
    /\ UNCHANGED <<sched, returned, shared, calls, parked>>
HeldCpu(i) ==
    /\ Goes(i, "held", IF shared.current = i THEN "lastoff" ELSE "leave")
    /\ UNCHANGED <<task, sched, returned, shared, calls, parked>>
Leave(i) ==
    /\ thread[i].pc = "leave" /\ ~thread[i].hand
    /\ thread' = [thread EXCEPT ![i] = Thread("gone")]
    /\ task' = [task EXCEPT ![i].gate = 0, ![i].pend = FALSE, ![i].dead = 0]
    /\ shared' = [shared EXCEPT !.count = @ - 1, !.stop = @ \/ shared.count = 1]
    /\ UNCHANGED <<sched, returned, calls, parked>>

Handler(i) == Signalled(i) \/ HandlerPasses(i)
OwnStep(i) ==
    \/ PassGate(i)
    \/ presched_block(i) \/ presched_block_timeout(i) \/ presched_sleep(i)
    \/ StoreDeadline(i) \/ StoreBlocked(i) \/ HandOffPick(i) \/ HandOffGrant(i)
    \/ \E j \in Slots : presched_wake(i, j)
    \/ presched_add_task_prio(i) \/ CreateThread(i) \/ Publish(i)
    \/ BodyReturns(i) \/ HeldCpu(i) \/ Leave(i)

-----------------------------------------------------------------------------
(* The scheduler thread. *)

SchedGoes(from, to) == sched.pc = from /\ sched' = [sched EXCEPT !.pc = to]

Tick ==
    /\ SchedGoes("wait", IF shared.count > 0 THEN "sleepers" ELSE "gone")
    /\ task' = [i \in Slots |-> [task[i] EXCEPT !.dead = IF @ > 1 THEN @ - 1 ELSE @]]
    /\ UNCHANGED <<thread, returned, shared, calls, parked>>
Due == {i \in 0 .. shared.n - 1 : task[i].dead = 1 /\ task[i].state = "blocked"}
SleeperDue ==
    /\ sched.pc = "sleepers"
    /\ \E i \in Due : /\ \A j \in Due : i <= j
                      /\ sched' = [sched EXCEPT !.pc = "ready", !.nxt = i]
    /\ UNCHANGED <<task, thread, returned, shared, calls, parked>>
WakeSleeper ==
    /\ sched.pc = "ready" /\ sched' = [sched EXCEPT !.pc = "sleepers", !.nxt = None]
    /\ task' = [task EXCEPT ![sched.nxt].dead = 0, ![sched.nxt].state = "ready"]
    /\ UNCHANGED <<thread, returned, shared, calls, parked>>
PickNext ==
    /\ sched.pc = "sleepers" /\ Due = {}
    /\ LET cur == shared.current
           nxt == next_ready(IF cur = None THEN 0 ELSE cur)
           to  == IF cur # None /\ task[cur].state = "running" THEN "stop" ELSE "grant"
       IN sched' = IF nxt \in {None, cur} THEN [sched EXCEPT !.pc = "wait"]
                   ELSE [pc |-> to, cur |-> cur, nxt |-> nxt]
    /\ UNCHANGED <<task, thread, returned, shared, calls, parked>>
StopCurrent ==
    /\ sched.pc = "stop" /\ sched' = [sched EXCEPT !.pc = "grant", !.cur = None]
    /\ SetState(sched.cur, "ready") /\ SetCurrent(None)
    /\ thread' = [thread EXCEPT ![sched.cur].sig = @ \/ thread[sched.cur].pc # "gone"]
    /\ UNCHANGED <<returned, calls, parked>>
Grant ==
    /\ sched.pc = "grant" /\ sched' = [pc |-> "wait", cur |-> None, nxt |-> None]
    /\ LetRun(sched.nxt)
    /\ UNCHANGED <<thread, returned, calls, parked>>
sched_main == Tick \/ SleeperDue \/ WakeSleeper \/ PickNext \/ StopCurrent \/ Grant

\* It waits for the last task, ends the scheduler thread and joins every thread.
presched_run ==
    /\ ~returned /\ shared.stop
    /\ sched.pc = "gone" /\ \A i \in 0 .. shared.n - 1 : thread[i].pc = "gone"
    /\ returned' = TRUE
    /\ UNCHANGED <<task, thread, sched, shared, calls, parked>>

PreNext == (\E i \in Slots : Handler(i) \/ OwnStep(i)) \/ sched_main \/ presched_run

\* Every thread runs and the systick keeps coming; a tick is long enough that a task let
\* through time and again gets on with its body, and a body returns.
PreFairness == /\ \A i \in Slots : WF_prevars(Handler(i)) /\ SF_prevars(OwnStep(i))
               /\ WF_prevars(sched_main) /\ WF_prevars(presched_run)

-----------------------------------------------------------------------------
\* The run is over only when every body has run to its end, those added while it ran included:
\* a task that starts after stop was set skips its body.
CompletionExact == shared.stop => \A i \in Slots : thread[i].pc \in {"none", "gone"}

\* Preemption alone, with its signals delivered late, coalesced or at the gate, strands nobody:
\* as long as no body has blocked, presched_run returns.
RunReturns == <>(returned \/ parked)

\* "exactly one task runs at a time, enforced by the gates" (presched.c:28).
OneTaskRuns == \A i, j \in Slots : i # j => ~(thread[i].pc = "body" /\ ~thread[i].hand
                                              /\ thread[j].pc = "body" /\ ~thread[j].hand)

\* "no lost-wakeup race" (presched.h): a task that is parked has no wake pending.
NoLostWake == \A i \in Slots : ~(thread[i].pc = "gate" /\ task[i].state = "blocked" /\ task[i].pend)

\* A task that ended is never scheduled again.
DoneIsFinal == [][\A i \in Slots : task[i].state = "done" => task'[i].state = "done"]_prevars

\* A task that was granted the CPU leaves its gate, or is taken off the CPU again.
GrantIsUsed == \A i \in Slots : (thread[i].pc = "gate" /\ task[i].state = "running")
                                    ~> (thread[i].pc # "gate" \/ task[i].state # "running")
=============================================================================
