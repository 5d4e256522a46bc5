------------------------------ MODULE VmSched ------------------------------
(***************************************************************************)
(* vm/vm_sched.c: the cooperative round-robin scheduler, with the ECALL    *)
(* handlers that only touch scheduling state (vm_ecall_handlers.c and the  *)
(* timer handlers of vm_system.c).                                         *)
(*                                                                         *)
(* One vm_sched_step is StepRun (sample the clock, wake, pick) followed by *)
(* one action per call of vm_step, until the turn ends; or StepIdle.  What *)
(* a guest computes is abstracted to the outcome of each vm_step: how many *)
(* instructions it retired and why it returned.  What is written to a0     *)
(* belongs to the modules that extend this one.                            *)
(***************************************************************************)
EXTENDS Integers

CONSTANTS
    NumVms,         \* VM_SCHED_MAX_VMS
    Baseline,       \* config.baseline_quantum
    MaxOverrun,     \* config.max_critical_overrun
    TickMod,        \* 2^32 in the code: the width of global_tick
    TickSources,    \* whether hosts set config.tick_source: subset of BOOLEAN
    RunDrivers,     \* whether hosts call vm_sched_run, not vm_sched_step in a loop
    MaxGap,         \* bound: how far the clock moves unobserved
    MaxSleep,       \* bound: the longest sleep a guest asks for
    MaxDebt,        \* bound: debt saturates here
    Calls,          \* the ECALLs this instance's guests make
    TrapActions     \* what config.trap_handler may answer

ASSUME SchedAssumption ==
    /\ NumVms \in Nat \ {0} /\ Baseline \in Nat \ {0}
    /\ MaxOverrun \in Nat /\ MaxDebt \in Nat /\ MaxOverrun <= MaxDebt
    /\ TickMod \in Nat \ {0} /\ MaxGap \in Nat /\ MaxSleep \in Nat
    /\ TickSources \subseteq BOOLEAN /\ RunDrivers \subseteq BOOLEAN

Vm == 0 .. NumVms - 1
NoVm == NumVms
Reason == {"none", "yielded", "sleep", "mailbox_recv", "on_child", "frame_consumed"}

VARIABLES
    config,         \* how the host set the scheduler up and drives it
    vms,            \* slots with a VmCpu
    cpu,            \* per slot: the VmCpu fields the scheduler reads
    ready, blocked, \* the two bitmaps
    debt,           \* unpaid overrun
    consumed,       \* critical_section_consumed
    cursor,
    global_tick,
    result,         \* what the last vm_sched_step returned
    turn,           \* the VM whose turn is under way, or NoVm
    budget,         \* instructions left for the next vm_step of this turn
    debt_paid,      \* debt the turn's quantum was shortened by
    due,            \* history: true ticks left to a sleeper's deadline
    waited,         \* history: turns given to others since v became ready
    section         \* history: instructions retired in this critical section

slotvars == <<vms, ready, blocked>>
costvars == <<debt, consumed>>
turnvars == <<turn, budget, debt_paid, section>>
vars == <<config, slotvars, cpu, costvars, cursor, global_tick, result, turnvars, due, waited>>

HasTickSource == config.tick_source
DrivenByRun == config.run

FreshCpu == [halted |-> FALSE, in_critical |-> FALSE, reason |-> "none", deadline |-> 0]
Cpu == [halted : BOOLEAN, in_critical : BOOLEAN, reason : Reason, deadline : 0 .. TickMod - 1]

Init ==                                                 \* vm_sched_init
    /\ config \in [tick_source : TickSources, run : RunDrivers]
    /\ vms = {} /\ ready = {} /\ blocked = {}
    /\ cpu = [v \in Vm |-> FreshCpu]
    /\ debt = [v \in Vm |-> 0] /\ consumed = [v \in Vm |-> 0]
    /\ cursor = 0 /\ global_tick = 0
    /\ result = "all_halted"
    /\ turn = NoVm /\ budget = 0 /\ debt_paid = 0 /\ section = 0
    /\ due = [v \in Vm |-> 0] /\ waited = [v \in Vm |-> 0]

-----------------------------------------------------------------------------
\* Slots.  Registering takes a VmCpu that vm_init has just set up.

Admit(v) ==
    /\ vms' = vms \cup {v}
    /\ cpu' = [cpu EXCEPT ![v] = FreshCpu]
    /\ ready' = ready \cup {v}
    /\ debt' = [debt EXCEPT ![v] = 0] /\ consumed' = [consumed EXCEPT ![v] = 0]
    /\ UNCHANGED <<blocked, cursor, global_tick, result, turnvars, due, waited>>

vm_sched_register(v) ==
    /\ turn = NoVm
    /\ v \notin vms /\ \A w \in Vm : w < v => w \in vms
    /\ Admit(v)

vm_sched_register_at(v) ==
    /\ turn = NoVm
    /\ v \notin vms
    /\ Admit(v)

Drop_KeepBlocked(v) ==
    /\ ready' = ready \ {v} /\ blocked' = blocked
    /\ waited' = [waited EXCEPT ![v] = 0] /\ due' = [due EXCEPT ![v] = 0]

\* The bitmap bits, and the history that goes with them, of a slot that stops.
Drop(v) ==
    /\ ready' = ready \ {v} /\ blocked' = blocked \ {v}
    /\ waited' = [waited EXCEPT ![v] = 0] /\ due' = [due EXCEPT ![v] = 0]

vm_sched_unregister(v) ==
    /\ turn = NoVm
    /\ v \in vms
    /\ vms' = vms \ {v}
    /\ cpu' = [cpu EXCEPT ![v] = FreshCpu]              \* the caller frees it
    /\ Drop(v)
    /\ debt' = [debt EXCEPT ![v] = 0] /\ consumed' = [consumed EXCEPT ![v] = 0]
    /\ UNCHANGED <<cursor, global_tick, result, turnvars>>

vm_sched_halt(v) ==
    /\ turn = NoVm
    /\ v \in vms
    /\ cpu' = [cpu EXCEPT ![v].halted = TRUE]
    /\ Drop(v)
    /\ UNCHANGED <<vms, costvars, cursor, global_tick, result, turnvars>>

-----------------------------------------------------------------------------
\* The clock.  A tick source is sampled, so it may have moved by any amount;
\* the scheduler's own counter moves by the instructions retired.  The bound
\* on lateness is the one tick_reached relies on: deadlines are looked at
\* before they are half the counter's range old.

tick_reached_Unsigned(now, d) == now >= d

tick_reached(now, d) == (now - d) % TickMod < TickMod \div 2

\* v waits for the clock; deadline 0 means a receive that waits indefinitely.
Sleeping(v) ==
    /\ v \in blocked
    /\ \/ cpu[v].reason = "sleep"
       \/ cpu[v].reason = "mailbox_recv" /\ cpu[v].deadline # 0

Advance(used) ==
    IF HasTickSource
    THEN {d \in 0 .. MaxGap : \A v \in Vm : Sleeping(v) => due[v] - d >= -MaxGap}
    ELSE {used}

Later(d) == (global_tick + d) % TickMod
Aged(d) == [v \in Vm |-> IF Sleeping(v) THEN due[v] - d ELSE 0]
Ticked(d) == global_tick' = Later(d) /\ due' = Aged(d)

-----------------------------------------------------------------------------
\* vm_sched_step up to the pick.

Expired(v, now) ==
    CASE cpu[v].reason \in {"yielded", "none"} -> TRUE
      [] cpu[v].reason = "sleep" -> tick_reached(now, cpu[v].deadline)
      [] cpu[v].reason = "mailbox_recv" -> cpu[v].deadline # 0 /\ tick_reached(now, cpu[v].deadline)
      [] cpu[v].reason \in {"on_child", "frame_consumed"} -> FALSE

\* Who the pass wakes: the blocked slots that still hold a VmCpu.
Woken(now) == {v \in blocked \cap vms : Expired(v, now)}
Unblocked(c) == [c EXCEPT !.reason = "none", !.deadline = 0]

wake_expired_timeouts(d) ==
    LET now == Later(d) IN
    /\ global_tick' = now
    /\ ready' = ready \cup Woken(now)
    /\ blocked' = blocked \ Woken(now)
    /\ cpu' = [v \in Vm |-> IF v \in Woken(now) THEN Unblocked(cpu[v]) ELSE cpu[v]]
    /\ due' = [v \in Vm |-> IF v \in Woken(now) THEN 0 ELSE Aged(d)[v]]

\* How many slots after c the slot v is, going round.
Dist(c, v) == IF v >= c THEN v - c ELSE v - c + NumVms
After(v) == IF v + 1 = NumVms THEN 0 ELSE v + 1

find_next_ready_Lowest(set, c) == CHOOSE v \in set : \A w \in set : v <= w

find_next_ready(set, c) == CHOOSE v \in set : \A w \in set : Dist(c, v) <= Dist(c, w)

Payment(v) == IF debt[v] < Baseline \div 2 THEN debt[v] ELSE Baseline \div 2
effective_quantum(v) == Baseline - Payment(v)

Sample_Frozen == {0}

\* The tick source is read before deadlines are looked at, every step.
Sample == Advance(0)

CanStep == turn = NoVm /\ (DrivenByRun => result # "idle")

StepRun ==
    /\ CanStep
    /\ \E d \in Sample : wake_expired_timeouts(d)
    /\ ready' # {}
    /\ LET v == find_next_ready(ready', cursor) IN
         /\ turn' = v
         /\ budget' = effective_quantum(v) /\ debt_paid' = Payment(v)
         /\ waited' = [w \in Vm |-> IF w \in ready' \ {v} THEN waited[w] + 1 ELSE 0]
    /\ result' = "ran" /\ section' = 0
    /\ UNCHANGED <<vms, costvars, cursor>>

StepIdle ==
    /\ CanStep
    /\ \E d \in Sample : wake_expired_timeouts(d)
    /\ ready' = {}
    /\ result' = IF blocked' = {} THEN "all_halted" ELSE "idle"
    /\ UNCHANGED <<vms, costvars, cursor, turnvars, waited>>

\* vm_sched_run after an idle step: the pass it makes to find the next deadline
\* wakes no one the step has not woken, the idle handler returns, time moves.
RunIdle ==
    /\ turn = NoVm /\ result = "idle" /\ DrivenByRun
    /\ \E d \in Advance(1) : Ticked(d)
    /\ result' = "ran"
    /\ UNCHANGED <<slotvars, cpu, costvars, cursor, turnvars, waited>>

-----------------------------------------------------------------------------
\* The outcomes of one vm_step(cpu, budget).  It returns ECALL, TRAPPED or
\* HALTED from inside its loop, so with fewer instructions retired than the
\* budget; hence the branch for "used >= budget" after an ECALL is dead code.

Running == turn # NoVm /\ ~cpu[turn].halted
Rest(n) == IF n > MaxDebt THEN MaxDebt ELSE n
Longest == MaxOverrun + 2 * Baseline + 1
InSection(n) == IF section + n > Longest THEN Longest ELSE section + n

EndTurn ==
    /\ turn' = NoVm /\ cursor' = After(turn)
    /\ budget' = 0 /\ debt_paid' = 0 /\ section' = 0

\* VM_STEP_QUANTUM_EXPIRED outside a critical section: pay and rotate.
ExpireRotate ==
    /\ Running /\ ~cpu[turn].in_critical
    /\ \E d \in Advance(budget) : Ticked(d)
    /\ debt' = [debt EXCEPT ![turn] = IF debt_paid <= @ THEN @ - debt_paid ELSE 0]
    /\ consumed' = [consumed EXCEPT ![turn] = 0]
    /\ EndTurn
    /\ UNCHANGED <<slotvars, cpu, result, waited>>

\* In a critical section: keep running on another full budget, on credit.
ExpireExtend_NoDebt ==
    /\ Running /\ cpu[turn].in_critical
    /\ consumed[turn] + budget <= MaxOverrun
    /\ \E d \in Advance(budget) : Ticked(d)
    /\ consumed' = [consumed EXCEPT ![turn] = @ + budget]
    /\ budget' = Baseline /\ section' = InSection(budget)
    /\ UNCHANGED <<slotvars, cpu, debt, cursor, result, turn, debt_paid, waited>>

ExpireExtend_NoCap ==
    /\ Running /\ cpu[turn].in_critical
    /\ \E d \in Advance(budget) : Ticked(d)
    /\ consumed' = [consumed EXCEPT ![turn] = Rest(@ + budget)]
    /\ debt' = [debt EXCEPT ![turn] = Rest(@ + budget)]
    /\ budget' = Baseline /\ section' = InSection(budget)
    /\ UNCHANGED <<slotvars, cpu, cursor, result, turn, debt_paid, waited>>

ExpireExtend ==
    /\ Running /\ cpu[turn].in_critical
    /\ consumed[turn] + budget <= MaxOverrun
    /\ \E d \in Advance(budget) : Ticked(d)
    /\ consumed' = [consumed EXCEPT ![turn] = @ + budget]
    /\ debt' = [debt EXCEPT ![turn] = Rest(@ + budget)]
    /\ budget' = Baseline /\ section' = InSection(budget)
    /\ UNCHANGED <<slotvars, cpu, cursor, result, turn, debt_paid, waited>>

\* ... until the overrun passes the cap.
ExpireForceHalt ==
    /\ Running /\ cpu[turn].in_critical
    /\ consumed[turn] + budget > MaxOverrun
    /\ \E d \in Advance(budget) : Ticked(d)
    /\ cpu' = [cpu EXCEPT ![turn].halted = TRUE]
    /\ ready' = ready \ {turn}
    /\ consumed' = [consumed EXCEPT ![turn] = 0] /\ debt' = [debt EXCEPT ![turn] = 0]
    /\ EndTurn
    /\ UNCHANGED <<vms, blocked, result, waited>>

\* VM_STEP_HALTED; at once, with nothing retired, when already halted.
StepHalted ==
    /\ turn # NoVm
    /\ \E used \in 0 .. budget - 1 : \E d \in Advance(used) :
         /\ cpu[turn].halted => used = 0
         /\ Ticked(d)
    /\ cpu' = [cpu EXCEPT ![turn].halted = TRUE]
    /\ ready' = ready \ {turn} /\ blocked' = blocked \ {turn}
    /\ EndTurn
    /\ UNCHANGED <<vms, costvars, result, waited>>

\* VM_STEP_TRAPPED: handle_trap obeys the configured handler.
TrapTerminate ==
    /\ Running /\ "terminate" \in TrapActions
    /\ \E used \in 0 .. budget - 1 : \E d \in Advance(used) : Ticked(d)
    /\ cpu' = [cpu EXCEPT ![turn].halted = TRUE]
    /\ ready' = ready \ {turn} /\ blocked' = blocked \ {turn}
    /\ EndTurn
    /\ UNCHANGED <<vms, costvars, result, waited>>

TrapResume ==
    /\ Running /\ "resume" \in TrapActions
    /\ \E used \in 0 .. budget - 1 : \E d \in Advance(used) : Ticked(d)
    /\ EndTurn
    /\ UNCHANGED <<slotvars, cpu, costvars, result, waited>>

-----------------------------------------------------------------------------
\* VM_STEP_ECALL.  A handler is a function from the caller's VmCpu to the one
\* it leaves behind; then the scheduler looks at what it left.

\* After dispatch: c is the caller's VmCpu, n the ticks to its deadline,
\* cpus/rdy/blk what the handler made of everyone's state.
AfterDispatch(used, d, c, n, cpus, rdy, blk) ==
    /\ cpu' = [cpus EXCEPT ![turn] = c]
    /\ global_tick' = Later(d)
    /\ due' = [Aged(d) EXCEPT ![turn] = n]
    /\ \/ /\ c.halted
          /\ ready' = rdy \ {turn} /\ blocked' = blk \ {turn}
          /\ EndTurn
       \/ /\ ~c.halted /\ c.reason # "none"             \* apply_block_transition
          /\ ready' = rdy \ {turn} /\ blocked' = blk \cup {turn}
          /\ EndTurn
       \/ /\ ~c.halted /\ c.reason = "none"
          /\ ready' = rdy /\ blocked' = blk
          /\ budget' = budget - used
          /\ section' = IF c.in_critical /\ cpu[turn].in_critical THEN InSection(used) ELSE 0
          /\ UNCHANGED <<turn, cursor, debt_paid>>
    /\ UNCHANGED <<costvars, result>>

\* A handler that touches its caller only.
Ecall(used, d, c, n) ==
    /\ Running
    /\ AfterDispatch(used, d, c, n, cpu, ready, blocked)
    /\ UNCHANGED <<vms, waited>>

vm_handle_exit(c) == [c EXCEPT !.halted = TRUE]
vm_handle_yield(c) == [c EXCEPT !.reason = "yielded"]
vm_handle_critical_enter(c) == IF c.in_critical THEN c ELSE [c EXCEPT !.in_critical = TRUE]
vm_handle_critical_exit(c) == IF ~c.in_critical THEN c ELSE [c EXCEPT !.in_critical = FALSE]
handle_sleep_ticks(c, n, now) ==
    IF n = 0 THEN [c EXCEPT !.reason = "yielded"]
             ELSE [c EXCEPT !.reason = "sleep", !.deadline = (now + n) % TickMod]
handle_sleep_until(c, deadline, now) ==
    IF tick_reached(now, deadline) THEN [c EXCEPT !.reason = "yielded"]
                                   ELSE [c EXCEPT !.reason = "sleep", !.deadline = deadline]

EcallPlain ==
    \E used \in 0 .. budget - 1 : \E d \in Advance(used) :
        \/ "exit" \in Calls /\ Ecall(used, d, vm_handle_exit(cpu[turn]), 0)
        \/ "yield" \in Calls /\ Ecall(used, d, vm_handle_yield(cpu[turn]), 0)
        \/ "critical_enter" \in Calls /\ Ecall(used, d, vm_handle_critical_enter(cpu[turn]), 0)
        \/ "critical_exit" \in Calls /\ Ecall(used, d, vm_handle_critical_exit(cpu[turn]), 0)

\* The handlers read the clock after this vm_step has moved it.
EcallSleepTicks ==
    \E used \in 0 .. budget - 1 : \E d \in Advance(used) : \E n \in 0 .. MaxSleep :
        /\ "sleep_ticks" \in Calls
        /\ Ecall(used, d, handle_sleep_ticks(cpu[turn], n, Later(d)), n)

\* A guest asks for an instant at most MaxSleep ahead or behind.
EcallSleepUntil ==
    \E used \in 0 .. budget - 1 : \E d \in Advance(used) : \E n \in -MaxSleep .. MaxSleep :
        /\ "sleep_until" \in Calls
        /\ Ecall(used, d, handle_sleep_until(cpu[turn], (Later(d) + n) % TickMod, Later(d)),
                 IF n > 0 THEN n ELSE 0)

Step == StepRun \/ StepIdle \/ RunIdle
Outcome ==
    \/ ExpireRotate \/ ExpireExtend \/ ExpireForceHalt
    \/ StepHalted \/ TrapTerminate \/ TrapResume
    \/ EcallPlain \/ EcallSleepTicks \/ EcallSleepUntil
Host == \E v \in Vm :
    vm_sched_register(v) \/ vm_sched_register_at(v) \/ vm_sched_unregister(v) \/ vm_sched_halt(v)

Next == (Step \/ Outcome \/ Host) /\ UNCHANGED config

Expire == ExpireRotate \/ ExpireExtend \/ ExpireForceHalt

\* The driver loop keeps calling vm_sched_step; a guest that keeps running uses
\* up its budget, since a loop of ECALLs needs a branch, which is retired; and
\* time passes: the tick source is a clock, and retired instructions add up.
Fairness ==
    /\ WF_vars(Step /\ UNCHANGED config)
    /\ WF_vars(Expire /\ UNCHANGED config)
    /\ WF_vars(StepHalted /\ cpu[turn].halted /\ UNCHANGED config)
    /\ SF_vars((Step \/ Outcome) /\ global_tick' # global_tick /\ UNCHANGED config)

Spec == Init /\ [][Next]_vars /\ Fairness

-----------------------------------------------------------------------------
\* Every variable but config, which no step changes, has its type; a turn under way
\* has instructions left to run.
TypeOK ==
    /\ vms \subseteq Vm /\ ready \subseteq Vm /\ blocked \subseteq Vm
    /\ cpu \in [Vm -> Cpu]
    /\ debt \in [Vm -> 0 .. MaxDebt] /\ consumed \in [Vm -> 0 .. MaxOverrun]
    /\ cursor \in Vm
    /\ global_tick \in 0 .. TickMod - 1
    /\ result \in {"ran", "idle", "all_halted"}
    /\ turn \in Vm \cup {NoVm}
    /\ budget \in 0 .. Baseline /\ (turn # NoVm => budget > 0)
    /\ debt_paid \in 0 .. Baseline \div 2
    /\ section \in 0 .. Longest
    /\ due \in [Vm -> Int] /\ waited \in [Vm -> Nat]

\* What vm_sched.h says of the bitmaps ("disjoint and their union is the
\* registered-and-not-halted set"), and that a VM is blocked exactly when it has
\* a reason to be: find_next_ready never picks a VM that waits, and no VM that
\* waits for nothing is left out of the ready set.
BitmapsPartition ==
    /\ ready \cap blocked = {}
    /\ ready \cup blocked = {v \in vms : ~cpu[v].halted}
    /\ \A v \in ready \cup blocked : v \in blocked <=> cpu[v].reason # "none"

\* Round robin (vm_sched.h, "each ready VM gets exactly one quantum per cycle"):
\* whatever blocks, wakes, comes and goes meanwhile, a VM that stays ready is
\* passed over at most once for each other slot.
BoundedOvertaking == \A v \in Vm : waited[v] < NumVms

\* The scheduler never takes the processor from a VM in a critical section, however
\* many budgets it uses: the VM halts, traps, or itself makes a blocking call.
SectionNotPreempted ==
    [][turn # NoVm /\ turn' # turn /\ cpu[turn].in_critical =>
          cpu'[turn].halted \/ cpu'[turn].reason # "none" \/ TrapResume]_vars

\* vm_core.h, in_critical: "Blocking ECALLs while in_critical is set are rejected by
\* their handlers", so no VM is ever suspended inside its critical section.
CriticalIsAtomic ==
    \A v \in vms : cpu[v].in_critical /\ ~cpu[v].halted => turn = v

\* What counts towards the overrun cap is also owed: no path forgets the debt
\* while the overrun still counts, or pays it and keeps counting.
OverrunIsOwed == \A v \in Vm : consumed[v] <= debt[v]

\* wake_expired_timeouts wakes a sleeper exactly when its time has come, neither
\* early nor a pass late, across the wrap of the tick counter.
TimersExact ==
    [][StepRun \/ StepIdle =>
          \A v \in Vm : Sleeping(v) =>
              (v \in ready' <=> due[v] <= (global_tick' - global_tick) % TickMod)]_vars

\* A sleeping VM wakes up, even when every VM is asleep and none runs to move the
\* clock, if there is a tick source to sample (vm_sched_step's comment on step 0) or
\* vm_sched_run moves it.  (With neither, nobody does.)
SleeperWakes ==
    \A v \in Vm : (Sleeping(v) /\ (HasTickSource \/ DrivenByRun)) ~> ~Sleeping(v)

\* No guest keeps the processor: critical sections included, every turn ends.
TurnEnds == turn # NoVm ~> turn = NoVm

\* vm_sched.h on max_critical_overrun: a critical section that goes on for more
\* than this many instructions past the baseline is force-terminated (checked
\* at the end of a budget, hence the second Baseline).
CriticalOverrunCapped == section <= MaxOverrun + 2 * Baseline

\* vm_sched.h on debt: it "drains linearly across turns until it hits zero" for a
\* VM that keeps getting turns and enters no further critical section.
DebtDrains ==
    \A v \in Vm :
        []<>(turn = v) /\ <>[](~cpu[v].in_critical) => []<>(debt[v] = 0)

=============================================================================
