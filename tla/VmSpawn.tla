------------------------------ MODULE VmSpawn ------------------------------
(***************************************************************************)
(* The life of a VM in vm_system.c: loading, SYS_SPAWN_AND_WAIT, exiting   *)
(* or crashing, the Ctrl-C kill of mgapi, the reap that follows every      *)
(* vm_system_step, unloading, and the shared blocks a VM holds meanwhile.  *)
(*                                                                         *)
(* The host either calls vm_system_step in a loop of its own (the worker   *)
(* of mgapi), and then each step ends with the reap, or calls              *)
(* vm_system_run, which never reaps.  A guest's registers are its own      *)
(* business while it runs, so a0 is 0 then; what matters is the value that *)
(* is there when it stops and the one it finds when it is woken.           *)
(***************************************************************************)
EXTENDS VmSched, FiniteSets

CONSTANTS
    Blocks,         \* the blocks of the shared slab, all of one size
    AllocCap,       \* VM_PER_VM_ALLOC_CAP
    ExitCodes,      \* the arguments guests give SYS_EXIT
    Kills           \* whether Ctrl-C arrives

ASSUME SpawnAssumption == AllocCap \in Nat /\ Kills \in BOOLEAN /\ ExitCodes \subseteq Int

EIO == 5
SIGINT_CODE == 130
Trap == {"none", "ecall", "fault", "breakpoint", "halt"}

VARIABLES
    a0,             \* per VM: register a0
    trap,           \* per VM: trap_cause, its eight synchronous faults as one
    child,          \* per VM: block_child_vm, or NoVm
    owned,          \* per VM: alloc_tracking
    inuse,          \* the shared slab: blocks not on its free list
    reaping,        \* vm_system_step has stepped and has VMs left to reap
    parent,         \* history: the VM that spawned it and is still loaded
    status          \* history: what its parent should be told

memvars == <<owned, inuse>>
exitvars == <<trap, child, parent, status>>
spawnvars == <<vars, a0, memvars, exitvars, reaping>>

Reaps == ~DrivenByRun
Halted == {v \in vms : cpu[v].halted}
Least(S) == CHOOSE v \in S : \A w \in S : v <= w

SpawnInit ==
    /\ Init
    /\ a0 = [v \in Vm |-> 0] /\ trap = [v \in Vm |-> "none"]
    /\ child = [v \in Vm |-> NoVm]
    /\ owned = [v \in Vm |-> {}] /\ inuse = {}
    /\ reaping = FALSE
    /\ parent = [v \in Vm |-> NoVm] /\ status = [v \in Vm |-> 0]

\* vm_system_step goes on to the reap once the scheduler's step is over.
StepOver == reaping' = (Reaps /\ turn' = NoVm /\ \E v \in vms' : cpu'[v].halted)

-----------------------------------------------------------------------------
\* The host loads a program.
Load(v) ==
    /\ ~reaping
    /\ vm_sched_register(v)
    /\ a0' = [a0 EXCEPT ![v] = 0] /\ trap' = [trap EXCEPT ![v] = "none"]
    /\ child' = [child EXCEPT ![v] = NoVm]
    /\ UNCHANGED <<memvars, parent, status, reaping>>

\* vm_sched_step up to the pick: the wake pass also writes a0.
Sched ==
    /\ ~reaping
    /\ StepRun \/ StepIdle
    /\ a0' = [v \in Vm |-> IF \/ v \in Woken(global_tick')
                              \/ v = turn' /\ ~cpu[v].halted
                           THEN 0 ELSE a0[v]]
    /\ StepOver
    /\ UNCHANGED <<memvars, exitvars>>

RunLoop == RunIdle /\ UNCHANGED <<a0, memvars, exitvars, reaping>>

\* The rest of a turn that leaves everything here alone.
Compute ==
    /\ \/ ExpireRotate
       \/ turn \in Halted /\ StepHalted
       \/ "yield" \in Calls /\ \E used \in 0 .. budget - 1 : \E d \in Advance(used) :
             Ecall(used, d, vm_handle_yield(cpu[turn]), 0)
    /\ StepOver
    /\ UNCHANGED <<a0, memvars, exitvars>>

Stops(v, code, cause, told) ==
    /\ a0' = [a0 EXCEPT ![v] = code]
    /\ trap' = [trap EXCEPT ![v] = cause]
    /\ status' = [status EXCEPT ![v] = told]

Exit ==
    /\ \E used \in 0 .. budget - 1 : \E d \in Advance(used) :
         Ecall(used, d, vm_handle_exit(cpu[turn]), 0)
    /\ \E code \in ExitCodes : Stops(turn, code, "ecall", code % 256)
    /\ StepOver
    /\ UNCHANGED <<memvars, child, parent>>

Fault ==
    /\ TrapTerminate
    /\ \/ Stops(turn, 0, "fault", -EIO)
       \/ Stops(turn, 0, "breakpoint", 0)
    /\ StepOver
    /\ UNCHANGED <<memvars, child, parent>>

-----------------------------------------------------------------------------
\* SYS_SPAWN_AND_WAIT.  vm_system_load_vm takes the lowest free slot, whose debt
\* vm_sched_unregister has cleared.  A failed load undoes what it did and only
\* reports.
SpawnRefused ==
    /\ "spawn" \in Calls
    /\ \E used \in 0 .. budget - 1 : \E d \in Advance(used) : Ecall(used, d, cpu[turn], 0)
    /\ UNCHANGED <<a0, memvars, exitvars, reaping>>

SpawnAndWait(c) ==
    /\ "spawn" \in Calls /\ Running
    /\ c \notin vms /\ \A w \in Vm : w < c => w \in vms
    /\ vms' = vms \cup {c}
    /\ \E used \in 0 .. budget - 1 : \E d \in Advance(used) :
         AfterDispatch(used, d, [cpu[turn] EXCEPT !.reason = "on_child"], 0,
                       [cpu EXCEPT ![c] = FreshCpu], ready \cup {c}, blocked)
    /\ child' = [child EXCEPT ![turn] = c, ![c] = NoVm]
    /\ parent' = [parent EXCEPT ![c] = turn]
    /\ a0' = [a0 EXCEPT ![c] = 0] /\ trap' = [trap EXCEPT ![c] = "none"]
    /\ StepOver
    /\ UNCHANGED <<memvars, status, waited>>

-----------------------------------------------------------------------------
\* SYS_ALLOC and SYS_FREE.  slab_alloc is any free block.
handle_alloc ==
    /\ "alloc" \in Calls
    /\ \E used \in 0 .. budget - 1 : \E d \in Advance(used) : Ecall(used, d, cpu[turn], 0)
    /\ IF Cardinality(owned[turn]) < AllocCap /\ inuse # Blocks
       THEN \E b \in Blocks \ inuse :
              /\ inuse' = inuse \cup {b}
              /\ owned' = [owned EXCEPT ![turn] = @ \cup {b}]
       ELSE UNCHANGED memvars                           \* -ENOMEM
    /\ UNCHANGED <<a0, exitvars, reaping>>

\* Any address of a block may be passed; only a block of one's own is freed.
handle_free ==
    /\ "free" \in Calls
    /\ \E used \in 0 .. budget - 1 : \E d \in Advance(used) : Ecall(used, d, cpu[turn], 0)
    /\ \E b \in Blocks :
         IF b \in owned[turn]
         THEN /\ inuse' = inuse \ {b}
              /\ owned' = [owned EXCEPT ![turn] = @ \ {b}]
         ELSE UNCHANGED memvars                         \* -EINVAL
    /\ UNCHANGED <<a0, exitvars, reaping>>

-----------------------------------------------------------------------------
\* vm_system_reap_halted_children, one slot of its loop at a time.

Delivered_NoMask(c) == IF trap[c] = "fault" THEN -EIO ELSE a0[c]

Delivered(c) == IF trap[c] = "fault" THEN -EIO ELSE a0[c] % 256

Parked(c) == {p \in vms : cpu[p].reason = "on_child" /\ child[p] = c}

\* vm_sched_wake_child: the first parent found, if it is really blocked.
WakeChild_Forgotten(c) == {}

WakeChild(c) == IF Parked(c) = {} THEN {} ELSE {Least(Parked(c))} \cap blocked

unload_KeepBlocks(c) ==
    /\ inuse' = inuse
    /\ owned' = [owned EXCEPT ![c] = {}]

\* vm_system_unload_vm: the blocks the VM still holds.
vm_system_unload_vm(c) ==
    /\ inuse' = inuse \ owned[c]
    /\ owned' = [owned EXCEPT ![c] = {}]

Reap ==
    /\ reaping
    /\ LET c == Least(Halted)
           woken == WakeChild(c)
       IN /\ cpu' = [v \in Vm |-> IF v = c THEN FreshCpu
                                  ELSE IF v \in woken THEN Unblocked(cpu[v]) ELSE cpu[v]]
          /\ a0' = [v \in Vm |-> IF v = c THEN 0 ELSE IF v \in woken THEN Delivered(c) ELSE a0[v]]
          /\ child' = [v \in Vm |-> IF v \in woken \cup {c} THEN NoVm ELSE child[v]]
          /\ vms' = vms \ {c}
          /\ ready' = (ready \cup woken) \ {c} /\ blocked' = blocked \ (woken \cup {c})
          /\ debt' = [debt EXCEPT ![c] = 0] /\ consumed' = [consumed EXCEPT ![c] = 0]
          /\ vm_system_unload_vm(c)
          /\ trap' = [trap EXCEPT ![c] = "none"]
          /\ parent' = [v \in Vm |-> IF v = c \/ parent[v] = c THEN NoVm ELSE parent[v]]
          /\ status' = [status EXCEPT ![c] = 0]
          /\ due' = [due EXCEPT ![c] = 0] /\ waited' = [waited EXCEPT ![c] = 0]
          /\ reaping' = (Halted # {c})
    /\ UNCHANGED <<cursor, global_tick, result, turnvars>>

\* mgapi_vm_kill_running_spawn, between two steps: the first live child that
\* some VM waits for.  The scheduler's bitmaps are left as they are.
Victims == {p \in vms : cpu[p].reason = "on_child" /\ child[p] \in vms /\ ~cpu[child[p]].halted}

Kill ==
    /\ Kills /\ turn = NoVm /\ ~reaping
    /\ Victims # {}
    /\ LET c == child[Least(Victims)] IN
         /\ cpu' = [cpu EXCEPT ![c].halted = TRUE]
         /\ Stops(c, SIGINT_CODE, "halt", SIGINT_CODE)
    /\ UNCHANGED <<slotvars, costvars, cursor, global_tick, result, turnvars, due, waited,
                   memvars, child, parent, reaping>>

-----------------------------------------------------------------------------
SpawnNext ==
    /\ \/ Sched \/ RunLoop \/ Compute \/ Exit \/ Fault
       \/ SpawnRefused \/ handle_alloc \/ handle_free
       \/ \E v \in Vm : Load(v) \/ SpawnAndWait(v)
       \/ Reap \/ Kill
    /\ UNCHANGED config

\* The host keeps calling its driver, and budgets run out.
SpawnFairness ==
    /\ WF_spawnvars((Sched \/ RunLoop) /\ UNCHANGED config)
    /\ WF_spawnvars(Reap /\ UNCHANGED config)
    /\ WF_spawnvars(ExpireRotate /\ Compute /\ UNCHANGED config)
    /\ WF_spawnvars(turn \in Halted /\ Compute /\ UNCHANGED config)

SpawnSpec == SpawnInit /\ [][SpawnNext]_spawnvars /\ SpawnFairness

-----------------------------------------------------------------------------
Waiting(p) == p \in blocked /\ cpu[p].reason = "on_child"

\* A VM that sleeps in SYS_SPAWN_AND_WAIT waits for a VM that is loaded and that
\* it spawned itself: the slot of its child is not given away before it is told.
WaitsForOwnChild ==
    \A p \in blocked \ Halted : Waiting(p) => child[p] \in vms /\ parent[child[p]] = p

\* Every block is free or tracked by exactly one VM, so that unloading a VM
\* leaks none of its blocks and frees none of another's.
BlocksAccounted ==
    /\ inuse = UNION {owned[v] : v \in vms}
    /\ \A v \in Vm : \A w \in Vm \ {v} : owned[v] \cap owned[w] = {}

\* The contract of SYS_SPAWN_AND_WAIT ("exit code of spawned VM (0..255 from its
\* SYS_EXIT), or -errno"): when the call returns, the child is unloaded and a0 says
\* how it ended.
ExitCodeDelivered ==
    [][\A p \in vms \cap vms' :
          Waiting(p) /\ cpu'[p].reason # "on_child" =>
              /\ child[p] \notin vms'
              /\ trap[child[p]] # "halt" => a0'[p] = status[child[p]]]_spawnvars

\* ... and it does return once the child has stopped, however it stopped, in a host
\* that reaps.
SpawnReturns ==
    \A p \in Vm : (Waiting(p) /\ child[p] \in Halted /\ Reaps) ~> ~Waiting(p)

\* tcp_listen.c on Ctrl-C: "the reap delivers exit 130 to the shell".
KillCodeDelivered ==
    [][\A p \in vms \cap vms' :
          Waiting(p) /\ cpu'[p].reason # "on_child" /\ trap[child[p]] = "halt" =>
              a0'[p] = SIGINT_CODE]_spawnvars

\* vm_host_fs_spawn.c: the parent resumes "when the child is reaped", under any
\* driver the headers offer (vm_host_fs.h's example calls vm_system_run).
SpawnReturnsUnderRun ==
    \A p \in Vm : (Waiting(p) /\ child[p] \in Halted) ~> ~Waiting(p)

=============================================================================
