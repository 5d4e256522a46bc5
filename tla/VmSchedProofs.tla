--------------------------- MODULE VmSchedProofs ---------------------------
(***************************************************************************)
(* The scheduler's safety for every number of slots, quantum, cap, counter *)
(* width and clock: its bitmaps partition the live VMs, no ready VM is     *)
(* passed over twice for the same slot, and overrun is always owed.  On    *)
(* top of it mail between VMs, for every mailbox depth and timeout:        *)
(* messages are received in the order they were accepted, and no VM sleeps *)
(* while one waits for it.                                                 *)
(*                                                                         *)
(* BoundedOvertaking is not inductive: that v was passed over at most      *)
(* NumVms - 1 times holds because each time the scan restarts closer to v. *)
(* InTurn states that trade-off, distance plus turns lost, from the slot   *)
(* the next scan starts at.                                                *)
(*                                                                         *)
(* ReceivedInOrder counts messages; it is inductive only together with     *)
(* what lies in the queues: the i-th message waiting is the i-th after the *)
(* last one received (Numbered).  That the direct path may skip the queue  *)
(* is NoneStranded, and that the receiver it copies to really sleeps is    *)
(* the scheduler's BitmapsPartition, so its invariant is carried along.    *)
(*                                                                         *)
(* The last part is the life of VMs: loading, spawning, exit and reaping.  *)
(***************************************************************************)
EXTENDS VmMail, VmSpawn, WellFoundedInduction, TLAPS

\* Where the next find_next_ready starts.
Origin == IF turn = NoVm THEN cursor ELSE After(turn)

\* The VM whose turn it is can be run.
RunnerIsReady == turn # NoVm => turn \in ready

\* Each turn given to another brings the scan closer to a VM that waits.
InTurn ==
    \A v \in Vm : IF v \in ready /\ v # turn
                  THEN waited[v] + Dist(Origin, v) < NumVms
                  ELSE waited[v] = 0

IInv == TypeOK /\ BitmapsPartition /\ RunnerIsReady /\ InTurn /\ OverrunIsOwed

-----------------------------------------------------------------------------
\* The width of the tick counter is respected.
LEMMA TickType ==
    ASSUME NEW x \in Int
    PROVE  x % TickMod \in 0 .. TickMod - 1
  BY SchedAssumption, SMT

\* Counting modulo a counter's range.
LEMMA ModUnique ==
    ASSUME NEW M \in Nat \ {0}, NEW a \in Int, NEW q \in Int, NEW r \in 0 .. M - 1, a = (M * q) + r
    PROVE  a % M = r
  BY SMTT(30)

LEMMA ModParts ==
    ASSUME NEW M \in Nat \ {0}, NEW a \in Int
    PROVE  /\ (a % M) \in 0 .. M - 1 /\ a \div M \in Int
           /\ a = (M * (a \div M)) + (a % M)
  BY SMTT(30)

LEMMA ModTurns ==
    ASSUME NEW M \in Nat \ {0}, NEW a \in Int, NEW k \in Int
    PROVE  (a + (M * k)) % M = a % M
<1> DEFINE q == a \div M
           r == a % M
<1>1. r \in 0 .. M - 1 /\ a = (M * q) + r /\ q \in Int
  BY ModParts
<1> HIDE DEF q, r
<1>2. a + (M * k) = (M * (q + k)) + r
  BY <1>1
<1>3. q + k \in Int /\ a + (M * k) \in Int
  BY <1>1
<1>4. (a + (M * k)) % M = r
  BY <1>1, <1>2, <1>3, ModUnique
<1> QED
  BY <1>4 DEF r

LEMMA ModShift ==
    ASSUME NEW M \in Nat \ {0}, NEW a \in Int, NEW b \in Int
    PROVE  /\ ((a % M) + b) % M = (a + b) % M
           /\ (b - (a % M)) % M = (b - a) % M
<1> DEFINE q == a \div M
           r == a % M
<1>1. r \in 0 .. M - 1 /\ a = (M * q) + r /\ q \in Int
  BY ModParts
<1> HIDE DEF q, r
<1>2. a + b = (r + b) + (M * q) /\ r + b \in Int
  BY <1>1
<1>3. b - r = (b - a) + (M * q) /\ b - a \in Int
  BY <1>1
<1>4. (r + b) % M = (a + b) % M
  BY <1>1, <1>2, ModTurns
<1>5. (b - r) % M = (b - a) % M
  BY <1>1, <1>3, ModTurns
<1> QED
  BY <1>4, <1>5 DEF r

LEMMA ModNear ==
    ASSUME NEW M \in Nat \ {0}, NEW a \in Int
    PROVE  /\ a >= 0 /\ a < M => a % M = a
           /\ a < 0 /\ a >= -M => a % M = M + a
  BY SMTT(30)

\* The same for the tick counter.
LEMMA TickShift ==
    ASSUME NEW a \in Int, NEW b \in Int
    PROVE  /\ ((a % TickMod) + b) % TickMod = (a + b) % TickMod
           /\ (b - (a % TickMod)) % TickMod = (b - a) % TickMod
  BY ModShift, SchedAssumption

\* Moving the clock keeps its type and the sleepers' history.
LEMMA TickedType ==
    ASSUME TypeOK, NEW n \in Nat, NEW d \in Advance(n)
    PROVE  /\ d \in Nat
           /\ Later(d) \in 0 .. TickMod - 1
           /\ Aged(d) \in [Vm -> Int]
<1>1. d \in Nat
  BY SchedAssumption DEF Advance
<1>2. Later(d) \in 0 .. TickMod - 1
  <2>1. global_tick + d \in Int
    BY <1>1 DEF TypeOK
  <2> QED
    BY <2>1, TickType DEF Later
<1>3. Aged(d) \in [Vm -> Int]
  BY <1>1 DEF Aged, TypeOK
<1> QED
  BY <1>1, <1>2, <1>3

\* Going round: the successor of a slot is a slot, distances are below NumVms,
\* and past the chosen slot every other candidate is nearer than before.
LEMMA RoundFacts ==
    ASSUME NEW c \in Vm, NEW v \in Vm, NEW w \in Vm
    PROVE  /\ After(v) \in Vm
           /\ Dist(c, v) \in 0 .. NumVms - 1
           /\ v # w /\ Dist(c, v) <= Dist(c, w) => Dist(After(v), w) < Dist(c, w)
  BY SchedAssumption DEF Vm, After, Dist

\* A non-empty set of naturals has a least element.
LEMMA LeastNat ==
    ASSUME NEW S \in SUBSET Nat, S # {}
    PROVE  \E m \in S : \A k \in S : m <= k
<1> DEFINE Less == {ss \in Nat \X Nat : ss[1] < ss[2]}
<1>1. IsWellFoundedOn(Less, Nat)
  BY NatLessThanWellFounded DEF OpToRel
<1> HIDE DEF Less
<1>2. PICK m \in S : \A k \in S : ~(<<k, m>> \in Less)
  BY <1>1, WFMin
<1>3. ASSUME NEW k \in S
      PROVE  m <= k
  <2>1. <<k, m>> \in Nat \X Nat /\ ~(<<k, m>> \in Less)
    BY <1>2
  <2>2. ~(k < m)
    BY <2>1 DEF Less
  <2> QED
    BY <2>2
<1> QED
  BY <1>3

\* find_next_ready returns the ready slot nearest the cursor.
LEMMA PickFacts ==
    ASSUME NEW set \in SUBSET Vm, set # {}, NEW c \in Vm
    PROVE  /\ find_next_ready(set, c) \in set
           /\ \A w \in set : Dist(c, find_next_ready(set, c)) <= Dist(c, w)
<1> DEFINE D == {Dist(c, v) : v \in set}
<1>1. \E v \in set : \A w \in set : Dist(c, v) <= Dist(c, w)
  <2>1. D \subseteq Nat /\ D # {}
    BY RoundFacts
  <2>2. PICK m \in D : \A k \in D : m <= k
    BY <2>1, LeastNat
  <2> QED
    BY <2>2
<1> QED
  BY <1>1 DEF find_next_ready

-----------------------------------------------------------------------------
\* vm_sched_init leaves empty bitmaps and no debt.
LEMMA InitIInv == Init => IInv
<1> SUFFICES ASSUME Init PROVE IInv
  OBVIOUS
<1>1. FreshCpu \in Cpu
  BY SchedAssumption DEF FreshCpu, Cpu, Reason
<1>2. TypeOK
  BY <1>1, SchedAssumption, SMT DEF Init, TypeOK, Vm, NoVm, Longest
<1> QED
  BY <1>2 DEF Init, IInv, BitmapsPartition, RunnerIsReady, InTurn, OverrunIsOwed

\* Host operations between turns.
LEMMA AdmitIInv ==
    ASSUME IInv, turn = NoVm, NEW v \in Vm, v \notin vms, Admit(v)
    PROVE  IInv'
<1> USE DEF IInv
<1>1. FreshCpu \in Cpu /\ FreshCpu.reason = "none" /\ ~FreshCpu.halted
  BY SchedAssumption DEF FreshCpu, Cpu, Reason
<1>2. v \notin ready /\ v \notin blocked
  BY DEF BitmapsPartition
<1>3. TypeOK'
  BY <1>1, SchedAssumption DEF TypeOK, Admit, turnvars
<1>4. BitmapsPartition'
  BY <1>1, <1>2 DEF TypeOK, Admit, BitmapsPartition
<1>5. InTurn'
  <2>1. waited[v] = 0 /\ Dist(cursor, v) < NumVms
    BY <1>2, RoundFacts, SchedAssumption DEF InTurn, TypeOK
  <2>2. \A w \in Vm : Dist(cursor, w) \in 0 .. NumVms - 1
    BY RoundFacts DEF TypeOK
  <2> QED
    BY <2>1, <2>2, SchedAssumption DEF InTurn, Admit, Origin, turnvars, TypeOK
<1>6. RunnerIsReady' /\ OverrunIsOwed'
  BY DEF RunnerIsReady, OverrunIsOwed, Admit, turnvars, TypeOK
<1> QED
  BY <1>3, <1>4, <1>5, <1>6

\* Unregistering clears both bits of the slot and its debt.
LEMMA UnregisterIInv ==
    ASSUME IInv, NEW v \in Vm, vm_sched_unregister(v)
    PROVE  IInv'
<1> USE DEF IInv, vm_sched_unregister, Drop
<1>1. FreshCpu \in Cpu
  BY SchedAssumption DEF FreshCpu, Cpu, Reason
<1>2. TypeOK'
  BY <1>1, SchedAssumption DEF TypeOK, turnvars
<1>3. BitmapsPartition'
  BY DEF TypeOK, BitmapsPartition
<1>4. InTurn'
  BY DEF InTurn, Origin, turnvars, TypeOK
<1>5. RunnerIsReady' /\ OverrunIsOwed'
  BY DEF RunnerIsReady, OverrunIsOwed, turnvars, TypeOK
<1> QED
  BY <1>2, <1>3, <1>4, <1>5

\* Halting clears both bits of a slot that stays registered.
LEMMA HaltIInv ==
    ASSUME IInv, NEW v \in Vm, vm_sched_halt(v)
    PROVE  IInv'
<1> USE DEF IInv, vm_sched_halt, Drop
<1>1. TypeOK'
  <2>1. [cpu[v] EXCEPT !.halted = TRUE] \in Cpu
    BY DEF TypeOK, Cpu
  <2>2. cpu' \in [Vm -> Cpu]
    BY <2>1 DEF TypeOK
  <2> QED
    BY <2>2 DEF TypeOK, turnvars, costvars
<1>2. BitmapsPartition'
  BY DEF TypeOK, BitmapsPartition, Cpu
<1>3. InTurn'
  BY DEF InTurn, Origin, turnvars, TypeOK
<1>4. RunnerIsReady' /\ OverrunIsOwed'
  BY DEF RunnerIsReady, OverrunIsOwed, turnvars, costvars, TypeOK
<1> QED
  BY <1>1, <1>2, <1>3, <1>4

-----------------------------------------------------------------------------
\* A VM that is woken has no reason to wait and no deadline.
LEMMA UnblockedFacts ==
    ASSUME IInv
    PROVE  \A v \in Vm : /\ Unblocked(cpu[v]) \in Cpu
                         /\ Unblocked(cpu[v]).reason = "none"
                         /\ Unblocked(cpu[v]).halted = cpu[v].halted
<1> TAKE v \in Vm
<1>1. cpu[v] \in Cpu
  BY DEF IInv, TypeOK
<1>2. 0 \in 0 .. TickMod - 1 /\ "none" \in Reason
  BY SchedAssumption DEF Reason
<1>3. Unblocked(cpu[v]).reason = "none" /\ Unblocked(cpu[v]).halted = cpu[v].halted
  BY <1>1 DEF Unblocked, Cpu
<1>4. Unblocked(cpu[v]) \in Cpu
  BY <1>1, <1>2 DEF Unblocked, Cpu
<1> QED
  BY <1>3, <1>4

\* The wake pass moves VMs between the bitmaps and touches nothing else.
LEMMA WakePass ==
    ASSUME IInv, UNCHANGED vms, NEW d \in Sample, wake_expired_timeouts(d)
    PROVE  /\ ready' \subseteq Vm /\ blocked' \subseteq Vm
           /\ cpu' \in [Vm -> Cpu]
           /\ global_tick' \in 0 .. TickMod - 1
           /\ due' \in [Vm -> Int]
           /\ ready \subseteq ready'
           /\ BitmapsPartition'
<1> USE DEF IInv
<1> DEFINE W == Woken(Later(d))
<1>1. d \in Nat /\ Later(d) \in 0 .. TickMod - 1 /\ Aged(d) \in [Vm -> Int]
  BY TickedType DEF Sample
<1>2. W \subseteq blocked
  BY DEF Woken
<1>3. \A v \in Vm : /\ Unblocked(cpu[v]) \in Cpu
                    /\ Unblocked(cpu[v]).reason = "none"
                    /\ Unblocked(cpu[v]).halted = cpu[v].halted
  BY UnblockedFacts
<1> HIDE DEF W
<1>4. /\ ready' = ready \cup W /\ blocked' = blocked \ W
      /\ cpu' = [v \in Vm |-> IF v \in W THEN Unblocked(cpu[v]) ELSE cpu[v]]
      /\ due' = [v \in Vm |-> IF v \in W THEN 0 ELSE Aged(d)[v]]
      /\ global_tick' = Later(d)
  BY DEF wake_expired_timeouts, W
<1>5. cpu' \in [Vm -> Cpu]
  BY <1>3, <1>4 DEF TypeOK
<1>6. due' \in [Vm -> Int]
  BY <1>1, <1>4
<1>7. BitmapsPartition'
  <2>1. \A v \in Vm : cpu'[v].halted = cpu[v].halted
    BY <1>3, <1>4
  <2>2. \A v \in Vm : cpu'[v].reason = IF v \in W THEN "none" ELSE cpu[v].reason
    BY <1>3, <1>4
  <2>3. vms' \subseteq Vm /\ vms' = vms
    BY DEF TypeOK
  <2> QED
    BY <1>2, <1>4, <2>1, <2>2, <2>3 DEF BitmapsPartition, TypeOK
<1> QED
  BY <1>1, <1>2, <1>4, <1>5, <1>6, <1>7 DEF TypeOK

\* A step that picks a VM: everyone else's wait grows by one, and the scan that
\* starts after the pick is closer to each of them.
LEMMA StepRunIInv == ASSUME IInv, StepRun PROVE IInv'
<1> USE DEF IInv
<1>1. PICK d \in Sample : wake_expired_timeouts(d)
  BY DEF StepRun
<1>2. vms' = vms /\ cursor' = cursor /\ debt' = debt /\ consumed' = consumed
  BY DEF StepRun, costvars
<1>3. /\ ready' \subseteq Vm /\ blocked' \subseteq Vm /\ ready \subseteq ready'
      /\ cpu' \in [Vm -> Cpu] /\ due' \in [Vm -> Int]
      /\ global_tick' \in 0 .. TickMod - 1
      /\ BitmapsPartition'
  BY <1>1, <1>2, WakePass
<1> DEFINE v == find_next_ready(ready', cursor)
<1>4. /\ turn = NoVm /\ ready' # {} /\ turn' = v
      /\ budget' = effective_quantum(v) /\ debt_paid' = Payment(v)
      /\ waited' = [w \in Vm |-> IF w \in ready' \ {v} THEN waited[w] + 1 ELSE 0]
      /\ result' = "ran" /\ section' = 0
  BY DEF StepRun, CanStep
<1>5. v \in ready' /\ \A w \in ready' : Dist(cursor, v) <= Dist(cursor, w)
  BY <1>3, <1>4, PickFacts DEF TypeOK
<1> HIDE DEF v
<1>6. v \in Vm /\ v # NoVm
  BY <1>3, <1>5, SchedAssumption DEF Vm, NoVm
<1>7. budget' \in 1 .. Baseline /\ debt_paid' \in 0 .. Baseline \div 2
  <2>1. debt[v] \in Nat
    BY <1>6, SchedAssumption DEF TypeOK
  <2> QED
    BY <1>4, <2>1, SchedAssumption, SMT DEF effective_quantum, Payment
<1>8. waited' \in [Vm -> Nat]
  BY <1>4 DEF TypeOK
<1>9. TypeOK'
  BY <1>2, <1>3, <1>4, <1>6, <1>7, <1>8, SchedAssumption DEF TypeOK, Longest
<1>10. InTurn'
  <2> SUFFICES ASSUME NEW w \in Vm, w \in ready', w # v
               PROVE  waited[w] + 1 + Dist(After(v), w) < NumVms
    BY <1>4, <1>6 DEF InTurn, Origin
  <2>1. Dist(After(v), w) < Dist(cursor, w)
    BY <1>5, <1>6, RoundFacts DEF TypeOK
  <2>2. /\ Dist(After(v), w) \in 0 .. NumVms - 1 /\ Dist(cursor, w) \in 0 .. NumVms - 1
    BY <1>6, RoundFacts DEF TypeOK
  <2>3. waited[w] + Dist(cursor, w) < NumVms /\ waited[w] \in Nat
    BY <1>4, <2>2 DEF InTurn, Origin, TypeOK, NoVm, Vm
  <2> QED
    BY <2>1, <2>2, <2>3, SchedAssumption
<1> QED
  BY <1>2, <1>3, <1>4, <1>5, <1>9, <1>10 DEF RunnerIsReady, OverrunIsOwed

\* A step that finds nobody ready changes nothing but the clock and who sleeps.
LEMMA StepIdleIInv == ASSUME IInv, StepIdle PROVE IInv'
<1> USE DEF IInv
<1>1. PICK d \in Sample : wake_expired_timeouts(d)
  BY DEF StepIdle
<1>2. /\ vms' = vms /\ UNCHANGED <<costvars, cursor, turnvars, waited>>
      /\ turn = NoVm /\ ready' = {} /\ result' \in {"all_halted", "idle"}
  BY DEF StepIdle, CanStep
<1>3. /\ ready' \subseteq Vm /\ blocked' \subseteq Vm /\ ready \subseteq ready'
      /\ cpu' \in [Vm -> Cpu] /\ due' \in [Vm -> Int]
      /\ global_tick' \in 0 .. TickMod - 1
      /\ BitmapsPartition'
  BY <1>1, <1>2, WakePass
<1>4. TypeOK'
  BY <1>2, <1>3 DEF TypeOK, costvars, turnvars
<1> QED
  BY <1>2, <1>3, <1>4 DEF RunnerIsReady, OverrunIsOwed, InTurn, costvars, turnvars

\* vm_sched_run moves the clock only.
LEMMA RunIdleIInv == ASSUME IInv, RunIdle PROVE IInv'
<1> USE DEF IInv
<1>1. PICK d \in Advance(1) : Ticked(d)
  BY DEF RunIdle
<1>2. global_tick' \in 0 .. TickMod - 1 /\ due' \in [Vm -> Int]
  BY <1>1, TickedType DEF Ticked
<1>3. UNCHANGED <<slotvars, cpu, costvars, cursor, turnvars, waited>> /\ result' = "ran"
  BY DEF RunIdle
<1> QED
  BY <1>2, <1>3 DEF slotvars, costvars, turnvars, TypeOK, BitmapsPartition, RunnerIsReady,
                    InTurn, Origin, OverrunIsOwed

-----------------------------------------------------------------------------
\* What is known of the VM whose turn is under way.
LEMMA TurnFacts ==
    ASSUME IInv, turn # NoVm
    PROVE  /\ turn \in Vm /\ turn \in ready /\ turn \in vms /\ turn \notin blocked
           /\ cpu[turn] \in Cpu /\ cpu[turn].reason = "none" /\ ~cpu[turn].halted
           /\ waited[turn] = 0
           /\ After(turn) \in Vm /\ NoVm \notin Vm
           /\ budget \in 1 .. Baseline
<1>1. turn \in Vm /\ turn \in ready /\ budget \in 1 .. Baseline
  BY SchedAssumption DEF IInv, TypeOK, RunnerIsReady
<1>2. turn \in vms /\ turn \notin blocked /\ ~cpu[turn].halted /\ cpu[turn].reason = "none"
  BY <1>1 DEF IInv, BitmapsPartition
<1>3. waited[turn] = 0
  BY <1>1 DEF IInv, InTurn
<1>4. After(turn) \in Vm /\ NoVm \notin Vm
  BY <1>1, RoundFacts, SchedAssumption DEF NoVm, Vm
<1> QED
  BY <1>1, <1>2, <1>3, <1>4 DEF IInv, TypeOK

\* Ending the turn starts the scan where InTurn already counts from.
LEMMA EndTurnFacts ==
    ASSUME IInv, turn # NoVm, EndTurn, waited' = waited,
           ready \ {turn} \subseteq ready', ready' \subseteq Vm
    PROVE  /\ InTurn' /\ RunnerIsReady'
           /\ cursor' \in Vm /\ turn' \in Vm \cup {NoVm} /\ turn' = NoVm
           /\ budget' \in 0 .. Baseline /\ debt_paid' \in 0 .. Baseline \div 2
           /\ section' \in 0 .. Longest
<1>1. turn' = NoVm /\ cursor' = After(turn) /\ budget' = 0 /\ debt_paid' = 0 /\ section' = 0
  BY DEF EndTurn
<1>2. Origin' = Origin
  BY <1>1 DEF Origin
<1>3. Dist(Origin, turn) < NumVms
  BY TurnFacts, RoundFacts, SchedAssumption DEF Origin
<1>4. InTurn'
  <2> SUFFICES ASSUME NEW v \in Vm
               PROVE  IF v \in ready' /\ v # turn'
                      THEN waited'[v] + Dist(Origin', v) < NumVms
                      ELSE waited'[v] = 0
    BY DEF InTurn, Dist
  <2>1. CASE v = turn
    <3>1. Dist(Origin, v) \in 0 .. NumVms - 1
      BY <2>1, TurnFacts, RoundFacts DEF Origin
    <3> QED
      BY <1>1, <1>2, <2>1, <3>1, TurnFacts, SchedAssumption
  <2>2. CASE v # turn /\ v \in ready
    BY <1>1, <1>2, <2>2, TurnFacts DEF IInv, InTurn
  <2>3. CASE v # turn /\ v \notin ready
    <3>1. Dist(Origin, v) \in 0 .. NumVms - 1 /\ waited[v] = 0
      BY <2>3, TurnFacts, RoundFacts DEF Origin, IInv, InTurn
    <3> QED
      BY <1>2, <2>3, <3>1, SchedAssumption
  <2> QED
    BY <2>1, <2>2, <2>3
<1> QED
  BY <1>1, <1>4, TurnFacts, SchedAssumption, SMT DEF RunnerIsReady, Longest

\* Outcomes after which the VM is halted and in neither bitmap.
LEMMA StopsIInv ==
    ASSUME IInv, turn # NoVm, EndTurn,
           NEW n \in Nat, NEW d \in Advance(n), Ticked(d),
           cpu' = [cpu EXCEPT ![turn].halted = TRUE],
           ready' = ready \ {turn}, blocked' = blocked \ {turn},
           UNCHANGED <<vms, result, waited>>,
           \/ UNCHANGED costvars
           \/ /\ consumed' = [consumed EXCEPT ![turn] = 0]
              /\ debt' = [debt EXCEPT ![turn] = 0]
    PROVE  IInv'
<1>1. global_tick' \in 0 .. TickMod - 1 /\ due' \in [Vm -> Int]
  BY TickedType DEF Ticked, IInv
<1>2. [cpu[turn] EXCEPT !.halted = TRUE] \in Cpu
  BY TurnFacts DEF Cpu
<1>3. cpu' \in [Vm -> Cpu] /\ cpu'[turn].halted
  BY <1>2, TurnFacts DEF IInv, TypeOK, Cpu
<1>4. \A v \in Vm \ {turn} : cpu'[v] = cpu[v]
  BY DEF IInv, TypeOK
<1>5. BitmapsPartition'
  BY <1>3, <1>4, TurnFacts DEF IInv, BitmapsPartition, TypeOK
<1>6. /\ debt' \in [Vm -> 0 .. MaxDebt] /\ consumed' \in [Vm -> 0 .. MaxOverrun]
      /\ OverrunIsOwed'
  BY SchedAssumption DEF IInv, TypeOK, OverrunIsOwed, costvars
<1>7. ready \ {turn} \subseteq ready' /\ ready' \subseteq Vm
  BY DEF IInv, TypeOK
<1>8. TypeOK'
  BY <1>1, <1>3, <1>6, <1>7, EndTurnFacts DEF IInv, TypeOK
<1> QED
  BY <1>5, <1>6, <1>7, <1>8, EndTurnFacts DEF IInv

\* The three outcomes that halt the running VM.
LEMMA HaltingOutcomes ==
    ASSUME IInv, ExpireForceHalt \/ StepHalted \/ TrapTerminate
    PROVE  IInv'
<1>1. CASE ExpireForceHalt
  <2>1. turn # NoVm /\ budget \in Nat
    BY <1>1, TurnFacts, SchedAssumption DEF ExpireForceHalt, Running
  <2>2. PICK d \in Advance(budget) : Ticked(d)
    BY <1>1 DEF ExpireForceHalt
  <2>3. blocked' = blocked \ {turn}
    BY <1>1, <2>1, TurnFacts DEF ExpireForceHalt
  <2> QED
    BY <1>1, <2>1, <2>2, <2>3, StopsIInv DEF ExpireForceHalt
<1>2. CASE StepHalted
  <2>1. PICK used \in 0 .. budget - 1 : \E d \in Advance(used) : Ticked(d)
    BY <1>2 DEF StepHalted
  <2>2. used \in Nat /\ turn # NoVm
    BY <1>2, <2>1, TurnFacts, SchedAssumption DEF StepHalted
  <2> QED
    BY <1>2, <2>1, <2>2, StopsIInv DEF StepHalted
<1>3. CASE TrapTerminate
  <2>1. PICK used \in 0 .. budget - 1 : \E d \in Advance(used) : Ticked(d)
    BY <1>3 DEF TrapTerminate
  <2>2. used \in Nat /\ turn # NoVm
    BY <1>3, <2>1, TurnFacts, SchedAssumption DEF TrapTerminate, Running
  <2> QED
    BY <1>3, <2>1, <2>2, StopsIInv DEF TrapTerminate
<1> QED
  BY <1>1, <1>2, <1>3

\* The two that leave it ready and end its turn.
LEMMA RotatingOutcomes ==
    ASSUME IInv, ExpireRotate \/ TrapResume
    PROVE  IInv'
<1>1. turn # NoVm /\ EndTurn /\ UNCHANGED <<slotvars, cpu, result, waited>>
  BY DEF ExpireRotate, TrapResume, Running
<1>2. \E n \in Nat : \E d \in Advance(n) : Ticked(d)
  BY <1>1, TurnFacts, SchedAssumption DEF ExpireRotate, TrapResume
<1>3. global_tick' \in 0 .. TickMod - 1 /\ due' \in [Vm -> Int]
  BY <1>2, TickedType DEF Ticked, IInv
<1>4. /\ debt' \in [Vm -> 0 .. MaxDebt] /\ consumed' \in [Vm -> 0 .. MaxOverrun]
      /\ OverrunIsOwed'
  <2>1. CASE TrapResume
    BY <2>1 DEF TrapResume, costvars, IInv, TypeOK, OverrunIsOwed
  <2>2. CASE ExpireRotate
    <3>1. debt[turn] \in 0 .. MaxDebt /\ debt_paid \in Nat
      BY <1>1, TurnFacts, SchedAssumption, SMT DEF IInv, TypeOK
    <3> DEFINE left == IF debt_paid <= debt[turn] THEN debt[turn] - debt_paid ELSE 0
    <3>2. left \in 0 .. MaxDebt /\ 0 \in 0 .. MaxOverrun
      BY <3>1, SchedAssumption
    <3>3. debt' = [debt EXCEPT ![turn] = left] /\ consumed' = [consumed EXCEPT ![turn] = 0]
      BY <2>2 DEF ExpireRotate
    <3> HIDE DEF left
    <3>4. debt' \in [Vm -> 0 .. MaxDebt] /\ consumed' \in [Vm -> 0 .. MaxOverrun]
      BY <3>2, <3>3 DEF IInv, TypeOK
    <3>5. OverrunIsOwed'
      BY <3>2, <3>3, SchedAssumption DEF IInv, TypeOK, OverrunIsOwed
    <3> QED
      BY <3>4, <3>5
  <2> QED
    BY <2>1, <2>2
<1>5. ready \ {turn} \subseteq ready' /\ ready' \subseteq Vm
  BY <1>1 DEF IInv, TypeOK, slotvars
<1>6. TypeOK'
  BY <1>1, <1>3, <1>4, <1>5, EndTurnFacts DEF IInv, TypeOK, slotvars
<1>7. BitmapsPartition'
  BY <1>1 DEF IInv, BitmapsPartition, slotvars
<1> QED
  BY <1>1, <1>4, <1>5, <1>6, <1>7, EndTurnFacts DEF IInv, slotvars

\* Another budget in a critical section: overrun and debt grow together.
LEMMA ExtendIInv == ASSUME IInv, ExpireExtend PROVE IInv'
<1>1. /\ turn # NoVm /\ consumed[turn] + budget <= MaxOverrun
      /\ consumed' = [consumed EXCEPT ![turn] = consumed[turn] + budget]
      /\ debt' = [debt EXCEPT ![turn] = Rest(debt[turn] + budget)]
      /\ budget' = Baseline /\ section' = InSection(budget)
      /\ UNCHANGED <<slotvars, cpu, cursor, result, turn, debt_paid, waited>>
  BY DEF ExpireExtend, Running
<1>2. budget \in 1 .. Baseline
  BY <1>1, TurnFacts
<1>3. global_tick' \in 0 .. TickMod - 1 /\ due' \in [Vm -> Int]
  <2>1. PICK d \in Advance(budget) : Ticked(d)
    BY DEF ExpireExtend
  <2> QED
    BY <1>2, <2>1, TickedType, SchedAssumption DEF Ticked, IInv
<1>4. /\ debt' \in [Vm -> 0 .. MaxDebt] /\ consumed' \in [Vm -> 0 .. MaxOverrun]
      /\ OverrunIsOwed'
  <2>1. /\ turn \in Vm /\ consumed[turn] \in 0 .. MaxOverrun /\ debt[turn] \in 0 .. MaxDebt
        /\ consumed[turn] <= debt[turn]
    BY <1>1, TurnFacts DEF IInv, TypeOK, OverrunIsOwed
  <2>2. /\ consumed[turn] + budget \in 0 .. MaxOverrun
        /\ Rest(debt[turn] + budget) \in 0 .. MaxDebt
        /\ consumed[turn] + budget <= Rest(debt[turn] + budget)
    BY <1>1, <1>2, <2>1, SchedAssumption DEF Rest
  <2> QED
    BY <1>1, <2>1, <2>2 DEF IInv, TypeOK, OverrunIsOwed
<1>5. section' \in 0 .. Longest
  BY <1>1, <1>2, SchedAssumption DEF InSection, Longest, IInv, TypeOK
<1>6. TypeOK'
  BY <1>1, <1>3, <1>4, <1>5, SchedAssumption DEF IInv, TypeOK, slotvars
<1> QED
  BY <1>1, <1>4, <1>6 DEF IInv, BitmapsPartition, RunnerIsReady, InTurn, Origin, slotvars

-----------------------------------------------------------------------------
\* An ECALL whose handler wakes some blocked VMs and leaves the caller's VmCpu as c: the
\* scheduler files the caller where c says.
LEMMA DispatchIInv ==
    ASSUME IInv, turn # NoVm, NEW used \in 0 .. budget - 1, NEW d \in Advance(used),
           NEW c \in Cpu, NEW n \in Int, NEW woken \in SUBSET (blocked \cap vms),
           NEW STATE cpus, cpus = [v \in Vm |-> IF v \in woken THEN Unblocked(cpu[v]) ELSE cpu[v]],
           NEW STATE rdy, rdy = ready \cup woken, NEW STATE blk, blk = blocked \ woken,
           AfterDispatch(used, d, c, n, cpus, rdy, blk),
           UNCHANGED <<vms, waited>>
    PROVE  IInv'
<1>0. \A v \in Vm : /\ Unblocked(cpu[v]) \in Cpu /\ Unblocked(cpu[v]).reason = "none"
                    /\ Unblocked(cpu[v]).halted = cpu[v].halted
  BY UnblockedFacts
<1>1. /\ UNCHANGED <<costvars, result>>
      /\ cpu' = [cpus EXCEPT ![turn] = c]
      /\ global_tick' = Later(d) /\ due' = [Aged(d) EXCEPT ![turn] = n]
  BY DEF AfterDispatch
<1>2. used \in Nat /\ budget - used \in 1 .. Baseline
  BY TurnFacts, SchedAssumption
<1>3. cpus \in [Vm -> Cpu]
  BY <1>0 DEF IInv, TypeOK
<1>4. /\ cpu'[turn] = c /\ turn \in Vm
      /\ \A v \in Vm \ {turn} : /\ cpu'[v].halted = cpu[v].halted
                                /\ cpu'[v].reason = IF v \in woken THEN "none" ELSE cpu[v].reason
  BY <1>0, <1>1, TurnFacts DEF IInv, TypeOK
<1>5. /\ global_tick' \in 0 .. TickMod - 1 /\ due' \in [Vm -> Int]
      /\ cpu' \in [Vm -> Cpu] /\ OverrunIsOwed'
  BY <1>1, <1>2, <1>3, TickedType DEF IInv, TypeOK, OverrunIsOwed, costvars
<1>6. /\ woken \subseteq Vm /\ turn \notin woken /\ ready \cup woken \subseteq Vm
      /\ blocked \ woken \subseteq Vm /\ vms \subseteq Vm
  BY TurnFacts DEF IInv, TypeOK
<1>7. CASE /\ c.halted /\ ready' = (ready \cup woken) \ {turn} /\ blocked' = (blocked \ woken) \ {turn}
           /\ EndTurn
  <2>1. BitmapsPartition'
    BY <1>4, <1>6, <1>7, TurnFacts DEF IInv, BitmapsPartition
  <2>2. ready \ {turn} \subseteq ready' /\ ready' \subseteq Vm /\ blocked' \subseteq Vm
    BY <1>6, <1>7
  <2>3. TypeOK'
    BY <1>1, <1>5, <1>7, <2>2, EndTurnFacts DEF IInv, TypeOK, costvars
  <2> QED
    BY <1>5, <1>7, <2>1, <2>2, <2>3, EndTurnFacts DEF IInv
<1>8. CASE /\ ~c.halted /\ c.reason # "none"
           /\ ready' = (ready \cup woken) \ {turn} /\ blocked' = (blocked \ woken) \cup {turn}
           /\ EndTurn
  <2>1. BitmapsPartition'
    BY <1>4, <1>6, <1>8, TurnFacts DEF IInv, BitmapsPartition
  <2>2. ready \ {turn} \subseteq ready' /\ ready' \subseteq Vm /\ blocked' \subseteq Vm
    BY <1>4, <1>6, <1>8
  <2>3. TypeOK'
    BY <1>1, <1>5, <1>8, <2>2, EndTurnFacts DEF IInv, TypeOK, costvars
  <2> QED
    BY <1>5, <1>8, <2>1, <2>2, <2>3, EndTurnFacts DEF IInv
<1>9. CASE /\ ~c.halted /\ c.reason = "none"
           /\ ready' = ready \cup woken /\ blocked' = blocked \ woken
           /\ budget' = budget - used
           /\ section' = IF c.in_critical /\ cpu[turn].in_critical THEN InSection(used) ELSE 0
           /\ UNCHANGED <<turn, cursor, debt_paid>>
  <2>1. BitmapsPartition'
    BY <1>4, <1>6, <1>9, TurnFacts DEF IInv, BitmapsPartition
  <2>2. section' \in 0 .. Longest
    BY <1>2, <1>9, SchedAssumption DEF IInv, TypeOK, InSection, Longest
  <2>3. TypeOK'
    BY <1>1, <1>2, <1>5, <1>6, <1>9, <2>2 DEF IInv, TypeOK, costvars
  <2>4. InTurn'
    <3> SUFFICES ASSUME NEW v \in Vm
                 PROVE  IF v \in ready' /\ v # turn' THEN waited'[v] + Dist(Origin', v) < NumVms
                                                    ELSE waited'[v] = 0
      BY DEF InTurn, Dist
    <3>1. Origin' = Origin /\ waited' = waited /\ turn' = turn
      BY <1>9 DEF Origin
    <3>2. CASE v \in ready
      BY <1>9, <3>1, <3>2 DEF IInv, InTurn
    <3>3. CASE v \notin ready
      <4>1. Dist(Origin, v) \in 0 .. NumVms - 1 /\ waited[v] = 0
        BY <3>3, TurnFacts, RoundFacts DEF Origin, IInv, InTurn
      <4> QED
        BY <3>1, <4>1, SchedAssumption
    <3> QED
      BY <3>2, <3>3
  <2>5. RunnerIsReady'
    BY <1>9 DEF IInv, RunnerIsReady
  <2> QED
    BY <1>5, <2>1, <2>3, <2>4, <2>5 DEF IInv
<1> QED
  BY <1>7, <1>8, <1>9 DEF AfterDispatch

\* A handler that changes the caller alone.
LEMMA EcallIInv ==
    ASSUME IInv, NEW used \in 0 .. budget - 1, NEW d \in Advance(used),
           NEW c \in Cpu, NEW n \in Int, Ecall(used, d, c, n)
    PROVE  IInv'
<1>1. cpu = [v \in Vm |-> IF v \in {} THEN Unblocked(cpu[v]) ELSE cpu[v]]
      /\ ready = ready \cup {} /\ blocked = blocked \ {}
  BY DEF IInv, TypeOK
<1>2. AfterDispatch(used, d, c, n, cpu, ready, blocked)
      /\ turn # NoVm /\ UNCHANGED <<vms, waited>>
  BY DEF Ecall, Running
<1> QED
  BY <1>1, <1>2, DispatchIInv

\* The handlers return a well-formed VmCpu.
LEMMA HandlerTypes ==
    ASSUME NEW c \in Cpu, NEW n \in Nat, NEW t \in 0 .. TickMod - 1, NEW now \in 0 .. TickMod - 1
    PROVE  /\ vm_handle_exit(c) \in Cpu /\ vm_handle_yield(c) \in Cpu
           /\ vm_handle_critical_enter(c) \in Cpu /\ vm_handle_critical_exit(c) \in Cpu
           /\ handle_sleep_ticks(c, n, now) \in Cpu /\ handle_sleep_until(c, t, now) \in Cpu
<1>1. {"yielded", "sleep"} \subseteq Reason
  BY DEF Reason
<1>2. (now + n) % TickMod \in 0 .. TickMod - 1
  BY TickType
<1>3. vm_handle_exit(c) \in Cpu /\ vm_handle_yield(c) \in Cpu
  BY <1>1 DEF vm_handle_exit, vm_handle_yield, Cpu
<1>4. vm_handle_critical_enter(c) \in Cpu /\ vm_handle_critical_exit(c) \in Cpu
  BY DEF vm_handle_critical_enter, vm_handle_critical_exit, Cpu
<1>5. handle_sleep_ticks(c, n, now) \in Cpu
  BY <1>1, <1>2 DEF handle_sleep_ticks, Cpu
<1>6. handle_sleep_until(c, t, now) \in Cpu
  BY <1>1 DEF handle_sleep_until, Cpu
<1> QED
  BY <1>3, <1>4, <1>5, <1>6

\* Every ECALL of this module.
LEMMA EcallOutcomes ==
    ASSUME IInv, EcallPlain \/ EcallSleepTicks \/ EcallSleepUntil
    PROVE  IInv'
<1> DEFINE Some(used, d) ==
        \/ \E c \in {vm_handle_exit(cpu[turn]), vm_handle_yield(cpu[turn]),
                     vm_handle_critical_enter(cpu[turn]), vm_handle_critical_exit(cpu[turn])} :
              Ecall(used, d, c, 0)
        \/ \E n \in 0 .. MaxSleep : Ecall(used, d, handle_sleep_ticks(cpu[turn], n, Later(d)), n)
        \/ \E n \in -MaxSleep .. MaxSleep :
              Ecall(used, d, handle_sleep_until(cpu[turn], (Later(d) + n) % TickMod, Later(d)),
                    IF n > 0 THEN n ELSE 0)
<1>0. PICK used \in 0 .. budget - 1 : \E d \in Advance(used) : Some(used, d)
  BY DEF EcallPlain, EcallSleepTicks, EcallSleepUntil
<1>1. PICK d \in Advance(used) : Some(used, d)
  BY <1>0
<1>2. turn # NoVm
  BY <1>1 DEF Ecall, Running
<1>3. cpu[turn] \in Cpu /\ Later(d) \in 0 .. TickMod - 1
  <2>1. used \in Nat
    BY <1>2, TurnFacts, SchedAssumption
  <2> QED
    BY <1>2, <2>1, TurnFacts, TickedType DEF IInv
<1>4. \A c \in Cpu, n \in Int : Ecall(used, d, c, n) => IInv'
  BY EcallIInv
<1>5. \A n \in Int : (Later(d) + n) % TickMod \in 0 .. TickMod - 1
  BY <1>3, TickType
<1>6. CASE \E c \in {vm_handle_exit(cpu[turn]), vm_handle_yield(cpu[turn]),
                     vm_handle_critical_enter(cpu[turn]), vm_handle_critical_exit(cpu[turn])} :
              Ecall(used, d, c, 0)
  BY <1>3, <1>4, <1>6, HandlerTypes
<1>7. CASE \E n \in 0 .. MaxSleep : Ecall(used, d, handle_sleep_ticks(cpu[turn], n, Later(d)), n)
  <2>1. PICK n \in 0 .. MaxSleep : Ecall(used, d, handle_sleep_ticks(cpu[turn], n, Later(d)), n)
    BY <1>7
  <2>2. n \in Nat /\ n \in Int
    BY SchedAssumption
  <2> QED
    BY <1>3, <1>4, <2>1, <2>2, HandlerTypes
<1>8. CASE \E n \in -MaxSleep .. MaxSleep :
              Ecall(used, d, handle_sleep_until(cpu[turn], (Later(d) + n) % TickMod, Later(d)),
                    IF n > 0 THEN n ELSE 0)
  <2>1. PICK n \in -MaxSleep .. MaxSleep :
              Ecall(used, d, handle_sleep_until(cpu[turn], (Later(d) + n) % TickMod, Later(d)),
                    IF n > 0 THEN n ELSE 0)
    BY <1>8
  <2>2. n \in Int /\ (IF n > 0 THEN n ELSE 0) \in Int
    BY SchedAssumption
  <2>3. handle_sleep_until(cpu[turn], (Later(d) + n) % TickMod, Later(d)) \in Cpu
    BY <1>3, <1>5, <2>2, HandlerTypes
  <2> QED
    BY <1>4, <2>1, <2>2, <2>3
<1> QED
  BY <1>1, <1>6, <1>7, <1>8

-----------------------------------------------------------------------------
\* IInv is inductive.
LEMMA NextIInv == IInv /\ [Next]_vars => IInv'
<1> SUFFICES ASSUME IInv, [Next]_vars PROVE IInv'
  OBVIOUS
<1>1. CASE Step
  BY <1>1, StepRunIInv, StepIdleIInv, RunIdleIInv DEF Step
<1>2. CASE Outcome
  BY <1>2, HaltingOutcomes, RotatingOutcomes, ExtendIInv, EcallOutcomes DEF Outcome
<1>3. CASE Host
  BY <1>3, AdmitIInv, UnregisterIInv, HaltIInv
  DEF Host, vm_sched_register, vm_sched_register_at
<1>4. CASE UNCHANGED vars
  BY <1>4 DEF vars, slotvars, costvars, turnvars, IInv, TypeOK, BitmapsPartition,
              RunnerIsReady, InTurn, Origin, OverrunIsOwed
<1> QED
  BY <1>1, <1>2, <1>3, <1>4 DEF Next

\* The strengthened invariant holds in every behaviour of the scheduler.
THEOREM Invariance == Spec => []IInv
  BY InitIInv, NextIInv, PTL DEF Spec

\* Every variable keeps its type: in particular the budget of a turn under way
\* is never 0, so a reduced quantum never starves its VM.
THEOREM TypeCorrect == Spec => []TypeOK
<1>1. IInv => TypeOK
  BY DEF IInv
<1> QED
  BY <1>1, Invariance, PTL

\* The bitmaps always partition the registered VMs that are not halted.
THEOREM BitmapsAlwaysPartition == Spec => []BitmapsPartition
<1>1. IInv => BitmapsPartition
  BY DEF IInv
<1> QED
  BY <1>1, Invariance, PTL

\* For any number of slots, a VM that stays ready is passed over fewer than
\* NumVms times before its turn.
THEOREM RoundRobinIsFair == Spec => []BoundedOvertaking
<1>1. IInv => BoundedOvertaking
  <2> SUFFICES ASSUME IInv, NEW v \in Vm PROVE waited[v] < NumVms
    BY DEF BoundedOvertaking
  <2>1. waited[v] \in Nat /\ Origin \in Vm
    BY TurnFacts DEF IInv, TypeOK, Origin
  <2>2. Dist(Origin, v) \in 0 .. NumVms - 1
    BY <2>1, RoundFacts
  <2> QED
    BY <2>1, <2>2, SchedAssumption DEF IInv, InTurn
<1> QED
  BY <1>1, Invariance, PTL

\* What counts towards the overrun cap is always owed as debt.
THEOREM OverrunAlwaysOwed == Spec => []OverrunIsOwed
<1>1. IInv => OverrunIsOwed
  BY DEF IInv
<1> QED
  BY <1>1, Invariance, PTL

\* An ECALL ends the caller's turn only by halting it or giving it a reason to wait.
LEMMA EcallEndsTurn ==
    ASSUME IInv, NEW used, NEW d, NEW c, NEW n, Ecall(used, d, c, n), turn' # turn
    PROVE  cpu'[turn].halted \/ cpu'[turn].reason # "none"
<1>1. cpu' = [cpu EXCEPT ![turn] = c]
  BY DEF Ecall, AfterDispatch
<1>2. cpu'[turn] = c
  BY <1>1, TurnFacts DEF Ecall, Running, IInv, TypeOK
<1>3. c.halted \/ c.reason # "none"
  BY DEF Ecall, AfterDispatch
<1> QED
  BY <1>2, <1>3

\* No expiry of a budget, no wake-up and no host call takes the processor from a VM
\* inside its critical section.
THEOREM SectionsAreNotPreempted == Spec => SectionNotPreempted
<1> DEFINE Kept == turn # NoVm /\ turn' # turn /\ cpu[turn].in_critical =>
                     cpu'[turn].halted \/ cpu'[turn].reason # "none" \/ TrapResume
<1>1. IInv /\ [Next]_vars => [Kept]_vars
  <2> SUFFICES ASSUME IInv, Next, turn # NoVm, turn' # turn, cpu[turn].in_critical
               PROVE  cpu'[turn].halted \/ cpu'[turn].reason # "none" \/ TrapResume
    OBVIOUS
  <2>1. ~Step /\ ~Host
    BY DEF Step, StepRun, StepIdle, RunIdle, CanStep, Host, vm_sched_register,
           vm_sched_register_at, vm_sched_unregister, vm_sched_halt
  <2>2. ~ExpireRotate /\ ~ExpireExtend
    BY DEF ExpireRotate, ExpireExtend
  <2>3. CASE ExpireForceHalt \/ StepHalted \/ TrapTerminate
    <3>1. cpu' = [cpu EXCEPT ![turn].halted = TRUE]
      BY <2>3 DEF ExpireForceHalt, StepHalted, TrapTerminate
    <3> QED
      BY <3>1, TurnFacts DEF IInv, TypeOK, Cpu
  <2>4. CASE EcallPlain \/ EcallSleepTicks \/ EcallSleepUntil
    <3>1. \E used, d, c, n : Ecall(used, d, c, n)
      BY <2>4 DEF EcallPlain, EcallSleepTicks, EcallSleepUntil
    <3> QED
      BY <3>1, EcallEndsTurn
  <2> QED
    BY <2>1, <2>2, <2>3, <2>4 DEF Next, Outcome
<1> QED
  BY <1>1, Invariance, PTL DEF Spec, SectionNotPreempted

-----------------------------------------------------------------------------
\* The clock.  TimersExact is about one pass; what makes it true is kept by every step in
\* between: ClockInv says that the deadline in a sleeper's VmCpu is the instant its history
\* counts down to, and how late a pass can be.  A tick source is late by MaxGap at most.
\* Without one the clock is the count of retired instructions, and no pass is made during a
\* turn: a critical section spends its credit, Baseline instructions for each one that
\* counts towards the overrun.

MaxLate == Baseline * (MaxOverrun + 1)
Credit(c) == Baseline * (MaxOverrun - c)

\* tick_reached tells past from future within half the counter's range.  With the default
\* quantum and overrun of vm_system.c and 32 bits MaxLate is an eighth of that.
ClockBounds ==
    /\ MaxSleep < TickMod \div 2 /\ MaxGap < TickMod \div 2
    /\ FALSE \in TickSources => MaxLate < TickMod \div 2

Punctual(v) ==
    IF HasTickSource THEN due[v] >= -MaxGap
    ELSE IF turn # NoVm THEN budget + Credit(consumed[turn]) - due[v] <= MaxLate
    ELSE -due[v] <= MaxLate /\ (result = "idle" => due[v] > 0)

ClockInv ==
    /\ config \in [tick_source : TickSources, run : RunDrivers]
    /\ turn # NoVm => result = "ran"
    /\ \A v \in Vm : Sleeping(v) =>
          /\ cpu[v].deadline = (global_tick + due[v]) % TickMod
          /\ due[v] <= MaxSleep /\ Punctual(v)

\* tick_reached compares the instants, not their images in the counter.
LEMMA TickReachedExact ==
    ASSUME ClockBounds, NEW g \in Int, NEW x \in Int, NEW y \in Int,
           y - x <= MaxSleep, x - y < TickMod \div 2
    PROVE  tick_reached((g + x) % TickMod, (g + y) % TickMod) <=> y <= x
<1>1. (((g + x) % TickMod) - ((g + y) % TickMod)) % TickMod = (x - y) % TickMod
  <2>1. (g + x) \in Int /\ (g + y) \in Int /\ ((g + x) % TickMod) \in Int
    BY ModParts, SchedAssumption
  <2>2. (((g + x) % TickMod) - ((g + y) % TickMod)) % TickMod
           = (((g + x) % TickMod) - (g + y)) % TickMod
    BY <2>1, TickShift
  <2>3. -(g + y) \in Int
    BY <2>1
  <2>4. (((g + x) % TickMod) + (-(g + y))) % TickMod = ((g + x) + (-(g + y))) % TickMod
    BY <2>1, <2>3, TickShift
  <2>5. ((g + x) % TickMod) + (-(g + y)) = ((g + x) % TickMod) - (g + y)
        /\ (g + x) + (-(g + y)) = x - y
    BY <2>1
  <2> QED
    BY <2>2, <2>4, <2>5
<1>2. CASE y <= x
  <2>1. x - y >= 0 /\ x - y < TickMod
    BY <1>2, SchedAssumption
  <2>2. (x - y) % TickMod = x - y
    BY <2>1, ModNear, SchedAssumption
  <2> QED
    BY <1>1, <1>2, <2>2 DEF tick_reached
<1>3. CASE ~(y <= x)
  <2>1. x - y < 0 /\ x - y >= -TickMod /\ TickMod + (x - y) >= TickMod \div 2
    BY <1>3, SchedAssumption DEF ClockBounds
  <2>2. (x - y) % TickMod = TickMod + (x - y)
    BY <2>1, ModNear, SchedAssumption
  <2>3. ~(TickMod + (x - y) < TickMod \div 2)
    BY <2>1, SchedAssumption
  <2> QED
    BY <1>1, <1>3, <2>2, <2>3 DEF tick_reached
<1> QED
  BY <1>2, <1>3

\* Every instruction that counts towards the overrun costs a quantum of credit.
LEMMA CreditFacts ==
    ASSUME NEW c \in 0 .. MaxOverrun
    PROVE  /\ Credit(c) \in Nat /\ MaxLate \in Nat
           /\ Credit(c) + Baseline <= MaxLate
           /\ \A b \in Nat \ {0} : c + b <= MaxOverrun => Credit(c + b) + Baseline <= Credit(c)
<1>1. \A x \in Nat : Baseline * x \in Nat
  BY SchedAssumption
<1>2. \A x \in Nat, y \in Nat : x <= y => Baseline * x <= Baseline * y
  BY SchedAssumption
<1>3. \A x \in Nat : Baseline * (x + 1) = (Baseline * x) + Baseline
  BY SchedAssumption
<1>4. MaxOverrun - c \in Nat /\ MaxOverrun \in Nat
  BY SchedAssumption
<1>5. Credit(c) \in Nat /\ MaxLate \in Nat
  BY <1>1, <1>4 DEF Credit, MaxLate
<1>6. Credit(c) + Baseline <= MaxLate
  <2>1. Baseline * (MaxOverrun - c) <= Baseline * MaxOverrun
    BY <1>2, <1>4
  <2>2. MaxLate = (Baseline * MaxOverrun) + Baseline
    BY <1>3, <1>4 DEF MaxLate
  <2> QED
    BY <1>1, <1>4, <2>1, <2>2, SchedAssumption DEF Credit
<1>7. ASSUME NEW b \in Nat \ {0}, c + b <= MaxOverrun
      PROVE  Credit(c + b) + Baseline <= Credit(c)
  <2>1. MaxOverrun - (c + b) \in Nat /\ (MaxOverrun - (c + b)) + 1 <= MaxOverrun - c
        /\ (MaxOverrun - (c + b)) + 1 \in Nat
    BY <1>7, <1>4
  <2>2. Baseline * ((MaxOverrun - (c + b)) + 1) <= Baseline * (MaxOverrun - c)
    BY <1>2, <1>4, <2>1
  <2>3. Baseline * ((MaxOverrun - (c + b)) + 1) = (Baseline * (MaxOverrun - (c + b))) + Baseline
    BY <1>3, <2>1
  <2> QED
    BY <2>2, <2>3 DEF Credit
<1> QED
  BY <1>5, <1>6, <1>7

\* Time passes: a sleeper's deadline stays where its countdown ends.
LEMMA AgedFacts ==
    ASSUME IInv, ClockInv, NEW n \in Nat, NEW d \in Advance(n), global_tick' = Later(d),
           NEW v \in Vm, Sleeping(v), cpu'[v] = cpu[v], due'[v] = Aged(d)[v]
    PROVE  /\ d \in Nat /\ due[v] \in Int /\ due'[v] = due[v] - d
           /\ cpu'[v].deadline = (global_tick' + due'[v]) % TickMod
           /\ due'[v] <= MaxSleep
           /\ HasTickSource => due'[v] >= -MaxGap
           /\ ~HasTickSource => d = n
<1>1. d \in Nat /\ due[v] \in Int /\ global_tick \in Int
  BY TickedType, SchedAssumption DEF IInv, TypeOK
<1>2. due'[v] = due[v] - d
  BY DEF Aged
<1>3. cpu[v].deadline = (global_tick + due[v]) % TickMod /\ due[v] <= MaxSleep
  BY DEF ClockInv
<1>4. (((global_tick + d) % TickMod) + (due[v] - d)) % TickMod = (global_tick + due[v]) % TickMod
  <2>1. global_tick + d \in Int /\ due[v] - d \in Int
        /\ (global_tick + d) + (due[v] - d) = global_tick + due[v]
    BY <1>1
  <2> QED
    BY <2>1, TickShift
<1>5. due[v] - d <= MaxSleep
  BY <1>1, <1>3, SchedAssumption
<1>6. (HasTickSource => due[v] - d >= -MaxGap) /\ (~HasTickSource => d = n)
  BY DEF Advance
<1> QED
  BY <1>1, <1>2, <1>3, <1>4, <1>5, <1>6 DEF Later

\* No outcome of a vm_step makes a sleeper later than the turn's credit allows.
LEMMA OutcomePunctual ==
    ASSUME IInv, ClockInv, turn # NoVm, NEW n \in 0 .. budget,
           NEW v \in Vm, Sleeping(v), ~HasTickSource, ~HasTickSource',
           due'[v] = due[v] - n, result' = result,
           \/ turn' = NoVm
           \/ turn' = turn /\ budget' = budget - n /\ consumed' = consumed
           \/ /\ turn' = turn /\ n = budget /\ budget' = Baseline
              /\ consumed[turn] + budget <= MaxOverrun
              /\ consumed'[turn] = consumed[turn] + budget
    PROVE  Punctual(v)'
<1>1. /\ budget \in 1 .. Baseline /\ consumed[turn] \in 0 .. MaxOverrun /\ due[v] \in Int
      /\ result' = "ran"
  BY TurnFacts DEF IInv, TypeOK, ClockInv
<1>2. budget + Credit(consumed[turn]) - due[v] <= MaxLate
  BY DEF ClockInv, Punctual
<1>3. Credit(consumed[turn]) \in Nat /\ MaxLate \in Nat
  BY <1>1, CreditFacts
<1>4. CASE turn' = NoVm
  <2>1. -(due[v] - n) <= MaxLate
    BY <1>1, <1>2, <1>3, SchedAssumption
  <2> QED
    BY <1>1, <1>4, <2>1 DEF Punctual
<1>5. CASE turn' = turn /\ budget' = budget - n /\ consumed' = consumed
  <2>1. (budget - n) + Credit(consumed[turn]) - (due[v] - n) <= MaxLate
    BY <1>1, <1>2, <1>3, SchedAssumption
  <2> QED
    BY <1>5, <2>1 DEF Punctual, Credit
<1>6. CASE /\ turn' = turn /\ n = budget /\ budget' = Baseline
           /\ consumed[turn] + budget <= MaxOverrun
           /\ consumed'[turn] = consumed[turn] + budget
  <2>1. Credit(consumed[turn] + budget) + Baseline <= Credit(consumed[turn])
    BY <1>1, <1>6, CreditFacts, SchedAssumption
  <2>2. consumed[turn] + budget \in 0 .. MaxOverrun
    BY <1>1, <1>6, SchedAssumption
  <2>3. Credit(consumed[turn] + budget) \in Nat
    BY <2>2, CreditFacts
  <2>4. Baseline + Credit(consumed[turn] + budget) - (due[v] - n) <= MaxLate
    BY <1>1, <1>2, <1>3, <1>6, <2>1, <2>3, SchedAssumption
  <2> QED
    BY <1>6, <2>4 DEF Punctual, Credit
<1> QED
  BY <1>4, <1>5, <1>6

\* An outcome of a vm_step keeps ClockInv if it leaves the other sleepers alone and gives the
\* caller, if it goes to sleep, the deadline it asked for.
LEMMA OutcomeClock ==
    ASSUME IInv, ClockInv, turn # NoVm, NEW u \in Vm, turn = u,
           NEW n \in 0 .. budget, NEW d \in Advance(n),
           global_tick' = Later(d), UNCHANGED <<config, result>>,
           \/ turn' = NoVm
           \/ turn' = turn /\ budget' = budget - n /\ consumed' = consumed
           \/ /\ turn' = turn /\ n = budget /\ budget' = Baseline
              /\ consumed[turn] + budget <= MaxOverrun
              /\ consumed'[turn] = consumed[turn] + budget,
           \A v \in Vm \ {u} :
               v \in blocked' => v \in blocked /\ cpu'[v] = cpu[v] /\ due'[v] = Aged(d)[v],
           Sleeping(u)' =>
               /\ turn' = NoVm /\ due'[u] \in 1 .. MaxSleep
               /\ cpu'[u].deadline = (global_tick' + due'[u]) % TickMod
    PROVE  ClockInv'
<1>1. n \in Nat /\ turn \in Vm /\ turn \notin blocked /\ result = "ran"
  BY TurnFacts, SchedAssumption DEF ClockInv
<1>2. ASSUME NEW v \in Vm \ {u}, Sleeping(v)'
      PROVE  /\ cpu'[v].deadline = (global_tick' + due'[v]) % TickMod
             /\ due'[v] <= MaxSleep /\ Punctual(v)'
  <2>1. v \in blocked /\ cpu'[v] = cpu[v] /\ due'[v] = Aged(d)[v] /\ v \in Vm
    BY <1>2 DEF Sleeping
  <2>2. Sleeping(v)
    BY <1>2, <2>1 DEF Sleeping
  <2>3. /\ d \in Nat /\ due[v] \in Int /\ due'[v] = due[v] - d
        /\ cpu'[v].deadline = (global_tick' + due'[v]) % TickMod
        /\ due'[v] <= MaxSleep
        /\ HasTickSource => due'[v] >= -MaxGap
        /\ ~HasTickSource => d = n
    BY <1>1, <2>1, <2>2, AgedFacts
  <2>4. HasTickSource' = HasTickSource
    BY DEF HasTickSource
  <2>5. CASE HasTickSource
    BY <2>3, <2>4, <2>5 DEF Punctual
  <2>6. CASE ~HasTickSource
    BY <2>1, <2>2, <2>3, <2>4, <2>6, OutcomePunctual
  <2> QED
    BY <2>3, <2>5, <2>6
<1>3. ASSUME Sleeping(u)'
      PROVE  /\ cpu'[u].deadline = (global_tick' + due'[u]) % TickMod
             /\ due'[u] <= MaxSleep /\ Punctual(u)'
  <2>1. /\ turn' = NoVm /\ due'[u] \in 1 .. MaxSleep
        /\ cpu'[u].deadline = (global_tick' + due'[u]) % TickMod
    BY <1>3
  <2>2. MaxLate \in Nat
    BY CreditFacts, SchedAssumption
  <2>3. due'[u] >= -MaxGap /\ -due'[u] <= MaxLate /\ due'[u] > 0
    BY <2>1, <2>2, SchedAssumption
  <2> QED
    BY <2>1, <2>3, SchedAssumption DEF Punctual
<1>4. \A v \in Vm : Sleeping(v)' =>
          /\ cpu'[v].deadline = (global_tick' + due'[v]) % TickMod
          /\ due'[v] <= MaxSleep /\ Punctual(v)'
  BY <1>2, <1>3
<1>5. turn' # NoVm => result' = "ran"
  BY <1>1
<1> QED
  BY <1>4, <1>5 DEF ClockInv, Sleeping, Punctual, HasTickSource

\* The wake pass wakes a sleeper exactly when its countdown is over.
LEMMA WakeExact ==
    ASSUME ClockBounds, IInv, ClockInv, turn = NoVm, NEW d \in Sample, NEW v \in Vm, Sleeping(v)
    PROVE  /\ v \in Woken(Later(d)) <=> due[v] <= d
           /\ d \in 0 .. MaxGap
<1>1. /\ d \in Int /\ due[v] \in Int /\ global_tick \in Int
      /\ d \in 0 .. MaxGap /\ (~HasTickSource => d = 0)
  BY SchedAssumption DEF Sample, Advance, IInv, TypeOK
<1>2. cpu[v].deadline = (global_tick + due[v]) % TickMod /\ due[v] <= MaxSleep
  BY DEF ClockInv
<1>3. due[v] - d <= MaxSleep /\ d - due[v] < TickMod \div 2
  <2>1. CASE HasTickSource
    <3>1. due[v] - d >= -MaxGap
      BY <2>1 DEF Sample, Advance
    <3> QED
      BY <1>1, <1>2, <3>1, SchedAssumption DEF ClockBounds
  <2>2. CASE ~HasTickSource
    <3>1. FALSE \in TickSources
      BY <2>2, SchedAssumption DEF ClockInv, HasTickSource
    <3>2. -due[v] <= MaxLate /\ MaxLate < TickMod \div 2
      BY <2>2, <3>1 DEF ClockInv, Punctual, ClockBounds
    <3>3. MaxLate \in Nat
      BY CreditFacts, SchedAssumption
    <3> QED
      BY <1>1, <1>2, <2>2, <3>2, <3>3, SchedAssumption
  <2> QED
    BY <2>1, <2>2
<1>4. tick_reached(Later(d), cpu[v].deadline) <=> due[v] <= d
  BY <1>1, <1>2, <1>3, TickReachedExact DEF Later
<1>5. v \in blocked \cap vms
  BY DEF Sleeping, IInv, BitmapsPartition
<1>6. Expired(v, Later(d)) <=> tick_reached(Later(d), cpu[v].deadline)
  BY DEF Expired, Sleeping
<1> QED
  BY <1>1, <1>4, <1>5, <1>6 DEF Woken

\* After a pass every sleeper that is left has time to go.
LEMMA PassClock ==
    ASSUME ClockBounds, IInv, ClockInv, turn = NoVm, UNCHANGED config,
           NEW d \in Sample, wake_expired_timeouts(d),
           NEW v \in Vm, Sleeping(v)'
    PROVE  /\ cpu'[v].deadline = (global_tick' + due'[v]) % TickMod
           /\ due'[v] \in Int /\ due'[v] <= MaxSleep /\ due'[v] > 0
<1> DEFINE W == Woken(Later(d))
<1>1. /\ v \in blocked /\ v \notin W /\ cpu'[v] = cpu[v] /\ due'[v] = Aged(d)[v]
      /\ global_tick' = Later(d)
  BY DEF wake_expired_timeouts, Sleeping
<1>2. Sleeping(v)
  BY <1>1 DEF Sleeping
<1>3. ~(due[v] <= d)
  BY <1>1, <1>2, WakeExact
<1>4. /\ d \in Nat /\ due[v] \in Int /\ due'[v] = due[v] - d
      /\ cpu'[v].deadline = (global_tick' + due'[v]) % TickMod /\ due'[v] <= MaxSleep
  BY <1>1, <1>2, AgedFacts DEF Sample
<1> QED
  BY <1>3, <1>4

LEMMA StepClock ==
    ASSUME ClockBounds, IInv, IInv', ClockInv, UNCHANGED config, Step
    PROVE  ClockInv'
<1>1. MaxLate \in Nat
  BY CreditFacts, SchedAssumption
<1>2. CASE StepRun \/ StepIdle
  <2>1. PICK d \in Sample : wake_expired_timeouts(d)
    BY <1>2 DEF StepRun, StepIdle
  <2>2. turn = NoVm /\ (turn' # NoVm => result' = "ran")
    BY <1>2 DEF StepRun, StepIdle, CanStep, turnvars
  <2>3. ASSUME NEW v \in Vm, Sleeping(v)'
        PROVE  /\ cpu'[v].deadline = (global_tick' + due'[v]) % TickMod
               /\ due'[v] <= MaxSleep /\ Punctual(v)'
    <3>1. /\ cpu'[v].deadline = (global_tick' + due'[v]) % TickMod
          /\ due'[v] \in Int /\ due'[v] <= MaxSleep /\ due'[v] > 0
      BY <2>1, <2>2, <2>3, PassClock
    <3>2. due'[v] >= -MaxGap /\ -due'[v] <= MaxLate
      BY <1>1, <3>1, SchedAssumption
    <3>3. ASSUME turn' # NoVm
          PROVE  budget' + Credit(consumed'[turn']) - due'[v] <= MaxLate
      <4>1. /\ budget' \in 0 .. Baseline /\ turn' \in Vm
            /\ consumed' \in [Vm -> 0 .. MaxOverrun]
        BY <3>3 DEF IInv, TypeOK
      <4>2. consumed'[turn'] \in 0 .. MaxOverrun
        BY <4>1
      <4>3. Credit(consumed'[turn']) \in Nat /\ Credit(consumed'[turn']) + Baseline <= MaxLate
        BY <4>2, CreditFacts
      <4> QED
        BY <1>1, <3>1, <4>1, <4>3, SchedAssumption
    <3> QED
      BY <3>1, <3>2, <3>3 DEF Punctual, Credit
  <2> QED
    BY <2>2, <2>3 DEF ClockInv, Sleeping, Punctual, HasTickSource
<1>3. CASE RunIdle
  <2>1. PICK d \in Advance(1) : Ticked(d)
    BY <1>3 DEF RunIdle
  <2>2. /\ turn = NoVm /\ result = "idle" /\ turn' = NoVm /\ result' = "ran"
        /\ UNCHANGED <<blocked, cpu>>
    BY <1>3 DEF RunIdle, slotvars, turnvars
  <2>3. ASSUME NEW v \in Vm, Sleeping(v)'
        PROVE  /\ cpu'[v].deadline = (global_tick' + due'[v]) % TickMod
               /\ due'[v] <= MaxSleep /\ Punctual(v)'
    <3>1. Sleeping(v)
      BY <2>2, <2>3 DEF Sleeping
    <3>2. /\ d \in Nat /\ due[v] \in Int /\ due'[v] = due[v] - d
          /\ cpu'[v].deadline = (global_tick' + due'[v]) % TickMod /\ due'[v] <= MaxSleep
          /\ HasTickSource => due'[v] >= -MaxGap
          /\ ~HasTickSource => d = 1
      BY <2>1, <2>2, <3>1, AgedFacts DEF Ticked
    <3>3. ~HasTickSource => due[v] > 0
      BY <2>2, <3>1 DEF ClockInv, Punctual
    <3>4. ~HasTickSource => -due'[v] <= MaxLate
      BY <1>1, <3>2, <3>3
    <3> QED
      BY <2>2, <3>2, <3>4 DEF Punctual, HasTickSource
  <2> QED
    BY <2>2, <2>3 DEF ClockInv, Sleeping, Punctual, HasTickSource
<1> QED
  BY <1>2, <1>3 DEF Step

\* The host calls leave the clock and the other slots alone.
LEMMA HostClock ==
    ASSUME IInv, ClockInv, UNCHANGED config, Host
    PROVE  ClockInv'
<1>1. PICK w \in Vm : \/ vm_sched_register(w) \/ vm_sched_register_at(w)
                      \/ vm_sched_unregister(w) \/ vm_sched_halt(w)
  BY DEF Host
<1>2. /\ turn = NoVm /\ turn' = NoVm /\ UNCHANGED <<global_tick, result>>
      /\ blocked' \subseteq blocked /\ w \notin blocked'
      /\ \A v \in Vm \ {w} : cpu'[v] = cpu[v] /\ due'[v] = due[v]
  <2>1. CASE vm_sched_register(w) \/ vm_sched_register_at(w)
    <3>1. w \notin blocked
      BY <2>1 DEF vm_sched_register, vm_sched_register_at, IInv, BitmapsPartition
    <3> QED
      BY <2>1, <3>1 DEF vm_sched_register, vm_sched_register_at, Admit, turnvars, IInv, TypeOK
  <2>2. CASE vm_sched_unregister(w) \/ vm_sched_halt(w)
    BY <2>2 DEF vm_sched_unregister, vm_sched_halt, Drop, turnvars, IInv, TypeOK
  <2> QED
    BY <1>1, <2>1, <2>2
<1>3. ASSUME NEW v \in Vm, Sleeping(v)'
      PROVE  /\ cpu'[v].deadline = (global_tick' + due'[v]) % TickMod
             /\ due'[v] <= MaxSleep /\ Punctual(v)'
  <2>1. v # w /\ Sleeping(v) /\ cpu'[v] = cpu[v] /\ due'[v] = due[v]
    BY <1>2, <1>3 DEF Sleeping
  <2> QED
    BY <1>2, <2>1 DEF ClockInv, Punctual, HasTickSource
<1> QED
  BY <1>2, <1>3 DEF ClockInv, Sleeping, Punctual, HasTickSource

\* The outcomes that are no ECALL.
LEMMA PlainOutcomeClock ==
    ASSUME IInv, ClockInv, UNCHANGED config,
           ExpireRotate \/ ExpireExtend \/ ExpireForceHalt \/ StepHalted \/ TrapTerminate \/ TrapResume
    PROVE  ClockInv'
<1>1. turn # NoVm
  BY DEF ExpireRotate, ExpireExtend, ExpireForceHalt, StepHalted, TrapTerminate, TrapResume, Running
<1>2. PICK u \in Vm : turn = u
  BY <1>1, TurnFacts
<1>3. budget \in 1 .. Baseline /\ u \notin blocked
  BY <1>1, <1>2, TurnFacts
<1>4. \E n \in 0 .. budget : \E d \in Advance(n) : Ticked(d) /\ (n = budget \/ turn' = NoVm)
  <2>1. budget \in 0 .. budget
    BY <1>3, SchedAssumption
  <2>2. \A x \in 0 .. budget - 1 : x \in 0 .. budget
    BY <1>3, SchedAssumption
  <2>3. CASE ExpireRotate \/ ExpireExtend \/ ExpireForceHalt
    BY <2>1, <2>3 DEF ExpireRotate, ExpireExtend, ExpireForceHalt
  <2>4. CASE StepHalted \/ TrapTerminate \/ TrapResume
    BY <2>2, <2>4 DEF StepHalted, TrapTerminate, TrapResume, EndTurn
  <2> QED
    BY <2>3, <2>4
<1>5. PICK n \in 0 .. budget : \E d \in Advance(n) : Ticked(d) /\ (n = budget \/ turn' = NoVm)
  BY <1>4
<1>6. PICK d \in Advance(n) : Ticked(d) /\ (n = budget \/ turn' = NoVm)
  BY <1>5
<1>7. global_tick' = Later(d) /\ due' = Aged(d)
  BY <1>6 DEF Ticked
<1>8. \/ turn' = NoVm
      \/ /\ turn' = turn /\ n = budget /\ budget' = Baseline
         /\ consumed[turn] + budget <= MaxOverrun
         /\ consumed'[turn] = consumed[turn] + budget
  <2>1. CASE ExpireExtend
    <3>1. /\ turn' = turn /\ budget' = Baseline /\ consumed[turn] + budget <= MaxOverrun
          /\ consumed' = [consumed EXCEPT ![turn] = consumed[turn] + budget]
      BY <2>1 DEF ExpireExtend
    <3>2. consumed'[turn] = consumed[turn] + budget
      BY <1>2, <3>1 DEF IInv, TypeOK
    <3> QED
      BY <1>1, <1>6, <3>1, <3>2
  <2>2. CASE ~ExpireExtend
    BY <2>2 DEF ExpireRotate, ExpireForceHalt, StepHalted, TrapTerminate, TrapResume, EndTurn
  <2> QED
    BY <2>1, <2>2
<1>9. result' = result /\ blocked' \subseteq blocked /\ \A v \in Vm \ {u} : cpu'[v] = cpu[v]
  BY <1>2 DEF ExpireRotate, ExpireExtend, ExpireForceHalt, StepHalted, TrapTerminate, TrapResume,
              slotvars, IInv, TypeOK
<1>10. ~Sleeping(u)'
  BY <1>3, <1>9 DEF Sleeping
<1>11. \A v \in Vm \ {u} :
          v \in blocked' => v \in blocked /\ cpu'[v] = cpu[v] /\ due'[v] = Aged(d)[v]
  BY <1>7, <1>9
<1> QED
  BY <1>1, <1>2, <1>7, <1>8, <1>9, <1>10, <1>11, OutcomeClock

\* An ECALL that leaves the caller as c, n ticks from its deadline if it sleeps.
LEMMA EcallClock ==
    ASSUME IInv, ClockInv, UNCHANGED config, NEW used \in 0 .. budget - 1, NEW d \in Advance(used),
           NEW c \in Cpu, NEW n \in Int, Ecall(used, d, c, n),
           c.reason \in {"sleep", "mailbox_recv"} =>
               n \in 1 .. MaxSleep /\ c.deadline = (Later(d) + n) % TickMod
    PROVE  ClockInv'
<1>1. /\ turn # NoVm /\ cpu' = [cpu EXCEPT ![turn] = c]
      /\ global_tick' = Later(d) /\ due' = [Aged(d) EXCEPT ![turn] = n]
      /\ UNCHANGED <<consumed, result>>
      /\ \/ turn' = NoVm /\ blocked' \subseteq blocked \cup {turn}
         \/ turn' = turn /\ budget' = budget - used /\ blocked' = blocked
  BY DEF Ecall, AfterDispatch, Running, EndTurn, costvars
<1>2. PICK u \in Vm : turn = u
  BY <1>1, TurnFacts
<1>3. budget \in 1 .. Baseline /\ u \notin blocked
  BY <1>1, <1>2, TurnFacts
<1>4. used \in 0 .. budget
  BY <1>3, SchedAssumption
<1>5. Aged(d) = [v \in Vm |-> Aged(d)[v]] /\ cpu'[u] = c /\ due'[u] = n
      /\ \A v \in Vm \ {u} : cpu'[v] = cpu[v] /\ due'[v] = Aged(d)[v]
  BY <1>1, <1>2 DEF IInv, TypeOK, Aged
<1>6. Sleeping(u)' => c.reason \in {"sleep", "mailbox_recv"} /\ turn' = NoVm
  BY <1>1, <1>2, <1>3, <1>5 DEF Sleeping
<1>7. Sleeping(u)' => /\ turn' = NoVm /\ due'[u] \in 1 .. MaxSleep
                      /\ cpu'[u].deadline = (global_tick' + due'[u]) % TickMod
  BY <1>1, <1>5, <1>6
<1>8. \A v \in Vm \ {u} :
          v \in blocked' => v \in blocked /\ cpu'[v] = cpu[v] /\ due'[v] = Aged(d)[v]
  BY <1>1, <1>2, <1>5
<1> QED
  BY <1>1, <1>2, <1>4, <1>7, <1>8, OutcomeClock

\* The handlers sleep until the instant the guest named, and only if it is to come.
LEMMA EcallsClock ==
    ASSUME ClockBounds, IInv, ClockInv, UNCHANGED config,
           EcallPlain \/ EcallSleepTicks \/ EcallSleepUntil
    PROVE  ClockInv'
<1> DEFINE Some(used, d) ==
        \/ \E c \in {vm_handle_exit(cpu[turn]), vm_handle_yield(cpu[turn]),
                     vm_handle_critical_enter(cpu[turn]), vm_handle_critical_exit(cpu[turn])} :
              Ecall(used, d, c, 0)
        \/ \E n \in 0 .. MaxSleep : Ecall(used, d, handle_sleep_ticks(cpu[turn], n, Later(d)), n)
        \/ \E n \in -MaxSleep .. MaxSleep :
              Ecall(used, d, handle_sleep_until(cpu[turn], (Later(d) + n) % TickMod, Later(d)),
                    IF n > 0 THEN n ELSE 0)
<1>0. PICK used \in 0 .. budget - 1 : \E d \in Advance(used) : Some(used, d)
  BY DEF EcallPlain, EcallSleepTicks, EcallSleepUntil
<1>1. PICK d \in Advance(used) : Some(used, d)
  BY <1>0
<1>2. turn # NoVm
  BY <1>1 DEF Ecall, Running
<1>3. cpu[turn] \in Cpu /\ cpu[turn].reason = "none" /\ Later(d) \in 0 .. TickMod - 1
  <2>1. used \in Nat
    BY <1>2, TurnFacts, SchedAssumption
  <2> QED
    BY <1>2, <2>1, TurnFacts, TickedType DEF IInv
<1>4. \A c \in Cpu, n \in Int :
          /\ Ecall(used, d, c, n)
          /\ c.reason \in {"sleep", "mailbox_recv"} =>
                 n \in 1 .. MaxSleep /\ c.deadline = (Later(d) + n) % TickMod
          => ClockInv'
  BY EcallClock
<1>5. CASE \E c \in {vm_handle_exit(cpu[turn]), vm_handle_yield(cpu[turn]),
                     vm_handle_critical_enter(cpu[turn]), vm_handle_critical_exit(cpu[turn])} :
              Ecall(used, d, c, 0)
  <2>1. PICK c \in {vm_handle_exit(cpu[turn]), vm_handle_yield(cpu[turn]),
                    vm_handle_critical_enter(cpu[turn]), vm_handle_critical_exit(cpu[turn])} :
              Ecall(used, d, c, 0)
    BY <1>5
  <2>2. c \in Cpu
    BY <1>3, HandlerTypes, SchedAssumption
  <2>3. c.reason \in {"none", "yielded"}
    BY <1>3 DEF vm_handle_exit, vm_handle_yield, vm_handle_critical_enter, vm_handle_critical_exit,
                Cpu
  <2> QED
    BY <1>4, <2>1, <2>2, <2>3
<1>6. CASE \E n \in 0 .. MaxSleep : Ecall(used, d, handle_sleep_ticks(cpu[turn], n, Later(d)), n)
  <2>1. PICK n \in 0 .. MaxSleep : Ecall(used, d, handle_sleep_ticks(cpu[turn], n, Later(d)), n)
    BY <1>6
  <2> DEFINE c == handle_sleep_ticks(cpu[turn], n, Later(d))
  <2>2. n \in Int /\ n \in Nat /\ (n # 0 => n \in 1 .. MaxSleep)
    BY SchedAssumption
  <2>3. c \in Cpu
    BY <1>3, <2>2, HandlerTypes
  <2>4. c.reason \in {"sleep", "mailbox_recv"} => n # 0 /\ c.deadline = (Later(d) + n) % TickMod
    BY <1>3 DEF handle_sleep_ticks, Cpu
  <2> HIDE DEF c
  <2>5. Ecall(used, d, c, n)
    BY <2>1 DEF c
  <2> QED
    BY <1>4, <2>2, <2>3, <2>4, <2>5
<1>7. CASE \E n \in -MaxSleep .. MaxSleep :
              Ecall(used, d, handle_sleep_until(cpu[turn], (Later(d) + n) % TickMod, Later(d)),
                    IF n > 0 THEN n ELSE 0)
  <2>1. PICK n \in -MaxSleep .. MaxSleep :
              Ecall(used, d, handle_sleep_until(cpu[turn], (Later(d) + n) % TickMod, Later(d)),
                    IF n > 0 THEN n ELSE 0)
    BY <1>7
  <2> DEFINE c == handle_sleep_until(cpu[turn], (Later(d) + n) % TickMod, Later(d))
             m == IF n > 0 THEN n ELSE 0
  <2>2. n \in Int /\ m \in Int /\ (n > 0 => m = n /\ n \in 1 .. MaxSleep)
    BY SchedAssumption
  <2>3. (Later(d) + n) % TickMod \in 0 .. TickMod - 1
    BY <1>3, <2>2, TickType
  <2>4. c \in Cpu
    BY <1>3, <2>3, HandlerTypes, SchedAssumption
  <2>5. tick_reached(Later(d), (Later(d) + n) % TickMod) <=> n <= 0
    <3>1. (Later(d) + 0) % TickMod = Later(d)
      BY <1>3, ModNear, SchedAssumption
    <3>2. n - 0 <= MaxSleep /\ 0 - n < TickMod \div 2 /\ Later(d) \in Int
      BY <1>3, SchedAssumption DEF ClockBounds
    <3>3. tick_reached((Later(d) + 0) % TickMod, (Later(d) + n) % TickMod) <=> n <= 0
      BY <2>2, <3>2, TickReachedExact
    <3> QED
      BY <3>1, <3>3
  <2>6. c.reason \in {"sleep", "mailbox_recv"} => n > 0 /\ c.deadline = (Later(d) + n) % TickMod
    BY <1>3, <2>2, <2>5 DEF handle_sleep_until, Cpu
  <2> HIDE DEF c
  <2>7. Ecall(used, d, c, m)
    BY <2>1 DEF c
  <2> HIDE DEF m
  <2>8. c.reason \in {"sleep", "mailbox_recv"} =>
            m \in 1 .. MaxSleep /\ c.deadline = (Later(d) + m) % TickMod
    BY <2>2, <2>6
  <2> QED
    BY <1>4, <2>2, <2>4, <2>7, <2>8
<1> QED
  BY <1>1, <1>5, <1>6, <1>7

LEMMA NextClock == ClockBounds /\ IInv /\ IInv' /\ ClockInv /\ [Next]_vars => ClockInv'
<1> SUFFICES ASSUME ClockBounds, IInv, IInv', ClockInv, [Next]_vars PROVE ClockInv'
  OBVIOUS
<1>1. CASE Next
  BY <1>1, StepClock, HostClock, PlainOutcomeClock, EcallsClock DEF Next, Outcome
<1>2. CASE UNCHANGED vars
  BY <1>2 DEF vars, slotvars, costvars, turnvars, ClockInv, Sleeping, Punctual, HasTickSource
<1> QED
  BY <1>1, <1>2

\* The deadlines agree with the countdowns, whatever the width of the counter.
THEOREM ClockInvariance == ClockBounds => (Spec => []ClockInv)
<1>1. Init => ClockInv
  BY DEF Init, ClockInv, Sleeping
<1> SUFFICES ASSUME ClockBounds PROVE Spec => []ClockInv
  OBVIOUS
<1>2. IInv /\ IInv' /\ ClockInv /\ [Next]_vars => ClockInv'
  BY NextClock
<1> QED
  BY <1>1, <1>2, Invariance, PTL DEF Spec

\* TimersExact: wake_expired_timeouts wakes every sleeper at the first pass at or after its
\* deadline and none before, however often the tick counter has wrapped.
THEOREM TimersAreExact == ClockBounds => (Spec => TimersExact)
<1> SUFFICES ASSUME ClockBounds PROVE Spec => TimersExact
  OBVIOUS
<1> DEFINE Exact == StepRun \/ StepIdle =>
          \A v \in Vm : Sleeping(v) =>
              (v \in ready' <=> due[v] <= (global_tick' - global_tick) % TickMod)
<1>1. IInv /\ ClockInv /\ [Next]_vars => [Exact]_vars
  <2> SUFFICES ASSUME IInv, ClockInv, StepRun \/ StepIdle, NEW v \in Vm, Sleeping(v)
               PROVE  v \in ready' <=> due[v] <= (global_tick' - global_tick) % TickMod
    OBVIOUS
  <2>1. PICK d \in Sample : wake_expired_timeouts(d)
    BY DEF StepRun, StepIdle
  <2>2. turn = NoVm
    BY DEF StepRun, StepIdle, CanStep
  <2>3. (v \in Woken(Later(d)) <=> due[v] <= d) /\ d \in 0 .. MaxGap
    BY <2>2, WakeExact
  <2>4. v \notin ready
    BY DEF Sleeping, IInv, BitmapsPartition
  <2>5. v \in ready' <=> v \in Woken(Later(d))
    BY <2>1, <2>4 DEF wake_expired_timeouts
  <2>6. (global_tick' - global_tick) % TickMod = d
    <3>1. global_tick \in Int /\ d \in Int /\ global_tick + d \in Int /\ -global_tick \in Int
      BY <2>3, SchedAssumption DEF IInv, TypeOK
    <3>2. (((global_tick + d) % TickMod) + (-global_tick)) % TickMod
             = ((global_tick + d) + (-global_tick)) % TickMod
      BY <3>1, TickShift
    <3>3. ((global_tick + d) % TickMod) \in Int
      BY <3>1, ModParts, SchedAssumption
    <3>4. ((global_tick + d) % TickMod) + (-global_tick) = ((global_tick + d) % TickMod) - global_tick
          /\ (global_tick + d) + (-global_tick) = d
      BY <3>1, <3>3
    <3>5. d % TickMod = d
      BY <2>3, <3>1, ModNear, SchedAssumption DEF ClockBounds
    <3>6. global_tick' = (global_tick + d) % TickMod
      BY <2>1 DEF wake_expired_timeouts, Later
    <3> QED
      BY <3>2, <3>4, <3>5, <3>6
  <2> QED
    BY <2>3, <2>5, <2>6
<1>2. Spec => []ClockInv
  BY ClockInvariance
<1> QED
  BY <1>1, <1>2, Invariance, PTL DEF Spec, TimersExact

-----------------------------------------------------------------------------
(* Mail. *)
\* The messages of s are the ones that follow the r-th.
Numbered(s, r) == \A i \in 1 .. Len(s) : s[i].n = (r + i) % NumMod

MailTypes ==
    /\ mbox \in [Vm -> Seq(Message)]
    /\ got \in [Vm -> Message]
    /\ accepted \in [Vm -> 0 .. NumMod - 1] /\ received \in [Vm -> 0 .. NumMod - 1]

\* What a VM has received, and what waits for it.
InOrder(v) ==
    /\ got[v].n = received[v]
    /\ Len(mbox[v]) <= Depth
    /\ accepted[v] = (received[v] + Len(mbox[v])) % NumMod
    /\ Numbered(mbox[v], received[v])

Live(v) == v \in vms /\ ~cpu[v].halted
Receiving(v) == v \in blocked /\ cpu[v].reason = "mailbox_recv"

MailInv ==
    /\ IInv
    /\ MailTypes
    /\ \A v \in Vm : Live(v) => InOrder(v)
    /\ \A v \in Vm : Receiving(v) => mbox[v] = <<>>

-----------------------------------------------------------------------------
\* Message numbers are counted modulo NumMod.
LEMMA NumModType == NumMod \in Nat \ {0} /\ Depth < NumMod
  BY MailAssumption DEF NumMod

LEMMA NumShift ==
    ASSUME NEW a \in Int, NEW b \in Int
    PROVE  /\ ((a % NumMod) + b) % NumMod = (a + b) % NumMod
           /\ (b - (a % NumMod)) % NumMod = (b - a) % NumMod
           /\ a % NumMod \in 0 .. NumMod - 1
<1>1. NumMod \in Nat \ {0}
  BY NumModType
<1> QED
  BY <1>1, ModShift, ModParts

LEMMA UpType == ASSUME NEW a \in Int PROVE Up(a) \in 0 .. NumMod - 1
<1>1. NumMod \in Nat \ {0} /\ a + 1 \in Int
  BY NumModType
<1> QED
  BY <1>1, ModParts DEF Up

\* vm_mailbox_send puts the next number at the end ...
LEMMA PushFacts ==
    ASSUME NEW s \in Seq(Message), NEW r \in 0 .. NumMod - 1, NEW m \in Message,
           Numbered(s, r), m.n = Up((r + Len(s)) % NumMod)
    PROVE  /\ Append(s, m) \in Seq(Message) /\ Len(Append(s, m)) = Len(s) + 1
           /\ Numbered(Append(s, m), r)
           /\ m.n = (r + Len(Append(s, m))) % NumMod
<1>1. /\ Len(s) \in Nat /\ Append(s, m) \in Seq(Message) /\ Len(Append(s, m)) = Len(s) + 1
      /\ \A i \in 1 .. Len(s) : Append(s, m)[i] = s[i]
      /\ Append(s, m)[Len(s) + 1] = m
  OBVIOUS
<1>2. r \in Int /\ r + Len(s) \in Int /\ r + (Len(s) + 1) = (r + Len(s)) + 1
  BY <1>1, NumModType
<1>3. m.n = (r + (Len(s) + 1)) % NumMod
  <2>1. (((r + Len(s)) % NumMod) + 1) % NumMod = ((r + Len(s)) + 1) % NumMod
    BY <1>2, NumShift
  <2> QED
    BY <1>2, <2>1 DEF Up
<1>4. ASSUME NEW i \in 1 .. Len(Append(s, m))
      PROVE  Append(s, m)[i].n = (r + i) % NumMod
  <2>1. CASE i \in 1 .. Len(s)
    BY <1>1, <2>1 DEF Numbered
  <2>2. CASE i = Len(s) + 1
    BY <1>1, <1>3, <2>2
  <2> QED
    BY <1>1, <2>1, <2>2
<1> QED
  BY <1>1, <1>3, <1>4 DEF Numbered

\* ... and vm_mailbox_recv takes the one after the last received.
LEMMA PopFacts ==
    ASSUME NEW s \in Seq(Message), NEW r \in 0 .. NumMod - 1, s # <<>>, Numbered(s, r)
    PROVE  /\ Tail(s) \in Seq(Message) /\ Len(Tail(s)) = Len(s) - 1
           /\ Head(s) \in Message /\ Head(s).n = Up(r)
           /\ Numbered(Tail(s), Up(r))
           /\ (r + Len(s)) % NumMod = (Up(r) + Len(Tail(s))) % NumMod
<1>1. /\ Len(s) \in Nat /\ Len(s) >= 1 /\ Tail(s) \in Seq(Message) /\ Len(Tail(s)) = Len(s) - 1
      /\ Head(s) \in Message /\ Head(s) = s[1]
      /\ \A i \in 1 .. Len(s) - 1 : Tail(s)[i] = s[i + 1]
  OBVIOUS
<1>2. r \in Int /\ r + 1 \in Int
  BY NumModType
<1>3. \A i \in Int : (((r + 1) % NumMod) + i) % NumMod = ((r + 1) + i) % NumMod
  BY <1>2, NumShift
<1>4. Head(s).n = Up(r)
  BY <1>1 DEF Numbered, Up
<1>5. ASSUME NEW i \in 1 .. Len(Tail(s))
      PROVE  Tail(s)[i].n = (Up(r) + i) % NumMod
  <2>1. i \in Int /\ i + 1 \in 1 .. Len(s) /\ Tail(s)[i] = s[i + 1] /\ r + (i + 1) = (r + 1) + i
    BY <1>1, <1>2
  <2>2. s[i + 1].n = (r + (i + 1)) % NumMod
    BY <2>1 DEF Numbered
  <2> QED
    BY <1>3, <2>1, <2>2 DEF Up
<1>6. (r + Len(s)) % NumMod = (Up(r) + Len(Tail(s))) % NumMod
  <2>1. Len(Tail(s)) \in Int /\ r + Len(s) = (r + 1) + Len(Tail(s))
    BY <1>1, <1>2
  <2> QED
    BY <1>3, <2>1 DEF Up
<1> QED
  BY <1>1, <1>4, <1>5, <1>6 DEF Numbered

\* With an empty queue everything accepted has been received.
LEMMA EmptyFacts ==
    ASSUME NEW r \in 0 .. NumMod - 1
    PROVE  /\ (r + Len(<<>>)) % NumMod = r /\ Numbered(<<>>, r) /\ <<>> \in Seq(Message)
           /\ Len(<<>>) <= Depth
<1>1. NumMod \in Nat \ {0} /\ r \in Int /\ r + Len(<<>>) = r /\ r >= 0 /\ r < NumMod
  BY NumModType
<1>2. r % NumMod = r
  BY <1>1, ModNear
<1> QED
  BY <1>1, <1>2, MailAssumption DEF Numbered

-----------------------------------------------------------------------------
LEMMA MailInitInv == MailInit => MailInv
<1> SUFFICES ASSUME MailInit PROVE MailInv
  OBVIOUS
<1>1. IInv /\ vms = {} /\ blocked = {}
  BY InitIInv DEF MailInit, Init
<1>2. 0 \in 0 .. NumMod - 1 /\ 0 \in Vm
  BY NumModType, SchedAssumption DEF Vm
<1>3. NoMessage \in Message /\ <<>> \in Seq(Message)
  BY <1>2 DEF NoMessage, Message
<1>4. MailTypes
  BY <1>2, <1>3 DEF MailInit, MailTypes
<1> QED
  BY <1>1, <1>4 DEF MailInv, Live, Receiving

\* A step that leaves the mailboxes alone, starts no VM and puts none to sleep in SYS_RECV
\* unless its queue is empty.
LEMMA QuietInv ==
    ASSUME MailInv, IInv', UNCHANGED <<mbox, got, accepted, received>>,
           \A v \in Vm : Live(v)' => Live(v),
           \A v \in Vm : Receiving(v)' => Receiving(v) \/ mbox[v] = <<>>
    PROVE  MailInv'
<1>1. MailTypes'
  BY DEF MailInv, MailTypes
<1>2. \A v \in Vm : Live(v)' => InOrder(v)'
  BY DEF MailInv, InOrder
<1>3. \A v \in Vm : Receiving(v)' => mbox'[v] = <<>>
  BY DEF MailInv
<1> QED
  BY <1>1, <1>2, <1>3 DEF MailInv, Live, Receiving, InOrder

\* The scheduler's own steps and the host's halt start no VM, and put none to sleep in
\* SYS_RECV.
LEMMA SchedulerIsQuiet ==
    ASSUME IInv,
           \/ StepRun \/ StepIdle \/ Expire \/ StepHalted \/ EcallPlain
           \/ \E w \in Vm : vm_sched_halt(w)
    PROVE  \A v \in Vm : (Live(v)' => Live(v)) /\ (Receiving(v)' => Receiving(v))
<1>1. cpu \in [Vm -> Cpu]
  BY DEF IInv, TypeOK
<1>2. CASE StepRun \/ StepIdle
  <2>1. PICK d \in Sample : wake_expired_timeouts(d)
    BY <1>2 DEF StepRun, StepIdle
  <2>2. vms' = vms
    BY <1>2 DEF StepRun, StepIdle
  <2> DEFINE W == Woken(Later(d))
  <2>3. /\ blocked' = blocked \ W
        /\ cpu' = [v \in Vm |-> IF v \in W THEN Unblocked(cpu[v]) ELSE cpu[v]]
    BY <2>1 DEF wake_expired_timeouts
  <2> HIDE DEF W
  <2>4. \A v \in Vm : cpu'[v].halted = cpu[v].halted /\ (v \notin W => cpu'[v] = cpu[v])
    BY <2>3, UnblockedFacts
  <2> QED
    BY <2>2, <2>3, <2>4 DEF Live, Receiving
<1>3. CASE Expire
  <2>1. /\ vms' = vms /\ blocked' = blocked
        /\ cpu' = cpu \/ cpu' = [cpu EXCEPT ![turn].halted = TRUE]
    BY <1>3 DEF Expire, ExpireRotate, ExpireExtend, ExpireForceHalt, slotvars
  <2>2. \A v \in Vm : (~cpu'[v].halted => ~cpu[v].halted) /\ cpu'[v].reason = cpu[v].reason
    BY <1>1, <2>1 DEF Cpu
  <2> QED
    BY <2>1, <2>2 DEF Live, Receiving
<1>4. CASE StepHalted \/ \E w \in Vm : vm_sched_halt(w)
  <2>1. /\ vms' = vms /\ blocked' \subseteq blocked
        /\ \E w : cpu' = [cpu EXCEPT ![w].halted = TRUE]
    BY <1>4 DEF StepHalted, vm_sched_halt, Drop
  <2>2. \A v \in Vm : (~cpu'[v].halted => ~cpu[v].halted) /\ cpu'[v].reason = cpu[v].reason
    BY <1>1, <2>1 DEF Cpu
  <2> QED
    BY <2>1, <2>2 DEF Live, Receiving
<1>5. CASE EcallPlain
  <2>1. PICK c : /\ \E used, d : Ecall(used, d, c, 0)
                 /\ c \in {vm_handle_exit(cpu[turn]), vm_handle_yield(cpu[turn]),
                           vm_handle_critical_enter(cpu[turn]), vm_handle_critical_exit(cpu[turn])}
    BY <1>5 DEF EcallPlain
  <2>2. /\ turn # NoVm /\ vms' = vms /\ cpu' = [cpu EXCEPT ![turn] = c]
        /\ blocked' \subseteq blocked \cup {turn}
    BY <2>1 DEF Ecall, AfterDispatch, Running
  <2>3. /\ turn \in Vm /\ turn \in vms /\ cpu[turn] \in Cpu /\ cpu[turn].reason = "none"
        /\ ~cpu[turn].halted
    BY <2>2, TurnFacts
  <2>4. c.reason \in {"none", "yielded"}
    BY <2>1, <2>3 DEF vm_handle_exit, vm_handle_yield, vm_handle_critical_enter,
                      vm_handle_critical_exit, Cpu
  <2>5. cpu'[turn] = c /\ \A v \in Vm \ {turn} : cpu'[v] = cpu[v]
    BY <1>1, <2>2, <2>3
  <2> QED
    BY <2>2, <2>3, <2>4, <2>5 DEF Live, Receiving
<1> QED
  BY <1>2, <1>3, <1>4, <1>5

\* What a mailbox ECALL does to the scheduler: only the caller may go to sleep, and those it
\* wakes no longer do.
LEMMA CallFacts ==
    ASSUME IInv, NEW used \in 0 .. budget - 1, NEW d \in Advance(used),
           NEW c \in Cpu, NEW n \in Int, NEW woken \in SUBSET (blocked \cap vms),
           Call(used, d, c, n, woken)
    PROVE  /\ IInv' /\ vms' = vms
           /\ turn \in Vm /\ Live(turn) /\ cpu[turn].reason = "none" /\ turn \notin blocked
           /\ \A v \in Vm : Live(v)' => Live(v)
           /\ \A v \in Vm : Receiving(v)' =>
                 (Receiving(v) /\ v \notin woken) \/ (v = turn /\ c.reason = "mailbox_recv")
<1> DEFINE cpus == [v \in Vm |-> IF v \in woken THEN Unblocked(cpu[v]) ELSE cpu[v]]
           rdy == ready \cup woken
           blk == blocked \ woken
<1>0. /\ cpus = [v \in Vm |-> IF v \in woken THEN Unblocked(cpu[v]) ELSE cpu[v]]
      /\ rdy = ready \cup woken /\ blk = blocked \ woken
  OBVIOUS
<1>1. /\ turn # NoVm /\ UNCHANGED <<vms, waited>>
      /\ AfterDispatch(used, d, c, n, cpus, rdy, blk)
  BY DEF Call, Running
<1> HIDE DEF cpus, rdy, blk
<1>2. /\ turn \in Vm /\ turn \in vms /\ cpu[turn] \in Cpu /\ cpu[turn].reason = "none"
      /\ ~cpu[turn].halted /\ turn \notin blocked
  BY <1>1, TurnFacts
<1>3. cpu' = [cpus EXCEPT ![turn] = c] /\ blocked' \subseteq (blocked \ woken) \cup {turn}
  BY <1>0, <1>1 DEF AfterDispatch
<1>4. IInv'
  BY <1>0, <1>1, DispatchIInv
<1>5. /\ cpu'[turn] = c
      /\ \A v \in Vm \ {turn} : /\ cpu'[v].halted = cpu[v].halted
                                /\ v \notin woken => cpu'[v] = cpu[v]
  BY <1>0, <1>2, <1>3, UnblockedFacts
<1>6. \A v \in Vm : Live(v)' => Live(v)
  BY <1>1, <1>2, <1>5 DEF Live
<1>7. \A v \in Vm : Receiving(v)' =>
          (Receiving(v) /\ v \notin woken) \/ (v = turn /\ c.reason = "mailbox_recv")
  BY <1>2, <1>3, <1>5 DEF Receiving
<1> QED
  BY <1>1, <1>2, <1>4, <1>6, <1>7 DEF Live

\* A call of the turn that is not blocking.
LEMMA PlainCall ==
    ASSUME IInv, NEW used \in 0 .. budget - 1, NEW d \in Advance(used),
           NEW woken \in SUBSET (blocked \cap vms), Call(used, d, cpu[turn], 0, woken)
    PROVE  /\ IInv' /\ vms' = vms
           /\ turn \in Vm /\ Live(turn) /\ cpu[turn].reason = "none" /\ turn \notin blocked
           /\ \A v \in Vm : Live(v)' => Live(v)
           /\ \A v \in Vm : Receiving(v)' => Receiving(v) /\ v \notin woken
<1>1. cpu[turn] \in Cpu /\ cpu[turn].reason = "none"
  BY TurnFacts DEF Call, Running
<1>2. PICK c \in Cpu : c = cpu[turn]
  BY <1>1
<1>3. Call(used, d, c, 0, woken) /\ 0 \in Int
  BY <1>2
<1>4. /\ IInv' /\ vms' = vms
      /\ turn \in Vm /\ Live(turn) /\ cpu[turn].reason = "none" /\ turn \notin blocked
      /\ \A v \in Vm : Live(v)' => Live(v)
      /\ \A v \in Vm : Receiving(v)' =>
            (Receiving(v) /\ v \notin woken) \/ (v = turn /\ c.reason = "mailbox_recv")
  BY <1>3, CallFacts
<1> QED
  BY <1>1, <1>2, <1>4

-----------------------------------------------------------------------------
\* SYS_SEND: refused, straight into the buffer of a sleeping receiver, or queued.
LEMMA SendRefusedInv ==
    ASSUME MailInv, NEW used \in 0 .. budget - 1, NEW d \in Advance(used), NEW t \in Vm,
           SendRefused(used, d, t)
    PROVE  MailInv'
<1>1. IInv /\ Call(used, d, cpu[turn], 0, {}) /\ UNCHANGED <<mbox, got, accepted, received>>
  BY DEF MailInv, SendRefused, boxvars
<1>2. /\ IInv'
      /\ \A v \in Vm : Live(v)' => Live(v)
      /\ \A v \in Vm : Receiving(v)' => Receiving(v)
  BY <1>1, PlainCall
<1> QED
  BY <1>1, <1>2, QuietInv

LEMMA SendDirectInv ==
    ASSUME MailInv, NEW used \in 0 .. budget - 1, NEW d \in Advance(used), NEW t \in Vm,
           SendDirect(used, d, t)
    PROVE  MailInv'
<1> DEFINE woken == {t} \cap blocked
           m == [from |-> turn, n |-> Up(accepted[t])]
<1>1. /\ IInv /\ MailTypes /\ t \in vms /\ cpu[t].reason = "mailbox_recv"
      /\ Call(used, d, cpu[turn], 0, woken)
      /\ received' = IF woken = {} THEN received ELSE [received EXCEPT ![t] = Up(received[t])]
      /\ got' = [got EXCEPT ![t] = m]
      /\ accepted' = [accepted EXCEPT ![t] = Up(accepted[t])] /\ mbox' = mbox
  BY DEF MailInv, SendDirect
<1>2. woken \in SUBSET (blocked \cap vms)
  BY <1>1
<1>3. /\ IInv' /\ turn \in Vm
      /\ \A v \in Vm : Live(v)' => Live(v)
      /\ \A v \in Vm : Receiving(v)' => Receiving(v)
  <2> HIDE DEF woken
  <2> QED
    BY <1>1, <1>2, PlainCall
<1>4. /\ mbox[t] \in Seq(Message) /\ accepted[t] \in 0 .. NumMod - 1
      /\ received[t] \in 0 .. NumMod - 1
      /\ Up(accepted[t]) \in 0 .. NumMod - 1 /\ Up(received[t]) \in 0 .. NumMod - 1
  BY <1>1, UpType, NumModType DEF MailTypes
<1>5. m \in Message /\ m.n = Up(accepted[t])
  BY <1>3, <1>4 DEF Message
<1> HIDE DEF m
<1>6. MailTypes'
  BY <1>1, <1>4, <1>5 DEF MailTypes
<1>7. ASSUME NEW v \in Vm, v # t, Live(v)' PROVE InOrder(v)'
  <2>1. InOrder(v)
    BY <1>3, <1>7 DEF MailInv
  <2>2. mbox'[v] = mbox[v] /\ got'[v] = got[v] /\ accepted'[v] = accepted[v]
        /\ received'[v] = received[v]
    BY <1>1, <1>7 DEF MailTypes
  <2> QED
    BY <2>1, <2>2 DEF InOrder
<1>8. ASSUME Live(t)' PROVE InOrder(t)'
  <2>1. Live(t) /\ InOrder(t)
    BY <1>3, <1>8 DEF MailInv
  <2>2. t \in blocked /\ Receiving(t) /\ mbox[t] = <<>>
    BY <1>1, <2>1 DEF Live, Receiving, MailInv, IInv, BitmapsPartition
  <2>3. accepted[t] = received[t]
    BY <1>4, <2>1, <2>2, EmptyFacts DEF InOrder
  <2>4. /\ got'[t].n = Up(received[t]) /\ received'[t] = Up(received[t])
        /\ accepted'[t] = Up(received[t]) /\ mbox'[t] = <<>>
    BY <1>1, <1>5, <2>2, <2>3 DEF MailTypes
  <2>5. /\ (Up(received[t]) + Len(<<>>)) % NumMod = Up(received[t]) /\ Numbered(<<>>, Up(received[t]))
        /\ Len(<<>>) <= Depth
    BY <1>4, EmptyFacts
  <2> QED
    BY <2>4, <2>5 DEF InOrder, Numbered
<1>9. \A v \in Vm : Receiving(v)' => mbox'[v] = <<>>
  BY <1>1, <1>3 DEF MailInv
<1> QED
  BY <1>3, <1>6, <1>7, <1>8, <1>9 DEF MailInv, Live, Receiving, InOrder

LEMMA SendQueuedInv ==
    ASSUME MailInv, NEW used \in 0 .. budget - 1, NEW d \in Advance(used), NEW t \in Vm,
           SendQueued(used, d, t)
    PROVE  MailInv'
<1> DEFINE m == [from |-> turn, n |-> Up(accepted[t])]
<1>1. /\ IInv /\ MailTypes /\ cpu[t].reason # "mailbox_recv"
      /\ Call(used, d, cpu[turn], 0, {}) /\ UNCHANGED <<got, received>>
      /\ \/ /\ Len(mbox[t]) < Depth /\ mbox' = [mbox EXCEPT ![t] = Append(mbox[t], m)]
            /\ accepted' = [accepted EXCEPT ![t] = Up(accepted[t])]
         \/ UNCHANGED <<mbox, accepted>>
  BY DEF MailInv, SendQueued
<1>2. /\ IInv' /\ turn \in Vm
      /\ \A v \in Vm : Live(v)' => Live(v)
      /\ \A v \in Vm : Receiving(v)' => Receiving(v)
  BY <1>1, PlainCall
<1>3. CASE UNCHANGED <<mbox, accepted>>
  BY <1>1, <1>2, <1>3, QuietInv
<1>4. CASE /\ Len(mbox[t]) < Depth /\ mbox' = [mbox EXCEPT ![t] = Append(mbox[t], m)]
           /\ accepted' = [accepted EXCEPT ![t] = Up(accepted[t])]
  <2>1. /\ mbox[t] \in Seq(Message) /\ accepted[t] \in 0 .. NumMod - 1
        /\ received[t] \in 0 .. NumMod - 1 /\ Up(accepted[t]) \in 0 .. NumMod - 1
    BY <1>1, UpType, NumModType DEF MailTypes
  <2>2. m \in Message /\ m.n = Up(accepted[t])
    BY <1>2, <2>1 DEF Message
  <2> HIDE DEF m
  <2>3. Append(mbox[t], m) \in Seq(Message)
    BY <2>1, <2>2
  <2>4. MailTypes'
    BY <1>1, <1>4, <2>1, <2>3 DEF MailTypes
  <2>5. ASSUME NEW v \in Vm, v # t
        PROVE  mbox'[v] = mbox[v] /\ got'[v] = got[v] /\ accepted'[v] = accepted[v]
               /\ received'[v] = received[v]
    BY <1>1, <1>4, <2>5 DEF MailTypes
  <2>6. ASSUME NEW v \in Vm, v # t, Live(v)' PROVE InOrder(v)'
    <3>1. InOrder(v)
      BY <1>2, <2>6 DEF MailInv
    <3> QED
      BY <2>5, <2>6, <3>1 DEF InOrder
  <2>7. ASSUME Live(t)' PROVE InOrder(t)'
    <3>1. InOrder(t)
      BY <1>2, <2>7 DEF MailInv
    <3>2. /\ mbox'[t] = Append(mbox[t], m) /\ got'[t] = got[t] /\ received'[t] = received[t]
          /\ accepted'[t] = Up(accepted[t])
      BY <1>1, <1>4 DEF MailTypes
    <3>3. /\ Len(Append(mbox[t], m)) = Len(mbox[t]) + 1
          /\ Numbered(Append(mbox[t], m), received[t])
          /\ m.n = (received[t] + Len(Append(mbox[t], m))) % NumMod
      BY <2>1, <2>2, <3>1, PushFacts DEF InOrder
    <3>4. Len(mbox[t]) + 1 <= Depth
      BY <1>4, <2>1, MailAssumption
    <3> QED
      BY <2>2, <3>1, <3>2, <3>3, <3>4 DEF InOrder
  <2>8. \A v \in Vm : Receiving(v)' => mbox'[v] = <<>>
    <3>1. ~Receiving(t)
      BY <1>1 DEF Receiving
    <3> QED
      BY <1>2, <2>5, <3>1 DEF MailInv
  <2> QED
    BY <1>2, <2>4, <2>6, <2>7, <2>8 DEF MailInv, Live, Receiving, InOrder
<1> QED
  BY <1>1, <1>3, <1>4

-----------------------------------------------------------------------------
\* SYS_RECV: take the next message, refuse, or go to sleep with an empty queue.
LEMMA RecvTakeInv ==
    ASSUME MailInv, NEW used \in 0 .. budget - 1, NEW d \in Advance(used), RecvTake(used, d)
    PROVE  MailInv'
<1>1. /\ IInv /\ MailTypes /\ mbox[turn] # <<>>
      /\ Call(used, d, cpu[turn], 0, {}) /\ UNCHANGED accepted
      /\ got' = [got EXCEPT ![turn] = Head(mbox[turn])]
      /\ mbox' = [mbox EXCEPT ![turn] = Tail(mbox[turn])]
      /\ received' = [received EXCEPT ![turn] = Up(received[turn])]
  BY DEF MailInv, RecvTake
<1>2. /\ IInv' /\ turn \in Vm /\ Live(turn) /\ turn \notin blocked
      /\ \A v \in Vm : Live(v)' => Live(v)
      /\ \A v \in Vm : Receiving(v)' => Receiving(v)
  BY <1>1, PlainCall
<1>3. PICK t \in Vm : t = turn
  BY <1>2
<1>4. /\ mbox[t] \in Seq(Message) /\ received[t] \in 0 .. NumMod - 1
      /\ Up(received[t]) \in 0 .. NumMod - 1
  BY <1>1, UpType, NumModType DEF MailTypes
<1>5. InOrder(t)
  BY <1>2, <1>3 DEF MailInv
<1>6. /\ Tail(mbox[t]) \in Seq(Message) /\ Len(Tail(mbox[t])) = Len(mbox[t]) - 1
      /\ Head(mbox[t]) \in Message /\ Head(mbox[t]).n = Up(received[t])
      /\ Numbered(Tail(mbox[t]), Up(received[t]))
      /\ (received[t] + Len(mbox[t])) % NumMod = (Up(received[t]) + Len(Tail(mbox[t]))) % NumMod
  BY <1>1, <1>3, <1>4, <1>5, PopFacts DEF InOrder
<1>7. MailTypes'
  BY <1>1, <1>3, <1>4, <1>6 DEF MailTypes
<1>8. ASSUME NEW v \in Vm, v # t
      PROVE  mbox'[v] = mbox[v] /\ got'[v] = got[v] /\ accepted'[v] = accepted[v]
             /\ received'[v] = received[v]
  BY <1>1, <1>3, <1>8 DEF MailTypes
<1>9. ASSUME NEW v \in Vm, v # t, Live(v)' PROVE InOrder(v)'
  <2>1. InOrder(v)
    BY <1>2, <1>9 DEF MailInv
  <2> QED
    BY <1>8, <1>9, <2>1 DEF InOrder
<1>10. InOrder(t)'
  <2>1. /\ mbox'[t] = Tail(mbox[t]) /\ got'[t] = Head(mbox[t])
        /\ received'[t] = Up(received[t]) /\ accepted'[t] = accepted[t]
    BY <1>1, <1>3 DEF MailTypes
  <2>2. Len(Tail(mbox[t])) <= Depth
    BY <1>4, <1>5, <1>6, MailAssumption DEF InOrder
  <2> QED
    BY <1>5, <1>6, <2>1, <2>2 DEF InOrder
<1>11. \A v \in Vm : Receiving(v)' => mbox'[v] = <<>>
  <2>1. ~Receiving(t)
    BY <1>2, <1>3 DEF Receiving
  <2> QED
    BY <1>2, <1>8, <2>1 DEF MailInv
<1> QED
  BY <1>2, <1>7, <1>9, <1>10, <1>11 DEF MailInv, Live, Receiving, InOrder

LEMMA RecvRefuseInv ==
    ASSUME MailInv, NEW used \in 0 .. budget - 1, NEW d \in Advance(used), NEW timeout,
           RecvRefuse(used, d, timeout)
    PROVE  MailInv'
<1>1. IInv /\ Call(used, d, cpu[turn], 0, {}) /\ UNCHANGED <<mbox, got, accepted, received>>
  BY DEF MailInv, RecvRefuse, boxvars
<1>2. /\ IInv'
      /\ \A v \in Vm : Live(v)' => Live(v)
      /\ \A v \in Vm : Receiving(v)' => Receiving(v)
  BY <1>1, PlainCall
<1> QED
  BY <1>1, <1>2, QuietInv

LEMMA RecvParkInv ==
    ASSUME MailInv, NEW used \in 0 .. budget - 1, NEW d \in Advance(used),
           NEW timeout \in RecvTimeout, RecvPark(used, d, timeout)
    PROVE  MailInv'
<1> DEFINE until == IF timeout = Forever THEN 0 ELSE (Later(d) + timeout) % TickMod
           c == [cpu[turn] EXCEPT !.reason = "mailbox_recv", !.deadline = until]
           n == IF timeout = Forever THEN 0 ELSE timeout
<1>1. /\ IInv /\ Call(used, d, c, n, {}) /\ UNCHANGED <<mbox, got, accepted, received>>
      /\ mbox[turn] = <<>>
  BY DEF MailInv, RecvPark
<1>2. turn # NoVm
  BY <1>1 DEF Call, Running
<1>3. timeout \in Int /\ n \in Int
  BY SchedAssumption DEF RecvTimeout, Forever
<1>4. cpu[turn] \in Cpu /\ Later(d) \in Int
  <2>1. used \in Nat
    BY <1>1, <1>2, TurnFacts, SchedAssumption
  <2>2. Later(d) \in 0 .. TickMod - 1
    BY <1>1, <2>1, TickedType DEF IInv
  <2> QED
    BY <1>1, <1>2, <2>2, TurnFacts, SchedAssumption
<1>5. until \in 0 .. TickMod - 1
  BY <1>3, <1>4, TickType, SchedAssumption
<1> HIDE DEF until
<1>6. c \in Cpu
  BY <1>4, <1>5 DEF Cpu, Reason
<1> HIDE DEF c, n
<1>7. /\ IInv'
      /\ \A v \in Vm : Live(v)' => Live(v)
      /\ \A v \in Vm : Receiving(v)' => Receiving(v) \/ v = turn
  BY <1>1, <1>3, <1>6, CallFacts
<1> QED
  BY <1>1, <1>7, QuietInv

LEMMA HandlersInv ==
    ASSUME MailInv, handle_send \/ handle_recv \/ handle_whitelist
    PROVE  MailInv'
<1>1. CASE handle_send
  BY <1>1, SendRefusedInv, SendDirectInv, SendQueuedInv DEF handle_send
<1>2. CASE handle_recv
  BY <1>2, RecvTakeInv, RecvRefuseInv, RecvParkInv DEF handle_recv
<1>3. CASE handle_whitelist
  <2>1. PICK used \in 0 .. budget - 1 : \E d \in Advance(used) :
            Call(used, d, cpu[turn], 0, {}) /\ UNCHANGED <<mbox, got, accepted, received, timed>>
    BY <1>3 DEF handle_whitelist
  <2>2. PICK d \in Advance(used) :
            Call(used, d, cpu[turn], 0, {}) /\ UNCHANGED <<mbox, got, accepted, received, timed>>
    BY <2>1
  <2>3. /\ IInv'
        /\ \A v \in Vm : Live(v)' => Live(v)
        /\ \A v \in Vm : Receiving(v)' => Receiving(v)
    BY <2>2, PlainCall DEF MailInv
  <2> QED
    BY <2>2, <2>3, QuietInv
<1> QED
  BY <1>1, <1>2, <1>3

\* vm_system_load_vm and vm_system_unload_vm start the slot's mailbox afresh.
LEMMA SlotInv ==
    ASSUME MailInv, NEW w \in Vm, LoadWithMailbox(w) \/ Unload(w)
    PROVE  MailInv'
<1>1. IInv /\ MailTypes
  BY DEF MailInv
<1>2. IInv'
  BY <1>1, AdmitIInv, UnregisterIInv DEF LoadWithMailbox, Unload, vm_sched_register
<1>3. /\ mbox' = [mbox EXCEPT ![w] = <<>>] /\ got' = [got EXCEPT ![w] = NoMessage]
      /\ accepted' = [accepted EXCEPT ![w] = 0] /\ received' = [received EXCEPT ![w] = 0]
  BY DEF LoadWithMailbox, Unload, ClearSlot
<1>4. 0 \in 0 .. NumMod - 1 /\ 0 \in Vm
  BY NumModType, SchedAssumption DEF Vm
<1>5. NoMessage \in Message /\ NoMessage.n = 0 /\ <<>> \in Seq(Message)
  BY <1>4 DEF NoMessage, Message
<1>6. MailTypes'
  BY <1>1, <1>3, <1>4, <1>5 DEF MailTypes
<1>7. /\ blocked' \subseteq blocked
      /\ \A v \in Vm \ {w} : cpu'[v] = cpu[v] /\ (v \in vms' <=> v \in vms)
  BY <1>1 DEF LoadWithMailbox, Unload, vm_sched_register, vm_sched_unregister, Admit, Drop, IInv, TypeOK
<1>8. ASSUME NEW v \in Vm, v # w
      PROVE  mbox'[v] = mbox[v] /\ got'[v] = got[v] /\ accepted'[v] = accepted[v]
             /\ received'[v] = received[v]
  BY <1>1, <1>3, <1>8 DEF MailTypes
<1>9. ASSUME NEW v \in Vm, v # w, Live(v)' PROVE InOrder(v)'
  <2>1. InOrder(v)
    BY <1>7, <1>9 DEF MailInv, Live
  <2> QED
    BY <1>8, <1>9, <2>1 DEF InOrder
<1>10. mbox'[w] = <<>> /\ InOrder(w)'
  <2>1. mbox'[w] = <<>> /\ got'[w] = NoMessage /\ accepted'[w] = 0 /\ received'[w] = 0
    BY <1>1, <1>3 DEF MailTypes
  <2>2. (0 + Len(<<>>)) % NumMod = 0 /\ Numbered(<<>>, 0) /\ Len(<<>>) <= Depth
    BY <1>4, EmptyFacts
  <2> QED
    BY <1>5, <2>1, <2>2 DEF InOrder, Numbered
<1>11. \A v \in Vm : Receiving(v)' => mbox'[v] = <<>>
  BY <1>7, <1>8, <1>10 DEF MailInv, Receiving
<1> QED
  BY <1>2, <1>6, <1>9, <1>10, <1>11 DEF MailInv, Live, Receiving, InOrder

LEMMA MailNextInv == MailInv /\ [MailNext]_mailvars => MailInv'
<1> SUFFICES ASSUME MailInv, [MailNext]_mailvars PROVE MailInv'
  OBVIOUS
<1>1. CASE WakeStep \/ (Expire /\ UNCHANGED boxvars) \/ (StepHalted /\ UNCHANGED boxvars)
           \/ (EcallPlain /\ UNCHANGED boxvars) \/ \E v \in Vm : HaltVm(v)
  <2>1. \/ StepRun \/ StepIdle \/ Expire \/ StepHalted \/ EcallPlain
        \/ \E w \in Vm : vm_sched_halt(w)
    BY <1>1 DEF WakeStep, HaltVm
  <2>2. UNCHANGED <<mbox, got, accepted, received>>
    BY <1>1 DEF WakeStep, HaltVm, boxvars
  <2>3. IInv'
    BY <2>1, StepRunIInv, StepIdleIInv, HaltingOutcomes, RotatingOutcomes, ExtendIInv,
       EcallOutcomes, HaltIInv DEF MailInv, Expire
  <2>4. \A v \in Vm : (Live(v)' => Live(v)) /\ (Receiving(v)' => Receiving(v))
    BY <2>1, SchedulerIsQuiet DEF MailInv
  <2> QED
    BY <2>2, <2>3, <2>4, QuietInv
<1>2. CASE handle_send \/ handle_recv \/ handle_whitelist
  BY <1>2, HandlersInv
<1>3. CASE \E v \in Vm : LoadWithMailbox(v) \/ Unload(v)
  BY <1>3, SlotInv
<1>4. CASE UNCHANGED mailvars
  <2>1. UNCHANGED <<vars, mbox, got, accepted, received>>
    BY <1>4 DEF mailvars, boxvars
  <2>2. IInv'
    BY <2>1, NextIInv DEF MailInv
  <2>3. \A v \in Vm : (Live(v)' => Live(v)) /\ (Receiving(v)' => Receiving(v))
    BY <2>1 DEF vars, slotvars, Live, Receiving
  <2> QED
    BY <2>1, <2>2, <2>3, QuietInv
<1> QED
  BY <1>1, <1>2, <1>3, <1>4 DEF MailNext

-----------------------------------------------------------------------------
\* Every queue holds the messages that follow the last one received.
THEOREM MailInvariance == MailSpec => []MailInv
  BY MailInitInv, MailNextInv, PTL DEF MailSpec

\* The scheduler's bitmaps partition the live VMs also when handlers wake other VMs.
THEOREM MailKeepsBitmaps == MailSpec => []BitmapsPartition
<1>1. MailInv => BitmapsPartition
  BY DEF MailInv, IInv
<1> QED
  BY <1>1, MailInvariance, PTL

\* ReceivedInOrder: queued or copied straight into the receiver's buffer, the k-th message a
\* VM receives is the k-th accepted for it.
THEOREM MailStaysInOrder == MailSpec => []ReceivedInOrder
<1>1. MailInv => ReceivedInOrder
  <2> SUFFICES ASSUME MailInv, NEW v \in vms, ~cpu[v].halted
               PROVE  /\ got[v].n = received[v]
                      /\ (accepted[v] - received[v]) % NumMod = Len(mbox[v])
    BY DEF ReceivedInOrder
  <2>1. /\ v \in Vm /\ InOrder(v) /\ mbox[v] \in Seq(Message)
        /\ received[v] \in 0 .. NumMod - 1
    BY DEF MailInv, MailTypes, IInv, TypeOK, Live
  <2>2. Len(mbox[v]) \in Nat /\ Len(mbox[v]) <= Depth /\ received[v] \in Int
    BY <2>1, NumModType DEF InOrder
  <2>3. (((received[v] + Len(mbox[v])) % NumMod) + (-received[v])) % NumMod
           = ((received[v] + Len(mbox[v])) + (-received[v])) % NumMod
    <3>1. received[v] + Len(mbox[v]) \in Int /\ -received[v] \in Int
      BY <2>2
    <3> QED
      BY <3>1, NumShift
  <2>4. (received[v] + Len(mbox[v])) + (-received[v]) = Len(mbox[v])
    BY <2>2
  <2>5. Len(mbox[v]) % NumMod = Len(mbox[v])
    <3>1. NumMod \in Nat \ {0} /\ Len(mbox[v]) \in Int /\ Len(mbox[v]) >= 0 /\ Len(mbox[v]) < NumMod
      BY <2>2, NumModType, MailAssumption
    <3> QED
      BY <3>1, ModNear
  <2>6. (received[v] + Len(mbox[v])) % NumMod \in Int
    <3>1. received[v] + Len(mbox[v]) \in Int /\ 0 \in Int
      BY <2>2
    <3>2. (received[v] + Len(mbox[v])) % NumMod \in 0 .. NumMod - 1
      BY <3>1, NumShift
    <3> QED
      BY <3>2, NumModType
  <2>7. accepted[v] - received[v] = ((received[v] + Len(mbox[v])) % NumMod) + (-received[v])
    BY <2>1, <2>2, <2>6 DEF InOrder
  <2> QED
    BY <2>1, <2>3, <2>4, <2>5, <2>7 DEF InOrder
<1> QED
  BY <1>1, MailInvariance, PTL

\* NoneStranded: no VM sleeps in SYS_RECV while a message waits in its queue.
THEOREM NoMailIsStranded == MailSpec => []NoneStranded
<1>1. MailInv => NoneStranded
  BY DEF MailInv, NoneStranded, Receiving, IInv, TypeOK
<1> QED
  BY <1>1, MailInvariance, PTL

-----------------------------------------------------------------------------
(***************************************************************************)
(* The life of VMs for every number of slots, blocks and exit codes: no    *)
(* shared block is leaked or freed twice, and SYS_SPAWN_AND_WAIT returns   *)
(* what its child ended with.                                              *)
(*                                                                         *)
(* The Ctrl-C kill halts a VM behind the scheduler's back, so the bitmaps  *)
(* do not partition the live VMs here, and the scheduler's own invariant   *)
(* is of no use.  Slots is what is left of it; it makes the VM whose turn  *)
(* it is, the only one to allocate, a loaded one.  Exits says what a VM    *)
(* that halted by itself leaves for its parent, until it is reaped.        *)
(* Family holds of killed parents too, which WaitsForOwnChild leaves out:  *)
(* the reap would otherwise wake the wrong one of two VMs parked on a      *)
(* child.                                                                  *)
(***************************************************************************)

Slots ==
    /\ vms \subseteq Vm /\ cpu \in [Vm -> Cpu] /\ cursor \in Vm
    /\ ready \subseteq vms /\ blocked \subseteq vms /\ ready \cap blocked = {}
    /\ turn # NoVm => turn \in ready

Memory ==
    /\ owned \in [Vm -> SUBSET Blocks]
    /\ \A v \in Vm \ vms : owned[v] = {}
    /\ inuse = UNION {owned[v] : v \in vms}
    /\ \A v \in Vm : \A w \in Vm \ {v} : owned[v] \cap owned[w] = {}

Registers ==
    /\ a0 \in [Vm -> Int] /\ status \in [Vm -> Int] /\ trap \in [Vm -> Trap]
    /\ child \in [Vm -> Vm \cup {NoVm}] /\ parent \in [Vm -> Vm \cup {NoVm}]

\* v stopped by itself and its parent can be told how.
Stopped(v) == v \notin blocked /\ status[v] = Delivered(v)
Exits == \A v \in Halted : trap[v] # "halt" => Stopped(v)

\* Whoever waits for a child sleeps, and the child is loaded and its own.
Family ==
    \A p \in vms : cpu[p].reason = "on_child" =>
        p \in blocked /\ child[p] \in vms /\ parent[child[p]] = p

Reaping == reaping => turn = NoVm /\ Halted # {}

SpawnInv == Slots /\ Memory /\ Registers /\ Exits /\ Family /\ Reaping

\* Nobody in SYS_SPAWN_AND_WAIT is woken.
NobodyReturns == \A p \in blocked : cpu[p].reason = "on_child" => cpu'[p].reason = "on_child"

-----------------------------------------------------------------------------
\* The loops of vm_system.c find the lowest slot there is.
LEMMA LeastFacts == ASSUME NEW S \in SUBSET Vm, S # {} PROVE Least(S) \in S
<1>1. S \subseteq Nat
  BY SchedAssumption DEF Vm
<1>2. \E m \in S : \A k \in S : m <= k
  BY <1>1, LeastNat
<1> QED
  BY <1>2 DEF Least

\* What the fields of a VmCpu are after each of the changes made here.
LEMMA ReasonFacts == 0 \in 0 .. TickMod - 1 /\ {"none", "on_child", "yielded"} \subseteq Reason
  BY SchedAssumption DEF Reason

LEMMA FreshFacts == FreshCpu \in Cpu /\ ~FreshCpu.halted /\ FreshCpu.reason = "none"
  BY ReasonFacts DEF FreshCpu, Cpu

LEMMA AwakeFacts ==
    \A c \in Cpu : Unblocked(c) \in Cpu /\ Unblocked(c).halted = c.halted
                  /\ Unblocked(c).reason = "none"
<1> SUFFICES ASSUME NEW c \in Cpu
             PROVE  Unblocked(c) \in Cpu /\ Unblocked(c).halted = c.halted /\ Unblocked(c).reason = "none"
  OBVIOUS
<1>1. Unblocked(c) \in Cpu /\ Unblocked(c).halted = c.halted
  BY ReasonFacts DEF Unblocked, Cpu
<1>2. Unblocked(c).reason = "none"
  BY DEF Unblocked, Cpu
<1> QED
  BY <1>1, <1>2

LEMMA HaltedFacts ==
    \A c \in Cpu : [c EXCEPT !.halted = TRUE] \in Cpu /\ [c EXCEPT !.halted = TRUE].halted
                  /\ [c EXCEPT !.halted = TRUE].reason = c.reason
<1> SUFFICES ASSUME NEW c \in Cpu
             PROVE  [c EXCEPT !.halted = TRUE] \in Cpu /\ [c EXCEPT !.halted = TRUE].halted /\ [c EXCEPT !.halted = TRUE].reason = c.reason
  OBVIOUS
<1>1. [c EXCEPT !.halted = TRUE] \in Cpu /\ [c EXCEPT !.halted = TRUE].halted
  BY ReasonFacts DEF Cpu
<1>2. [c EXCEPT !.halted = TRUE].reason = c.reason
  BY DEF Cpu
<1> QED
  BY <1>1, <1>2

LEMMA ParkedFacts ==
    \A c \in Cpu : [c EXCEPT !.reason = "on_child"] \in Cpu /\ [c EXCEPT !.reason = "on_child"].halted = c.halted
                  /\ [c EXCEPT !.reason = "on_child"].reason = "on_child"
<1> SUFFICES ASSUME NEW c \in Cpu
             PROVE  [c EXCEPT !.reason = "on_child"] \in Cpu /\ [c EXCEPT !.reason = "on_child"].halted = c.halted /\ [c EXCEPT !.reason = "on_child"].reason = "on_child"
  OBVIOUS
<1>1. [c EXCEPT !.reason = "on_child"] \in Cpu /\ [c EXCEPT !.reason = "on_child"].halted = c.halted
  BY ReasonFacts DEF Cpu
<1>2. [c EXCEPT !.reason = "on_child"].reason = "on_child"
  BY DEF Cpu
<1> QED
  BY <1>1, <1>2

LEMMA YieldFacts ==
    \A c \in Cpu : vm_handle_yield(c) \in Cpu /\ vm_handle_yield(c).halted = c.halted
                  /\ vm_handle_yield(c).reason = "yielded"
<1> SUFFICES ASSUME NEW c \in Cpu
             PROVE  vm_handle_yield(c) \in Cpu /\ vm_handle_yield(c).halted = c.halted /\ vm_handle_yield(c).reason = "yielded"
  OBVIOUS
<1>1. vm_handle_yield(c) \in Cpu /\ vm_handle_yield(c).halted = c.halted
  BY ReasonFacts DEF Cpu, vm_handle_yield
<1>2. vm_handle_yield(c).reason = "yielded"
  BY DEF Cpu, vm_handle_yield
<1> QED
  BY <1>1, <1>2

LEMMA SpawnInitInv == SpawnInit => SpawnInv
<1> SUFFICES ASSUME SpawnInit PROVE SpawnInv
  OBVIOUS
<1>1. 0 \in Vm
  BY SchedAssumption DEF Vm
<1>2. Slots /\ Reaping
  BY <1>1, FreshFacts DEF SpawnInit, Init, Slots, Reaping
<1>3. Memory
  BY DEF SpawnInit, Init, Memory
<1>4. Registers /\ Exits /\ Family
  BY DEF SpawnInit, Init, Registers, Exits, Family, Halted, Trap
<1> QED
  BY <1>2, <1>3, <1>4 DEF SpawnInv

-----------------------------------------------------------------------------
\* A vm_step of the VM whose turn it is leaves its VmCpu as c; the scheduler may file it
\* elsewhere and end the turn.
Filed(c) ==
    /\ turn # NoVm /\ vms' = vms /\ cpu' = [cpu EXCEPT ![turn] = c]
    /\ ready' \subseteq ready /\ ready' \cap blocked' = {}
    /\ blocked' \subseteq blocked \cup {turn} /\ blocked \ {turn} \subseteq blocked'
    /\ c.halted => turn \notin blocked'
    /\ \/ turn' = turn /\ ready' = ready /\ cursor' = cursor
       \/ turn' = NoVm /\ cursor' = After(turn)

LEMMA RunnerFacts ==
    ASSUME Slots, turn # NoVm
    PROVE  /\ turn \in Vm /\ turn \in vms /\ turn \notin blocked /\ cpu[turn] \in Cpu
           /\ After(turn) \in Vm
<1>1. turn \in Vm
  BY DEF Slots
<1> QED
  BY <1>1, SchedAssumption DEF Slots, Vm, After

LEMMA EcallFiles ==
    ASSUME Slots, NEW used, NEW d, NEW c \in Cpu, Ecall(used, d, c, 0)
    PROVE  Filed(c)
<1>1. turn # NoVm /\ vms' = vms /\ cpu' = [cpu EXCEPT ![turn] = c]
  BY DEF Ecall, AfterDispatch, Running
<1>2. turn \notin blocked /\ ready \cap blocked = {}
  BY <1>1, RunnerFacts DEF Slots
<1> QED
  BY <1>1, <1>2 DEF Ecall, AfterDispatch, EndTurn, Filed

LEMMA OutcomeFiles ==
    ASSUME Slots
    PROVE  /\ ExpireRotate => Filed(cpu[turn])
           /\ StepHalted \/ TrapTerminate => Filed([cpu[turn] EXCEPT !.halted = TRUE])
<1>1. ASSUME ExpireRotate PROVE Filed(cpu[turn])
  <2>1. turn # NoVm
    BY <1>1 DEF ExpireRotate, Running
  <2>2. turn \in Vm /\ turn \notin blocked /\ cpu = [cpu EXCEPT ![turn] = cpu[turn]]
    BY <2>1, RunnerFacts DEF Slots
  <2> QED
    BY <1>1, <2>1, <2>2 DEF ExpireRotate, EndTurn, slotvars, Filed, Slots
<1>2. ASSUME StepHalted \/ TrapTerminate
      PROVE  Filed([cpu[turn] EXCEPT !.halted = TRUE])
  <2>1. /\ turn # NoVm /\ vms' = vms /\ cpu' = [cpu EXCEPT ![turn].halted = TRUE]
        /\ ready' = ready \ {turn} /\ blocked' = blocked \ {turn}
        /\ turn' = NoVm /\ cursor' = After(turn)
    BY <1>2 DEF StepHalted, TrapTerminate, Running, EndTurn
  <2> QED
    BY <2>1 DEF Filed, Slots
<1> QED
  BY <1>1, <1>2

LEMMA FiledFacts ==
    ASSUME Slots, NEW c \in Cpu, Filed(c)
    PROVE  /\ Slots' /\ turn \in vms /\ turn \in Vm /\ cpu'[turn] = c
           /\ \A v \in Vm \ {turn} : cpu'[v] = cpu[v] /\ (v \in blocked' => v \in blocked)
<1>1. /\ turn \in Vm /\ turn \in vms /\ After(turn) \in Vm /\ cpu \in [Vm -> Cpu]
      /\ NoVm \notin Vm
  BY RunnerFacts, SchedAssumption DEF Filed, Slots, NoVm, Vm
<1>2. cpu' \in [Vm -> Cpu] /\ cpu'[turn] = c /\ \A v \in Vm \ {turn} : cpu'[v] = cpu[v]
  BY <1>1 DEF Filed
<1>3. Slots'
  BY <1>1, <1>2 DEF Filed, Slots
<1> QED
  BY <1>1, <1>2, <1>3 DEF Filed

\* A turn that goes on, or ends, without stopping the VM.
LEMMA QuietTurn ==
    ASSUME Slots, Registers, Exits, NEW c \in Cpu, Filed(c), UNCHANGED <<a0, exitvars>>,
           c.halted => cpu[turn].halted
    PROVE  Slots' /\ Registers' /\ Exits'
<1>1. Registers'
  BY DEF Registers, exitvars
<1>2. ASSUME NEW v \in vms', cpu'[v].halted, trap'[v] # "halt"
      PROVE  v \notin blocked' /\ status'[v] = Delivered(v)'
  <2>1. v \in Halted /\ v \in Vm
    BY <1>2, FiledFacts DEF Halted, Filed, Slots
  <2>2. Stopped(v)
    BY <1>2, <2>1 DEF Exits, exitvars
  <2>3. v \notin blocked'
    BY <1>2, <2>1, <2>2, FiledFacts DEF Stopped, Filed
  <2> QED
    BY <2>2, <2>3 DEF Stopped, Delivered, exitvars
<1> QED
  BY <1>1, <1>2, FiledFacts DEF Exits, Halted, Stopped, Delivered

\* A turn that ends with the VM stopped by itself.
LEMMA StoppingTurn ==
    ASSUME Slots, Registers, Exits, NEW c \in Cpu, Filed(c), c.halted,
           NEW code \in Int, NEW cause \in Trap, NEW told \in Int, Stops(turn, code, cause, told),
           UNCHANGED <<child, parent>>, told = IF cause = "fault" THEN -EIO ELSE code % 256
    PROVE  Slots' /\ Registers' /\ Exits'
<1>1. /\ a0' = [a0 EXCEPT ![turn] = code] /\ trap' = [trap EXCEPT ![turn] = cause]
      /\ status' = [status EXCEPT ![turn] = told]
  BY DEF Stops
<1>2. Registers'
  BY <1>1, FiledFacts DEF Registers
<1>3. ASSUME NEW v \in vms', cpu'[v].halted, trap'[v] # "halt"
      PROVE  v \notin blocked' /\ status'[v] = Delivered(v)'
  <2>1. v \in vms /\ v \in Vm
    BY FiledFacts DEF Filed, Slots
  <2>2. CASE v = turn
    <3>1. a0'[v] = code /\ trap'[v] = cause /\ status'[v] = told
      BY <1>1, <2>1, <2>2 DEF Registers
    <3> QED
      BY <2>2, <3>1 DEF Filed, Delivered
  <2>3. CASE v # turn
    <3>1. a0'[v] = a0[v] /\ trap'[v] = trap[v] /\ status'[v] = status[v] /\ cpu'[v] = cpu[v]
          /\ (v \in blocked' => v \in blocked)
      BY <1>1, <2>1, <2>3, FiledFacts DEF Registers
    <3>2. Stopped(v)
      BY <1>3, <2>1, <3>1 DEF Exits, Halted
    <3> QED
      BY <3>1, <3>2 DEF Stopped, Delivered
  <2> QED
    BY <2>2, <2>3
<1> QED
  BY <1>2, <1>3, FiledFacts DEF Exits, Halted, Stopped, Delivered

LEMMA BlockedUndisturbed ==
    ASSUME Slots, NEW c \in Cpu, Filed(c)
    PROVE  NobodyReturns
<1>1. turn \notin blocked /\ blocked \subseteq Vm
  BY RunnerFacts DEF Filed, Slots
<1> QED
  BY <1>1, FiledFacts DEF NobodyReturns

LEMMA MemoryKept ==
    ASSUME Memory, UNCHANGED memvars, vms' = vms
    PROVE  Memory'
  BY DEF Memory, memvars

\* Nobody begins to wait and nobody who waits loses its child.
LEMMA FamilyKept ==
    ASSUME Family, vms \subseteq vms', parent' = parent, \A p \in vms : child'[p] = child[p],
           \A p \in vms' : cpu'[p].reason = "on_child" =>
               p \in vms /\ cpu[p].reason = "on_child" /\ (p \in blocked => p \in blocked')
    PROVE  Family'
  BY DEF Family

LEMMA TurnKeepsFamily ==
    ASSUME Slots, Family, NEW c \in Cpu, Filed(c), UNCHANGED <<child, parent>>,
           c.reason = "on_child" => cpu[turn].reason = "on_child"
    PROVE  Family'
<1>1. turn \in vms /\ turn \notin blocked /\ vms \subseteq Vm /\ vms' = vms
  BY RunnerFacts DEF Filed, Slots
<1>2. c.reason # "on_child"
  BY <1>1 DEF Family
<1>3. ASSUME NEW p \in vms', cpu'[p].reason = "on_child"
      PROVE  p \in vms /\ cpu[p].reason = "on_child" /\ (p \in blocked => p \in blocked')
  BY <1>1, <1>2, <1>3, FiledFacts DEF Filed
<1> QED
  BY <1>1, <1>3, FamilyKept

\* The turns that neither allocate nor spawn.
LEMMA TurnInv ==
    ASSUME SpawnInv, Compute \/ Exit \/ Fault \/ SpawnRefused
    PROVE  SpawnInv' /\ NobodyReturns
<1>1. Slots /\ Memory /\ Registers /\ Exits /\ Family /\ Reaping
  BY DEF SpawnInv
<1>2. UNCHANGED memvars
  BY DEF Compute, Exit, Fault, SpawnRefused
<1>3. (SpawnRefused /\ reaping' = reaping) \/ StepOver
  BY DEF Compute, Exit, Fault, SpawnRefused
<1>4. PICK c \in Cpu : /\ Filed(c) /\ Slots' /\ Registers' /\ Exits'
                       /\ (c.reason = "on_child" => cpu[turn].reason = "on_child")
  <2>1. CASE Compute
    <3>1. UNCHANGED <<a0, exitvars>>
      BY <2>1 DEF Compute
    <3>2. CASE ExpireRotate
      <4>1. Filed(cpu[turn])
        BY <1>1, <3>2, OutcomeFiles
      <4>2. PICK c \in Cpu : c = cpu[turn]
        BY <1>1, <4>1, RunnerFacts DEF Filed
      <4> QED
        BY <1>1, <3>1, <4>1, <4>2, QuietTurn
    <3>3. CASE turn \in Halted /\ StepHalted
      <4>1. Filed([cpu[turn] EXCEPT !.halted = TRUE]) /\ cpu[turn].halted
        BY <1>1, <3>3, OutcomeFiles DEF Halted
      <4>2. PICK c \in Cpu : c = [cpu[turn] EXCEPT !.halted = TRUE] /\ c.reason = cpu[turn].reason
        BY <1>1, <4>1, RunnerFacts, HaltedFacts DEF Filed
      <4> QED
        BY <1>1, <3>1, <4>1, <4>2, QuietTurn
    <3>4. CASE \E used \in 0 .. budget - 1 : \E d \in Advance(used) :
                   Ecall(used, d, vm_handle_yield(cpu[turn]), 0)
      <4>1. turn # NoVm
        BY <3>4 DEF Ecall, Running
      <4>2. PICK c \in Cpu : c = vm_handle_yield(cpu[turn]) /\ c.halted = cpu[turn].halted
                             /\ c.reason = "yielded"
        BY <1>1, <4>1, RunnerFacts, YieldFacts
      <4>3. Filed(c)
        BY <1>1, <3>4, <4>2, EcallFiles
      <4> QED
        BY <1>1, <3>1, <4>2, <4>3, QuietTurn
    <3> QED
      BY <2>1, <3>2, <3>3, <3>4 DEF Compute
  <2>2. CASE Exit
    <3>1. PICK used, d : Ecall(used, d, vm_handle_exit(cpu[turn]), 0)
      BY <2>2 DEF Exit
    <3>2. turn # NoVm
      BY <3>1 DEF Ecall, Running
    <3>3. PICK c \in Cpu : c = vm_handle_exit(cpu[turn]) /\ c.halted /\ c.reason = cpu[turn].reason
      BY <1>1, <3>2, RunnerFacts, HaltedFacts DEF vm_handle_exit
    <3>4. Filed(c)
      BY <1>1, <3>1, <3>3, EcallFiles
    <3>5. PICK code \in ExitCodes : Stops(turn, code, "ecall", code % 256)
      BY <2>2 DEF Exit
    <3>6. code \in Int /\ code % 256 \in Int /\ "ecall" \in Trap /\ UNCHANGED <<child, parent>>
      BY <2>2, SpawnAssumption DEF Exit, Trap
    <3> QED
      BY <1>1, <3>3, <3>4, <3>5, <3>6, StoppingTurn
  <2>3. CASE Fault
    <3>1. Filed([cpu[turn] EXCEPT !.halted = TRUE])
      BY <1>1, <2>3, OutcomeFiles DEF Fault
    <3>2. PICK c \in Cpu : c = [cpu[turn] EXCEPT !.halted = TRUE] /\ c.halted
                           /\ c.reason = cpu[turn].reason
      BY <1>1, <3>1, RunnerFacts, HaltedFacts DEF Filed
    <3>3. Filed(c)
      BY <3>1, <3>2
    <3>4. UNCHANGED <<child, parent>> /\ (Stops(turn, 0, "fault", -EIO) \/ Stops(turn, 0, "breakpoint", 0))
      BY <2>3 DEF Fault
    <3>5. 0 % 256 = 0 /\ -EIO \in Int /\ 0 \in Int /\ {"fault", "breakpoint"} \subseteq Trap
      BY DEF EIO, Trap
    <3>6. CASE Stops(turn, 0, "fault", -EIO)
      BY <1>1, <3>2, <3>3, <3>4, <3>5, <3>6, StoppingTurn
    <3>7. CASE Stops(turn, 0, "breakpoint", 0)
      BY <1>1, <3>2, <3>3, <3>4, <3>5, <3>7, StoppingTurn
    <3> QED
      BY <3>2, <3>3, <3>4, <3>6, <3>7
  <2>4. CASE SpawnRefused
    <3>1. PICK used, d : Ecall(used, d, cpu[turn], 0)
      BY <2>4 DEF SpawnRefused
    <3>2. turn # NoVm /\ UNCHANGED <<a0, exitvars>>
      BY <2>4, <3>1 DEF Ecall, Running, SpawnRefused
    <3>3. PICK c \in Cpu : c = cpu[turn]
      BY <1>1, <3>2, RunnerFacts
    <3>4. Filed(c)
      BY <1>1, <3>1, <3>3, EcallFiles
    <3> QED
      BY <1>1, <3>2, <3>3, <3>4, QuietTurn
  <2> QED
    BY <2>1, <2>2, <2>3, <2>4
<1>5. Memory'
  BY <1>1, <1>2, <1>4, MemoryKept DEF Filed
<1>6. Reaping'
  BY <1>1, <1>3, <1>4 DEF Reaping, StepOver, Halted, Filed
<1>7. NobodyReturns
  BY <1>1, <1>4, BlockedUndisturbed
<1>8. UNCHANGED <<child, parent>>
  BY DEF Compute, Exit, Fault, SpawnRefused, exitvars
<1>9. Family'
  BY <1>1, <1>4, <1>8, TurnKeepsFamily
<1> QED
  BY <1>4, <1>5, <1>6, <1>7, <1>9 DEF SpawnInv

\* SYS_ALLOC and SYS_FREE: a block moves between the slab and the VM whose turn it is.
LEMMA AllocInv ==
    ASSUME SpawnInv, handle_alloc \/ handle_free
    PROVE  SpawnInv' /\ NobodyReturns
<1>1. Slots /\ Memory /\ Registers /\ Exits /\ Family /\ Reaping
  BY DEF SpawnInv
<1>2. /\ UNCHANGED <<a0, exitvars, reaping>>
      /\ \E used \in 0 .. budget - 1 : \E d \in Advance(used) : Ecall(used, d, cpu[turn], 0)
  BY DEF handle_alloc, handle_free
<1>3. turn # NoVm
  BY <1>2 DEF Ecall, Running
<1>4. PICK t \in vms : t = turn /\ t \in Vm /\ cpu[t] \in Cpu
  BY <1>1, <1>3, RunnerFacts
<1>5. PICK c \in Cpu : c = cpu[turn]
  BY <1>4
<1>6. Filed(c)
  BY <1>1, <1>2, <1>5, EcallFiles
<1>7. Slots' /\ Registers' /\ Exits' /\ vms' = vms
  BY <1>1, <1>2, <1>5, <1>6, QuietTurn DEF Filed
<1>8. Reaping'
  BY <1>1, <1>2, <1>3 DEF Reaping
<1>9. Memory'
  <2>1. CASE UNCHANGED memvars
    BY <1>1, <1>7, <2>1, MemoryKept
  <2>2. CASE \E b \in Blocks \ inuse : /\ inuse' = inuse \cup {b}
                                       /\ owned' = [owned EXCEPT ![t] = owned[t] \cup {b}]
    <3>1. PICK b \in Blocks \ inuse : /\ inuse' = inuse \cup {b}
                                      /\ owned' = [owned EXCEPT ![t] = owned[t] \cup {b}]
      BY <2>2
    <3>2. /\ owned'[t] = owned[t] \cup {b} /\ \A v \in Vm \ {t} : owned'[v] = owned[v]
          /\ owned' \in [Vm -> SUBSET Blocks]
      BY <1>1, <1>4, <3>1 DEF Memory
    <3>3. \A v \in Vm : b \notin owned[v]
      BY <1>1, <3>1 DEF Memory
    <3>4. inuse' = UNION {owned'[v] : v \in vms}
      BY <1>1, <1>4, <3>1, <3>2 DEF Memory, Slots
    <3>5. \A v \in Vm : \A w \in Vm \ {v} : owned'[v] \cap owned'[w] = {}
      BY <1>1, <3>2, <3>3 DEF Memory
    <3> QED
      BY <1>1, <1>4, <1>7, <3>2, <3>4, <3>5 DEF Memory
  <2>3. CASE \E b \in owned[t] : /\ inuse' = inuse \ {b}
                                 /\ owned' = [owned EXCEPT ![t] = owned[t] \ {b}]
    <3>1. PICK b \in owned[t] : /\ inuse' = inuse \ {b}
                                /\ owned' = [owned EXCEPT ![t] = owned[t] \ {b}]
      BY <2>3
    <3>2. /\ owned'[t] = owned[t] \ {b} /\ \A v \in Vm \ {t} : owned'[v] = owned[v]
          /\ owned' \in [Vm -> SUBSET Blocks]
      BY <1>1, <1>4, <3>1 DEF Memory
    <3>3. \A v \in Vm \ {t} : b \notin owned[v]
      BY <1>1, <1>4, <3>1 DEF Memory
    <3>4. inuse' = UNION {owned'[v] : v \in vms}
      BY <1>1, <1>4, <3>1, <3>2, <3>3 DEF Memory, Slots
    <3>5. \A v \in Vm : \A w \in Vm \ {v} : owned'[v] \cap owned'[w] = {}
      BY <1>1, <3>2 DEF Memory
    <3> QED
      BY <1>1, <1>4, <1>7, <3>2, <3>4, <3>5 DEF Memory
  <2> QED
    BY <1>4, <2>1, <2>2, <2>3 DEF handle_alloc, handle_free
<1>10. NobodyReturns
  BY <1>1, <1>6, BlockedUndisturbed
<1>11. Family'
  BY <1>1, <1>2, <1>5, <1>6, TurnKeepsFamily DEF exitvars
<1> QED
  BY <1>7, <1>8, <1>9, <1>10, <1>11 DEF SpawnInv

-----------------------------------------------------------------------------
\* The host loads a program into a free slot, which holds no blocks.
LEMMA LoadInv ==
    ASSUME SpawnInv, NEW v \in Vm, Load(v)
    PROVE  SpawnInv' /\ NobodyReturns
<1>1. Slots /\ Memory /\ Registers /\ Exits /\ Family /\ Reaping
  BY DEF SpawnInv
<1>2. /\ v \notin vms /\ vms' = vms \cup {v} /\ cpu' = [cpu EXCEPT ![v] = FreshCpu]
      /\ ready' = ready \cup {v} /\ turn = NoVm
      /\ UNCHANGED <<blocked, cursor, turn, memvars, parent, status, reaping>>
      /\ a0' = [a0 EXCEPT ![v] = 0] /\ trap' = [trap EXCEPT ![v] = "none"]
      /\ child' = [child EXCEPT ![v] = NoVm] /\ ~reaping
  BY DEF Load, vm_sched_register, Admit, turnvars
<1>3. /\ cpu' \in [Vm -> Cpu] /\ ~cpu'[v].halted /\ cpu'[v].reason = "none"
      /\ \A w \in Vm \ {v} : cpu'[w] = cpu[w]
  BY <1>1, <1>2, FreshFacts DEF Slots
<1>4. Slots'
  BY <1>1, <1>2, <1>3 DEF Slots
<1>5. Memory'
  <2>1. owned[v] = {}
    BY <1>1, <1>2 DEF Memory
  <2>2. UNION {owned[w] : w \in vms \cup {v}} = UNION {owned[w] : w \in vms}
    BY <2>1
  <2> QED
    BY <1>1, <1>2, <2>2 DEF Memory, memvars
<1>6. Registers'
  BY <1>1, <1>2 DEF Registers, Trap
<1>7. Exits'
  <2>1. ASSUME NEW w \in vms', cpu'[w].halted, trap'[w] # "halt"
        PROVE  w \notin blocked' /\ status'[w] = Delivered(w)'
    <3>1. w # v /\ w \in vms /\ w \in Vm
      BY <1>1, <1>2, <1>3, <2>1 DEF Slots
    <3>2. cpu'[w] = cpu[w] /\ a0'[w] = a0[w] /\ trap'[w] = trap[w]
      BY <1>1, <1>2, <1>3, <3>1 DEF Registers
    <3>3. Stopped(w)
      BY <1>1, <2>1, <3>1, <3>2 DEF Exits, Halted
    <3> QED
      BY <1>2, <3>2, <3>3 DEF Stopped, Delivered
  <2> QED
    BY <2>1 DEF Exits, Halted, Stopped, Delivered
<1>8. Reaping'
  BY <1>2 DEF Reaping
<1>9. NobodyReturns
  BY <1>1, <1>2, <1>3 DEF NobodyReturns, Slots
<1>10. Family'
  <2>1. \A p \in vms : p \in Vm /\ child'[p] = child[p]
    BY <1>1, <1>2 DEF Slots, Registers
  <2>2. ASSUME NEW p \in vms', cpu'[p].reason = "on_child"
        PROVE  p \in vms /\ cpu[p].reason = "on_child" /\ (p \in blocked => p \in blocked')
    BY <1>2, <1>3, <2>1, <2>2
  <2> QED
    BY <1>1, <1>2, <2>1, <2>2, FamilyKept
<1> QED
  BY <1>4, <1>5, <1>6, <1>7, <1>8, <1>9, <1>10 DEF SpawnInv

\* vm_sched_step up to the pick: whoever waits for a child stays asleep.
LEMMA SchedInv ==
    ASSUME SpawnInv, Sched
    PROVE  SpawnInv' /\ NobodyReturns
<1>1. Slots /\ Memory /\ Registers /\ Exits /\ Family /\ Reaping
  BY DEF SpawnInv
<1>2. PICK W \in SUBSET (blocked \cap vms) :
         /\ W = Woken(global_tick')
         /\ ready' = ready \cup W /\ blocked' = blocked \ W
         /\ cpu' = [v \in Vm |-> IF v \in W THEN Unblocked(cpu[v]) ELSE cpu[v]]
  <2>1. PICK d : wake_expired_timeouts(d)
    BY DEF Sched, StepRun, StepIdle
  <2>2. global_tick' = Later(d)
    BY <2>1 DEF wake_expired_timeouts
  <2>3. Woken(global_tick') \in SUBSET (blocked \cap vms)
    BY DEF Woken
  <2> QED
    BY <2>1, <2>2, <2>3 DEF wake_expired_timeouts
<1>3. /\ vms' = vms /\ cursor' = cursor /\ turn = NoVm
      /\ (turn' = NoVm \/ (ready' # {} /\ turn' = find_next_ready(ready', cursor)))
  BY DEF Sched, StepRun, StepIdle, CanStep, turnvars
<1>4. UNCHANGED <<memvars, exitvars>> /\ StepOver
      /\ a0' = [v \in Vm |-> IF v \in W \/ (v = turn' /\ ~cpu[v].halted) THEN 0 ELSE a0[v]]
  BY <1>2 DEF Sched
<1>5. /\ cpu' \in [Vm -> Cpu]
      /\ \A v \in Vm : cpu'[v].halted = cpu[v].halted /\ (v \notin W => cpu'[v] = cpu[v])
  BY <1>1, <1>2, AwakeFacts DEF Slots
<1>6. Slots'
  <2>1. ready' \subseteq vms' /\ blocked' \subseteq vms' /\ ready' \cap blocked' = {}
    BY <1>1, <1>2, <1>3 DEF Slots
  <2>2. turn' # NoVm => turn' \in ready'
    BY <1>1, <1>3, <2>1, PickFacts DEF Slots
  <2> QED
    BY <1>1, <1>3, <1>5, <2>1, <2>2 DEF Slots
<1>7. Memory'
  BY <1>1, <1>3, <1>4, MemoryKept
<1>8. Registers'
  BY <1>1, <1>4 DEF Registers, exitvars
<1>9. Exits'
  <2>1. ASSUME NEW w \in vms', cpu'[w].halted, trap'[w] # "halt"
        PROVE  w \notin blocked' /\ status'[w] = Delivered(w)'
    <3>1. w \in vms /\ w \in Vm /\ cpu[w].halted
      BY <1>1, <1>3, <1>5, <2>1 DEF Slots
    <3>2. Stopped(w)
      BY <1>1, <1>4, <2>1, <3>1 DEF Exits, Halted, exitvars
    <3>3. a0'[w] = a0[w]
      BY <1>2, <1>4, <3>1, <3>2 DEF Stopped
    <3> QED
      BY <1>2, <1>4, <3>2, <3>3 DEF Stopped, Delivered, exitvars
  <2> QED
    BY <2>1 DEF Exits, Halted, Stopped, Delivered
<1>10. Reaping'
  BY <1>4 DEF Reaping, StepOver, Halted
<1>11. NobodyReturns
  <2>1. \A p \in W : cpu[p].reason # "on_child"
    BY <1>2 DEF Woken, Expired
  <2> QED
    BY <1>1, <1>5, <2>1 DEF NobodyReturns, Slots
<1>12. Family'
  <2>1. \A p \in W : cpu'[p].reason = "none"
    BY <1>1, <1>2, AwakeFacts DEF Slots
  <2>2. ASSUME NEW p \in vms', cpu'[p].reason = "on_child"
        PROVE  p \in vms /\ cpu[p].reason = "on_child" /\ (p \in blocked => p \in blocked')
    BY <1>1, <1>2, <1>3, <1>5, <2>1, <2>2 DEF Slots
  <2> QED
    BY <1>1, <1>3, <1>4, <2>2, FamilyKept DEF exitvars
<1> QED
  BY <1>6, <1>7, <1>8, <1>9, <1>10, <1>11, <1>12 DEF SpawnInv

LEMMA RunLoopInv ==
    ASSUME SpawnInv, RunLoop
    PROVE  SpawnInv' /\ NobodyReturns
<1>1. UNCHANGED <<vms, ready, blocked, cpu, cursor, turn, a0, memvars, exitvars, reaping>>
  BY DEF RunLoop, RunIdle, slotvars, turnvars
<1> QED
  BY <1>1 DEF SpawnInv, Slots, Memory, Registers, Exits, Family, Reaping, Halted, Stopped, Delivered,
              memvars, exitvars, NobodyReturns

\* SYS_SPAWN_AND_WAIT fills a free slot and puts its caller to sleep.
LEMMA SpawnAndWaitInv ==
    ASSUME SpawnInv, NEW c \in Vm, SpawnAndWait(c)
    PROVE  SpawnInv' /\ NobodyReturns
<1>1. Slots /\ Memory /\ Registers /\ Exits /\ Family /\ Reaping
  BY DEF SpawnInv
<1>2. /\ turn # NoVm /\ ~cpu[turn].halted /\ c \notin vms /\ vms' = vms \cup {c}
      /\ child' = [child EXCEPT ![turn] = c, ![c] = NoVm]
      /\ parent' = [parent EXCEPT ![c] = turn]
      /\ a0' = [a0 EXCEPT ![c] = 0] /\ trap' = [trap EXCEPT ![c] = "none"]
      /\ StepOver /\ UNCHANGED <<memvars, status>>
  BY DEF SpawnAndWait, Running
<1>3. PICK t \in Vm : t = turn /\ t \in vms /\ t # c /\ t \notin blocked /\ t \in ready
                      /\ cpu[t] \in Cpu /\ After(t) \in Vm
  BY <1>1, <1>2, RunnerFacts DEF Slots
<1>4. PICK e \in Cpu : e = [cpu[t] EXCEPT !.reason = "on_child"] /\ e.halted = cpu[t].halted
                       /\ e.reason = "on_child"
  BY <1>3, ParkedFacts
<1> DEFINE cpus == [cpu EXCEPT ![c] = FreshCpu]
<1>5. /\ cpu' = [cpus EXCEPT ![t] = e]
      /\ ready' = (ready \cup {c}) \ {t} /\ blocked' = blocked \cup {t}
      /\ turn' = NoVm /\ cursor' = After(t)
  <2>1. PICK used, d : AfterDispatch(used, d, e, 0, cpus, ready \cup {c}, blocked)
    BY <1>3, <1>4 DEF SpawnAndWait
  <2> HIDE DEF cpus
  <2> QED
    BY <1>2, <1>3, <1>4, <2>1 DEF AfterDispatch, EndTurn
<1>6. /\ cpu' \in [Vm -> Cpu] /\ ~cpu'[c].halted /\ cpu'[c].reason = "none" /\ cpu'[t] = e
      /\ \A v \in Vm \ {c, t} : cpu'[v] = cpu[v]
  <2>1. cpus \in [Vm -> Cpu] /\ cpus[c] = FreshCpu /\ \A v \in Vm \ {c} : cpus[v] = cpu[v]
    BY <1>1, FreshFacts DEF Slots
  <2> HIDE DEF cpus
  <2> QED
    BY <1>3, <1>4, <1>5, <2>1, FreshFacts
<1>7. Slots'
  BY <1>1, <1>2, <1>3, <1>5, <1>6 DEF Slots
<1>8. Memory'
  <2>1. owned[c] = {}
    BY <1>1, <1>2 DEF Memory
  <2>2. UNION {owned[w] : w \in vms \cup {c}} = UNION {owned[w] : w \in vms}
    BY <2>1
  <2> QED
    BY <1>1, <1>2, <2>2 DEF Memory, memvars
<1>9. Registers'
  BY <1>1, <1>2, <1>3 DEF Registers, Trap
<1>10. Exits'
  <2>1. ASSUME NEW w \in vms', cpu'[w].halted, trap'[w] # "halt"
        PROVE  w \notin blocked' /\ status'[w] = Delivered(w)'
    <3>1. w \notin {c, t} /\ w \in vms /\ w \in Vm
      BY <1>1, <1>2, <1>3, <1>4, <1>6, <2>1 DEF Slots
    <3>2. cpu'[w] = cpu[w] /\ a0'[w] = a0[w] /\ trap'[w] = trap[w]
      BY <1>1, <1>2, <1>6, <3>1 DEF Registers
    <3>3. Stopped(w)
      BY <1>1, <2>1, <3>1, <3>2 DEF Exits, Halted
    <3> QED
      BY <1>2, <1>5, <3>1, <3>2, <3>3 DEF Stopped, Delivered
  <2> QED
    BY <2>1 DEF Exits, Halted, Stopped, Delivered
<1>11. Reaping'
  BY <1>2 DEF Reaping, StepOver, Halted
<1>12. NobodyReturns
  BY <1>1, <1>2, <1>3, <1>6 DEF NobodyReturns, Slots
<1>13. Family'
  <2>1. /\ vms' = vms \cup {c} /\ blocked' = blocked \cup {t}
        /\ child'[t] = c /\ parent'[c] = t /\ \A w \in Vm \ {c} : parent'[w] = parent[w]
        /\ \A w \in Vm \ {c, t} : child'[w] = child[w]
    BY <1>1, <1>2, <1>3, <1>5 DEF Registers
  <2>2. ASSUME NEW p \in vms', cpu'[p].reason = "on_child"
        PROVE  p \in blocked' /\ child'[p] \in vms' /\ parent'[child'[p]] = p
    <3>1. p # c /\ p \in vms /\ p \in Vm
      BY <1>1, <1>2, <1>6, <2>2 DEF Slots
    <3>2. CASE p = t
      BY <2>1, <3>2
    <3>3. CASE p # t
      <4>1. p \in blocked /\ child[p] \in vms /\ parent[child[p]] = p
        BY <1>1, <1>6, <2>2, <3>1, <3>3 DEF Family
      <4>2. child[p] \in Vm \ {c} /\ child'[p] = child[p]
        BY <1>1, <1>2, <2>1, <3>1, <3>3, <4>1 DEF Slots
      <4> QED
        BY <2>1, <4>1, <4>2
    <3> QED
      BY <3>2, <3>3
  <2> QED
    BY <2>2 DEF Family
<1> QED
  BY <1>7, <1>8, <1>9, <1>10, <1>11, <1>12, <1>13 DEF SpawnInv

\* Ctrl-C halts a loaded VM and leaves the bitmaps alone.
LEMMA KillInv ==
    ASSUME SpawnInv, Kill
    PROVE  SpawnInv' /\ NobodyReturns
<1>1. Slots /\ Memory /\ Registers /\ Exits /\ Family /\ Reaping
  BY DEF SpawnInv
<1>2. PICK c \in vms : cpu' = [cpu EXCEPT ![c].halted = TRUE] /\ Stops(c, SIGINT_CODE, "halt", SIGINT_CODE)
  <2>1. Victims # {} /\ Victims \in SUBSET Vm
    BY <1>1 DEF Kill, Victims, Slots
  <2>2. Least(Victims) \in Victims
    BY <2>1, LeastFacts
  <2> QED
    BY <2>2 DEF Kill, Victims
<1>3. UNCHANGED <<vms, ready, blocked, cursor, turn, memvars, child, parent, reaping>> /\ ~reaping
  BY DEF Kill, slotvars, turnvars
<1>4. c \in Vm /\ cpu[c] \in Cpu
  BY <1>1 DEF Slots
<1>5. /\ cpu' \in [Vm -> Cpu] /\ cpu'[c].reason = cpu[c].reason
      /\ \A v \in Vm \ {c} : cpu'[v] = cpu[v]
  <2>1. PICK h \in Cpu : h = [cpu[c] EXCEPT !.halted = TRUE] /\ h.reason = cpu[c].reason
    BY <1>4, HaltedFacts
  <2>2. cpu' = [cpu EXCEPT ![c] = h]
    BY <1>2, <2>1
  <2> QED
    BY <1>1, <1>4, <2>1, <2>2 DEF Slots
<1>6. /\ a0' = [a0 EXCEPT ![c] = SIGINT_CODE] /\ trap' = [trap EXCEPT ![c] = "halt"]
      /\ status' = [status EXCEPT ![c] = SIGINT_CODE]
  BY <1>2 DEF Stops
<1>7. Slots'
  BY <1>1, <1>3, <1>5 DEF Slots
<1>8. Memory'
  BY <1>1, <1>3, MemoryKept
<1>9. Registers'
  BY <1>1, <1>3, <1>4, <1>6 DEF Registers, Trap, SIGINT_CODE
<1>10. Exits'
  <2>1. ASSUME NEW w \in vms', cpu'[w].halted, trap'[w] # "halt"
        PROVE  w \notin blocked' /\ status'[w] = Delivered(w)'
    <3>1. w # c /\ w \in vms /\ w \in Vm
      BY <1>1, <1>3, <1>4, <1>6, <2>1 DEF Slots, Registers
    <3>2. cpu'[w] = cpu[w] /\ a0'[w] = a0[w] /\ trap'[w] = trap[w] /\ status'[w] = status[w]
      BY <1>1, <1>5, <1>6, <3>1 DEF Registers
    <3>3. Stopped(w)
      BY <1>1, <2>1, <3>1, <3>2 DEF Exits, Halted
    <3> QED
      BY <1>3, <3>2, <3>3 DEF Stopped, Delivered
  <2> QED
    BY <2>1 DEF Exits, Halted, Stopped, Delivered
<1>11. Reaping'
  BY <1>3 DEF Reaping
<1>12. NobodyReturns
  BY <1>1, <1>5 DEF NobodyReturns, Slots
<1>13. Family'
  <2>1. \A p \in vms : cpu'[p].reason = cpu[p].reason
    BY <1>1, <1>5 DEF Slots
  <2> QED
    BY <1>1, <1>3, <2>1, FamilyKept
<1> QED
  BY <1>7, <1>8, <1>9, <1>10, <1>11, <1>12, <1>13 DEF SpawnInv

-----------------------------------------------------------------------------
\* The reap unloads the lowest halted VM, c, after waking the VM that waits for it.
Reaped(c, W) ==
    /\ c \in Halted /\ W = WakeChild(c) /\ W \subseteq blocked /\ (\A p \in W : child[p] = c)
    /\ cpu' = [v \in Vm |-> IF v = c THEN FreshCpu
                            ELSE IF v \in W THEN Unblocked(cpu[v]) ELSE cpu[v]]
    /\ a0' = [v \in Vm |-> IF v = c THEN 0 ELSE IF v \in W THEN Delivered(c) ELSE a0[v]]
    /\ child' = [v \in Vm |-> IF v \in W \cup {c} THEN NoVm ELSE child[v]]
    /\ vms' = vms \ {c}
    /\ ready' = (ready \cup W) \ {c} /\ blocked' = blocked \ (W \cup {c})
    /\ inuse' = inuse \ owned[c] /\ owned' = [owned EXCEPT ![c] = {}]
    /\ trap' = [trap EXCEPT ![c] = "none"] /\ status' = [status EXCEPT ![c] = 0]
    /\ parent' = [v \in Vm |-> IF v = c \/ parent[v] = c THEN NoVm ELSE parent[v]]
    /\ reaping' = (Halted # {c}) /\ UNCHANGED <<cursor, turn>>

LEMMA ReapFacts ==
    ASSUME Slots, Reaping, Reap
    PROVE  turn = NoVm /\ \E c \in Vm : \E W \in SUBSET Vm : Reaped(c, W)
<1>1. turn = NoVm /\ Halted # {} /\ Halted \in SUBSET Vm
  BY DEF Reap, Reaping, Halted, Slots
<1>2. PICK c \in Halted : c = Least(Halted)
  BY <1>1, LeastFacts
<1>3. PICK W \in SUBSET blocked : W = WakeChild(c) /\ \A p \in W : child[p] = c
  <2>1. Parked(c) \in SUBSET Vm
    BY DEF Parked, Slots
  <2>2. CASE Parked(c) = {}
    BY <2>2 DEF WakeChild
  <2>3. CASE Parked(c) # {}
    <3>1. Least(Parked(c)) \in Parked(c)
      BY <2>1, <2>3, LeastFacts
    <3>2. child[Least(Parked(c))] = c
      BY <3>1 DEF Parked
    <3>3. WakeChild(c) \subseteq blocked /\ WakeChild(c) \subseteq {Least(Parked(c))}
      BY <2>3 DEF WakeChild
    <3>4. \A p \in WakeChild(c) : child[p] = c
      BY <3>2, <3>3
    <3> QED
      BY <3>3, <3>4
  <2> QED
    BY <2>2, <2>3
<1>4. Reaped(c, W)
  BY <1>2, <1>3 DEF Reap, Reaped, vm_system_unload_vm, turnvars
<1> QED
  BY <1>1, <1>2, <1>3, <1>4 DEF Slots

LEMMA ReapInv ==
    ASSUME SpawnInv, Reap
    PROVE  SpawnInv'
<1>1. Slots /\ Memory /\ Registers /\ Exits /\ Family /\ Reaping
  BY DEF SpawnInv
<1>2. PICK c \in Vm, W \in SUBSET Vm : Reaped(c, W)
  BY <1>1, ReapFacts
<1>3. turn = NoVm /\ turn' = NoVm
  BY <1>1, <1>2, ReapFacts DEF Reaped
<1>4. /\ cpu' \in [Vm -> Cpu]
      /\ \A v \in Vm \ {c} : cpu'[v].halted = cpu[v].halted
  BY <1>1, <1>2, FreshFacts, AwakeFacts DEF Reaped, Slots
<1>5. Slots'
  BY <1>1, <1>2, <1>3, <1>4 DEF Reaped, Slots
<1>6. Memory'
  <2>1. /\ owned' \in [Vm -> SUBSET Blocks] /\ owned'[c] = {}
        /\ \A v \in Vm \ {c} : owned'[v] = owned[v]
    BY <1>1, <1>2 DEF Reaped, Memory
  <2>2. \A v \in Vm \ {c} : owned[v] \cap owned[c] = {}
    BY <1>1 DEF Memory
  <2>3. vms \subseteq Vm /\ inuse = UNION {owned[v] : v \in vms}
    BY <1>1 DEF Slots, Memory
  <2>4. inuse \ owned[c] = UNION {owned'[v] : v \in vms \ {c}}
    BY <2>1, <2>2, <2>3
  <2>5. \A v \in Vm : \A w \in Vm \ {v} : owned'[v] \cap owned'[w] = {}
    BY <1>1, <2>1 DEF Memory
  <2>6. \A v \in Vm \ vms' : owned'[v] = {}
    BY <1>1, <1>2, <2>1 DEF Memory, Reaped
  <2> QED
    BY <1>2, <2>1, <2>4, <2>5, <2>6 DEF Memory, Reaped
<1>7. Registers'
  <2>1. Delivered(c) \in Int
    BY <1>1 DEF Delivered, Registers, EIO
  <2> QED
    BY <1>1, <1>2, <2>1 DEF Reaped, Registers, Trap
<1>8. Exits'
  <2>1. ASSUME NEW w \in vms', cpu'[w].halted, trap'[w] # "halt"
        PROVE  w \notin blocked' /\ status'[w] = Delivered(w)'
    <3>1. w # c /\ w \in vms /\ w \in Vm /\ cpu[w].halted
      BY <1>1, <1>2, <1>4, <2>1 DEF Slots, Reaped
    <3>2. trap'[w] = trap[w] /\ status'[w] = status[w]
      BY <1>1, <1>2, <3>1 DEF Registers, Reaped
    <3>3. Stopped(w)
      BY <1>1, <2>1, <3>1, <3>2 DEF Exits, Halted
    <3>4. a0'[w] = a0[w] /\ w \notin blocked'
      BY <1>2, <3>1, <3>3 DEF Reaped, Stopped
    <3> QED
      BY <3>2, <3>3, <3>4 DEF Stopped, Delivered
  <2> QED
    BY <2>1 DEF Exits, Halted, Stopped, Delivered
<1>9. Reaping'
  <2>1. SUFFICES ASSUME reaping' PROVE Halted' # {}
    BY <1>3 DEF Reaping
  <2>2. PICK w \in Halted : w # c
    BY <1>2, <2>1 DEF Reaped
  <2>3. w \in vms' /\ cpu'[w].halted
    BY <1>1, <1>2, <1>4, <2>2 DEF Halted, Reaped, Slots
  <2> QED
    BY <2>3 DEF Halted
<1>10. Family'
  <2>1. ASSUME NEW p \in vms', cpu'[p].reason = "on_child"
        PROVE  p \in blocked' /\ child'[p] \in vms' /\ parent'[child'[p]] = p
    <3>1. p # c /\ p \in vms /\ p \in Vm
      BY <1>1, <1>2 DEF Slots, Reaped
    <3>2. cpu[p] \in Cpu /\ cpu'[p] = IF p \in W THEN Unblocked(cpu[p]) ELSE cpu[p]
      BY <1>1, <1>2, <3>1 DEF Slots, Reaped
    <3>3. p \notin W /\ cpu'[p] = cpu[p]
      BY <2>1, <3>2, AwakeFacts
    <3>4. p \in blocked /\ child[p] \in vms /\ parent[child[p]] = p
      BY <1>1, <2>1, <3>1, <3>3 DEF Family
    <3>5. child[p] # c
      <4>1. SUFFICES ASSUME child[p] = c PROVE FALSE
        OBVIOUS
      <4>2. Parked(c) = {p}
        BY <1>1, <2>1, <3>1, <3>3, <3>4, <4>1 DEF Parked, Family
      <4>3. Least(Parked(c)) = p
        BY <3>1, <4>2, LeastFacts
      <4> QED
        BY <1>2, <3>3, <3>4, <4>2, <4>3 DEF Reaped, WakeChild
    <3>6. child'[p] = child[p] /\ child[p] \in Vm
      BY <1>1, <1>2, <3>1, <3>3, <3>4 DEF Reaped, Slots
    <3>7. parent'[child[p]] = p
      BY <1>2, <3>1, <3>4, <3>5, <3>6 DEF Reaped
    <3> QED
      BY <1>2, <3>1, <3>3, <3>4, <3>5, <3>6, <3>7 DEF Reaped
  <2> QED
    BY <2>1 DEF Family
<1> QED
  BY <1>5, <1>6, <1>7, <1>8, <1>9, <1>10 DEF SpawnInv

-----------------------------------------------------------------------------
LEMMA SpawnStepInv ==
    ASSUME SpawnInv, [SpawnNext]_spawnvars
    PROVE  SpawnInv' /\ (NobodyReturns \/ Reap)
<1>1. CASE Sched
  BY <1>1, SchedInv
<1>2. CASE RunLoop
  BY <1>2, RunLoopInv
<1>3. CASE Compute \/ Exit \/ Fault \/ SpawnRefused
  BY <1>3, TurnInv
<1>4. CASE handle_alloc \/ handle_free
  BY <1>4, AllocInv
<1>5. ASSUME NEW v \in Vm, Load(v) PROVE SpawnInv' /\ NobodyReturns
  BY <1>5, LoadInv
<1>6. ASSUME NEW v \in Vm, SpawnAndWait(v) PROVE SpawnInv' /\ NobodyReturns
  BY <1>6, SpawnAndWaitInv
<1>7. CASE Reap
  BY <1>7, ReapInv
<1>8. CASE Kill
  BY <1>8, KillInv
<1>9. CASE UNCHANGED spawnvars
  <2>1. UNCHANGED <<vms, ready, blocked, cpu, cursor, turn, a0, memvars, exitvars, reaping>>
    BY <1>9 DEF spawnvars, vars, slotvars, turnvars
  <2> QED
    BY <2>1 DEF SpawnInv, Slots, Memory, Registers, Exits, Family, Reaping, Halted, Stopped, Delivered,
                memvars, exitvars, NobodyReturns
<1> QED
  BY <1>1, <1>2, <1>3, <1>4, <1>5, <1>6, <1>7, <1>8, <1>9 DEF SpawnNext

\* What holds of loaded VMs, their blocks and their exit codes in every state.
THEOREM SpawnInvariance == SpawnSpec => []SpawnInv
<1>1. SpawnInit => SpawnInv
  BY SpawnInitInv
<1>2. SpawnInv /\ [SpawnNext]_spawnvars => SpawnInv'
  BY SpawnStepInv
<1> QED
  BY <1>1, <1>2, PTL DEF SpawnSpec

\* handle_alloc, handle_free and vm_system_unload_vm keep every block of the shared
\* slab free or tracked by exactly one loaded VM.
THEOREM BlocksAlwaysAccounted == SpawnSpec => []BlocksAccounted
<1>1. SpawnInv => BlocksAccounted
  BY DEF SpawnInv, Memory, BlocksAccounted
<1> QED
  BY <1>1, SpawnInvariance, PTL

\* handle_spawn_and_wait and the reap: a live VM asleep in SYS_SPAWN_AND_WAIT waits for a VM
\* that is loaded and that it spawned, so that no other VM's end can wake it.
THEOREM WaitsForOwnChildAlways == SpawnSpec => []WaitsForOwnChild
<1>1. SpawnInv => WaitsForOwnChild
  BY DEF SpawnInv, Slots, Family, Waiting, WaitsForOwnChild
<1> QED
  BY <1>1, SpawnInvariance, PTL

\* vm_system_reap_halted_children: a SYS_SPAWN_AND_WAIT returns only once its child is
\* unloaded, with what the child ended with unless Ctrl-C killed it.
THEOREM ExitCodeIsDelivered == SpawnSpec => ExitCodeDelivered
<1> DEFINE Told == \A p \in vms \cap vms' :
                      Waiting(p) /\ cpu'[p].reason # "on_child" =>
                          /\ child[p] \notin vms'
                          /\ trap[child[p]] # "halt" => a0'[p] = status[child[p]]
<1>1. ASSUME SpawnInv, [SpawnNext]_spawnvars PROVE Told
  <2>1. SUFFICES ASSUME NEW p \in vms, p \in vms', Waiting(p), cpu'[p].reason # "on_child"
                 PROVE  /\ child[p] \notin vms'
                        /\ trap[child[p]] # "halt" => a0'[p] = status[child[p]]
    OBVIOUS
  <2>2. Slots /\ Exits /\ Reaping /\ Reap
    BY <1>1, <2>1, SpawnStepInv DEF NobodyReturns, Waiting, SpawnInv
  <2>3. PICK c \in Vm, W \in SUBSET Vm : Reaped(c, W)
    BY <2>2, ReapFacts
  <2>4. p \in W /\ p # c /\ p \in Vm
    BY <2>1, <2>2, <2>3 DEF Reaped, Waiting, Slots
  <2>5. child[p] = c /\ a0'[p] = Delivered(c) /\ c \notin vms' /\ c \in Halted
    BY <2>3, <2>4 DEF Reaped
  <2> QED
    BY <2>2, <2>5 DEF Exits, Stopped
<1>2. SpawnInv /\ [SpawnNext]_spawnvars => [Told]_spawnvars
  BY <1>1
<1> HIDE DEF Told
<1>3. SpawnSpec => [][Told]_spawnvars
  BY <1>2, SpawnInvariance, PTL DEF SpawnSpec
<1> QED
  BY <1>3 DEF ExitCodeDelivered, Told
=============================================================================
