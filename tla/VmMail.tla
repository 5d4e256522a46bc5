------------------------------- MODULE VmMail -------------------------------
(***************************************************************************)
(* Messages between VMs under the cooperative scheduler: vm_mailbox.c and  *)
(* the SYS_SEND, SYS_RECV and SYS_WHITELIST_* handlers of vm_system.c, on  *)
(* top of VmSched.                                                         *)
(*                                                                         *)
(* A payload is its number among the messages accepted for its receiver,   *)
(* counted modulo NumMod, one more than can wait in the queue.              *)
(* Arguments that fail validation (bad pointer, bad size) only set a0 and  *)
(* are left out.  This instance's VMs make no other blocking calls.        *)
(***************************************************************************)
EXTENDS VmSched, Sequences, TLC

CONSTANTS
    Depth,          \* default_mailbox_depth
    MailCalls       \* the mailbox ECALLs this instance's guests make

ASSUME MailAssumption == Depth \in Nat \ {0}

NumMod == Depth + 1
ETIMEDOUT == -110
EAGAIN == -11
EPERM == -1
ENOENT == -2
EBUSY == -16

VARIABLES
    answer,         \* the a0 registers the last step wrote: VM -> value
    mbox,           \* per VM: the queue of its mailbox
    allow,          \* per VM: the whitelist of its mailbox
    got,            \* per VM: the message in its receive buffer
    accepted,       \* history: messages accepted for it, modulo NumMod
    received,       \* history: messages it has received, modulo NumMod
    timed           \* history: its last SYS_RECV had a finite timeout

boxvars == <<mbox, allow, got, accepted, received, timed>>
mailvars == <<vars, answer, boxvars>>

Message == [from : Vm, n : 0 .. NumMod - 1]
NoMessage == [from |-> 0, n |-> 0]
Up(n) == (n + 1) % NumMod

MailInit ==
    /\ Init
    /\ answer = <<>>
    /\ mbox = [v \in Vm |-> <<>>] /\ allow = [v \in Vm |-> {}]
    /\ got = [v \in Vm |-> NoMessage]
    /\ accepted = [v \in Vm |-> 0] /\ received = [v \in Vm |-> 0]
    /\ timed = [v \in Vm |-> FALSE]

-----------------------------------------------------------------------------
\* vm_system_load_vm and vm_system_unload_vm: vm_mailbox_init starts with an
\* empty queue and an empty whitelist; unloading clears the slot's mailbox.  The
\* bits for this slot in other mailboxes' whitelists stay.

ClearSlot(v) ==
    /\ answer' = <<>>
    /\ mbox' = [mbox EXCEPT ![v] = <<>>] /\ allow' = [allow EXCEPT ![v] = {}]
    /\ got' = [got EXCEPT ![v] = NoMessage]
    /\ accepted' = [accepted EXCEPT ![v] = 0] /\ received' = [received EXCEPT ![v] = 0]
    /\ timed' = [timed EXCEPT ![v] = FALSE]

LoadWithMailbox(v) == vm_sched_register(v) /\ ClearSlot(v)
Unload(v) == vm_sched_unregister(v) /\ ClearSlot(v)
HaltVm(v) == vm_sched_halt(v) /\ answer' = <<>> /\ UNCHANGED boxvars

\* What the wake pass leaves in a0.
WakeStep ==
    /\ StepRun \/ StepIdle
    /\ answer' = [v \in Woken(global_tick') |->
                  IF cpu[v].reason = "mailbox_recv" THEN ETIMEDOUT ELSE 0]
    /\ UNCHANGED boxvars

-----------------------------------------------------------------------------
\* Handlers.  Call: the scheduler's side of a handler that ends with the caller's
\* VmCpu as c, n ticks from its deadline, having woken the VMs in woken.
Call(used, d, c, n, woken) ==
    /\ Running
    /\ AfterDispatch(used, d, c, n,
           [v \in Vm |-> IF v \in woken THEN Unblocked(cpu[v]) ELSE cpu[v]],
           ready \cup woken, blocked \ woken)
    /\ UNCHANGED <<vms, waited>>

Answer(v, x) == v :> x

SendRefused(used, d, t) ==
    /\ \/ t \notin vms /\ answer' = Answer(turn, ENOENT)
       \/ t \in vms /\ turn \notin allow[t] /\ answer' = Answer(turn, EPERM)
    /\ Call(used, d, cpu[turn], 0, {})
    /\ UNCHANGED boxvars

SendDirect_NoCopy(used, d, t) ==
    /\ t \in vms /\ turn \in allow[t]
    /\ cpu[t].reason = "mailbox_recv"
    /\ LET woken == {t} \cap blocked IN
         /\ Call(used, d, cpu[turn], 0, woken)
         /\ answer' = [v \in {turn} \cup woken |-> IF v = turn THEN 0 ELSE turn]
         /\ received' = IF woken = {} THEN received ELSE [received EXCEPT ![t] = Up(@)]
    /\ accepted' = [accepted EXCEPT ![t] = Up(@)]
    /\ UNCHANGED <<mbox, allow, got, timed>>

\* The synchronous path: the receiver sleeps in SYS_RECV, so the payload goes
\* straight into its buffer and vm_sched_wake_mailbox resumes it.
SendDirect(used, d, t) ==
    /\ t \in vms /\ turn \in allow[t]
    /\ cpu[t].reason = "mailbox_recv"
    /\ LET woken == {t} \cap blocked IN
         /\ Call(used, d, cpu[turn], 0, woken)
         /\ answer' = [v \in {turn} \cup woken |-> IF v = turn THEN 0 ELSE turn]
         /\ received' = IF woken = {} THEN received ELSE [received EXCEPT ![t] = Up(@)]
    /\ got' = [got EXCEPT ![t] = [from |-> turn, n |-> Up(accepted[t])]]
    /\ accepted' = [accepted EXCEPT ![t] = Up(@)]
    /\ UNCHANGED <<mbox, allow, timed>>

\* vm_mailbox_send: the queue, or -EAGAIN when it is full.
SendQueued(used, d, t) ==
    /\ t \in vms /\ turn \in allow[t]
    /\ cpu[t].reason # "mailbox_recv"
    /\ IF Len(mbox[t]) < Depth
       THEN /\ mbox' = [mbox EXCEPT ![t] = Append(@, [from |-> turn, n |-> Up(accepted[t])])]
            /\ accepted' = [accepted EXCEPT ![t] = Up(@)]
            /\ answer' = Answer(turn, 0)
       ELSE answer' = Answer(turn, EAGAIN) /\ UNCHANGED <<mbox, accepted>>
    /\ Call(used, d, cpu[turn], 0, {})
    /\ UNCHANGED <<allow, got, received, timed>>

handle_send ==
    \E used \in 0 .. budget - 1 : \E d \in Advance(used) : \E t \in Vm :
        /\ "send" \in MailCalls
        /\ \/ SendRefused(used, d, t)
           \/ SendDirect(used, d, t)
           \/ SendQueued(used, d, t)

\* SYS_RECV: timeout 0 polls, Forever (UINT32_MAX) waits with deadline 0.
Forever == MaxSleep + 1
RecvTimeout == {t \in 0 .. Forever : t = Forever => "recv_forever" \in MailCalls}

RecvTake(used, d) ==
    /\ mbox[turn] # <<>>
    /\ got' = [got EXCEPT ![turn] = Head(mbox[turn])]
    /\ mbox' = [mbox EXCEPT ![turn] = Tail(@)]
    /\ received' = [received EXCEPT ![turn] = Up(@)]
    /\ answer' = Answer(turn, Head(mbox[turn]).from)
    /\ Call(used, d, cpu[turn], 0, {})
    /\ UNCHANGED <<allow, accepted, timed>>

RecvRefuse(used, d, timeout) ==
    /\ mbox[turn] = <<>>
    /\ \/ timeout = 0 /\ answer' = Answer(turn, EAGAIN)
       \/ timeout # 0 /\ cpu[turn].in_critical /\ answer' = Answer(turn, EBUSY)
    /\ Call(used, d, cpu[turn], 0, {})
    /\ UNCHANGED boxvars

RecvPark_NoCheck(used, d, timeout) ==
    /\ timeout # 0 /\ ~cpu[turn].in_critical
    /\ Call(used, d, [cpu[turn] EXCEPT
                         !.reason = "mailbox_recv",
                         !.deadline = IF timeout = Forever THEN 0
                                      ELSE (Later(d) + timeout) % TickMod],
            IF timeout = Forever THEN 0 ELSE timeout, {})
    /\ timed' = [timed EXCEPT ![turn] = timeout # Forever]
    /\ answer' = <<>>
    /\ UNCHANGED <<mbox, allow, got, accepted, received>>

\* The caller goes to sleep; now + timeout wraps, and may come out as 0.
RecvPark(used, d, timeout) ==
    /\ mbox[turn] = <<>>
    /\ timeout # 0 /\ ~cpu[turn].in_critical
    /\ Call(used, d, [cpu[turn] EXCEPT
                         !.reason = "mailbox_recv",
                         !.deadline = IF timeout = Forever THEN 0
                                      ELSE (Later(d) + timeout) % TickMod],
            IF timeout = Forever THEN 0 ELSE timeout, {})
    /\ timed' = [timed EXCEPT ![turn] = timeout # Forever]
    /\ answer' = <<>>
    /\ UNCHANGED <<mbox, allow, got, accepted, received>>

handle_recv ==
    \E used \in 0 .. budget - 1 : \E d \in Advance(used) : \E timeout \in RecvTimeout :
        /\ "recv" \in MailCalls
        /\ RecvTake(used, d) \/ RecvRefuse(used, d, timeout) \/ RecvPark(used, d, timeout)

\* Bound: no guest puts itself on its own whitelist.
handle_whitelist ==
    \E used \in 0 .. budget - 1 : \E d \in Advance(used) : \E s \in Vm \ {turn} :
        /\ \/ "whitelist_add" \in MailCalls /\ allow' = [allow EXCEPT ![turn] = @ \cup {s}]
           \/ "whitelist_remove" \in MailCalls /\ allow' = [allow EXCEPT ![turn] = @ \ {s}]
        /\ answer' = Answer(turn, 0)
        /\ Call(used, d, cpu[turn], 0, {})
        /\ UNCHANGED <<mbox, got, accepted, received, timed>>

-----------------------------------------------------------------------------
MailNext ==
    /\ \/ WakeStep
       \/ (Expire \/ StepHalted \/ EcallPlain) /\ answer' = <<>> /\ UNCHANGED boxvars
       \/ handle_send \/ handle_recv \/ handle_whitelist
       \/ \E v \in Vm : LoadWithMailbox(v) \/ Unload(v) \/ HaltVm(v)
    /\ UNCHANGED config

\* As in VmSched: the driver keeps stepping, budgets run out, time passes.
MailFairness ==
    /\ WF_mailvars(WakeStep /\ UNCHANGED config)
    /\ WF_mailvars(Expire /\ answer' = <<>> /\ UNCHANGED <<config, boxvars>>)
    /\ SF_mailvars(WakeStep /\ global_tick' # global_tick /\ UNCHANGED config)

MailSpec == MailInit /\ [][MailNext]_mailvars /\ MailFairness

-----------------------------------------------------------------------------
\* Every mailbox variable has its type; the queue is within its depth.
MailTypeOK ==
    /\ DOMAIN answer \subseteq Vm
    /\ \A v \in DOMAIN answer : answer[v] \in Vm \cup {0, ETIMEDOUT, EAGAIN, EPERM, ENOENT, EBUSY}
    /\ \A v \in Vm : Len(mbox[v]) <= Depth /\ \A i \in 1 .. Len(mbox[v]) : mbox[v][i] \in Message
    /\ allow \in [Vm -> SUBSET Vm]
    /\ got \in [Vm -> Message]
    /\ accepted \in [Vm -> 0 .. NumMod - 1] /\ received \in [Vm -> 0 .. NumMod - 1]

\* Whichever way each one travels, queued or copied straight into the buffer of
\* a sleeping receiver, and whatever timeouts come between, the k-th message a VM
\* receives is the k-th that was accepted for it: none lost, doubled or overtaken.
ReceivedInOrder ==
    \A v \in vms : ~cpu[v].halted =>
        /\ got[v].n = received[v]
        /\ (accepted[v] - received[v]) % NumMod = Len(mbox[v])

\* No VM sleeps in SYS_RECV while a message waits in its queue.
NoneStranded ==
    \A v \in blocked : cpu[v].reason = "mailbox_recv" => mbox[v] = <<>>

\* A receive that succeeds says who sent the message now in the buffer, and the
\* receiver is not left asleep.
SenderReported ==
    [][\A v \in vms \cap vms' : received'[v] # received[v] =>
          v \in DOMAIN answer' /\ answer'[v] = got'[v].from /\ v \in ready']_mailvars

\* SYS_RECV's contract (handle_recv: "0 = poll, UINT32_MAX = forever"): every other
\* timeout ends the wait.
TimedRecvReturns ==
    \A v \in Vm :
        (v \in blocked /\ cpu[v].reason = "mailbox_recv" /\ timed[v])
            ~> ~(v \in blocked /\ cpu[v].reason = "mailbox_recv" /\ timed[v])

=============================================================================
