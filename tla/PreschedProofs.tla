--------------------------- MODULE PreschedProofs ---------------------------
(***************************************************************************)
(* The pre-emptive scheduler, for any number of tasks that spawn others:   *)
(* it is done only when no thread is left.  A thread is counted before it  *)
(* is created, so the count covers those alive and those about to be       *)
(* (Covered); the last to leave is then the last there is.                 *)
(*                                                                         *)
(* The timing calls of a guest, for every width of the clock, period and   *)
(* jump: sleepers are not woken early and the reload timer keeps its grid, *)
(* as long as the guest keeps up (KeepsUp).  The deadlines are residues;   *)
(* ReloadInv says of which ticks, and that those are less than half a lap  *)
(* from now, which is what makes the comparisons of the code exact.        *)
(***************************************************************************)
EXTENDS Presched, ReloadTimer, FiniteSetTheorems, WellFoundedInduction, NaturalsInduction, TLAPS


Alive == {i \in Slots : thread[i].pc \notin {"none", "gone"}}
Creating == {i \in Slots : thread[i].pc = "create"}

Pc == {"none", "start", "skip", "body", "create", "publish", "deadline", "block", "handoff", "grant",
       "gate", "held", "lastoff", "lastgrant", "leave", "gone"}
ThreadRec == [pc : Pc, nxt : Int, sig : BOOLEAN, hand : BOOLEAN]
SchedRec == [pc : {"wait", "sleepers", "ready", "stop", "grant", "gone"}, cur : Int, nxt : Int]
SharedRec == [current : Int, n : Nat, count : Int, stop : BOOLEAN]

PreTypes == thread \in [Slots -> ThreadRec] /\ sched \in SchedRec /\ shared \in SharedRec

\* The count covers every thread that has not left and every thread about to be created.
Covered == Cardinality(Alive) + Cardinality(Creating) <= shared.count

PreInv == PreTypes /\ Covered /\ (shared.stop => Alive = {})

\* The bodies and the scheduler that neither start nor end a thread.
SameThreads ==
    /\ \A i \in Slots : \/ thread'[i].pc = thread[i].pc
                        \/ {thread[i].pc, thread'[i].pc} \cap {"none", "gone", "create"} = {}
    /\ shared'.count = shared.count /\ shared'.stop = shared.stop

LEMMA SlotsFinite == /\ IsFiniteSet(Alive) /\ IsFiniteSet(Creating)
                     /\ Cardinality(Alive) \in Nat /\ Cardinality(Creating) \in Nat
<1>1. IsFiniteSet(Slots)
  BY PreschedAssumption, FS_Interval DEF Slots
<1> QED
  BY <1>1, FS_Subset, FS_CardinalityType DEF Alive, Creating

LEMMA SamePreInv == ASSUME PreInv, PreTypes', SameThreads PROVE PreInv'
<1>1. Alive' = Alive /\ Creating' = Creating
  BY DEF SameThreads, Alive, Creating
<1> QED
  BY <1>1 DEF PreInv, Covered, SameThreads

\* The fields of the shared words after each kind of store.
LEMMA SharedFacts ==
    ASSUME shared \in SharedRec
    PROVE  /\ shared.n \in Nat /\ shared.count \in Int /\ shared.current \in Int /\ shared.stop \in BOOLEAN
           /\ \A c \in Int : LET s == [shared EXCEPT !.current = c] IN
                 s \in SharedRec /\ s.count = shared.count /\ s.stop = shared.stop
           /\ \A c \in Nat : LET s == [shared EXCEPT !.n = c] IN
                 s \in SharedRec /\ s.count = shared.count /\ s.stop = shared.stop
           /\ \A c \in Int : LET s == [shared EXCEPT !.count = c] IN
                 s \in SharedRec /\ s.count = c /\ s.stop = shared.stop
           /\ \A c \in Int, b \in BOOLEAN : LET s == [shared EXCEPT !.count = c, !.stop = b] IN
                 s \in SharedRec /\ s.count = c /\ s.stop = b
<1>1. shared.n \in Nat /\ shared.count \in Int /\ shared.current \in Int /\ shared.stop \in BOOLEAN
  BY DEF SharedRec
<1>2. ASSUME NEW c \in Int
      PROVE  LET s == [shared EXCEPT !.current = c] IN
                 s \in SharedRec /\ s.count = shared.count /\ s.stop = shared.stop
  BY DEF SharedRec
<1>3. ASSUME NEW c \in Nat
      PROVE  LET s == [shared EXCEPT !.n = c] IN
                 s \in SharedRec /\ s.count = shared.count /\ s.stop = shared.stop
  BY DEF SharedRec
<1>4. ASSUME NEW c \in Int
      PROVE  LET s == [shared EXCEPT !.count = c] IN
                 s \in SharedRec /\ s.count = c /\ s.stop = shared.stop
  BY DEF SharedRec
<1>5. ASSUME NEW c \in Int, NEW b \in BOOLEAN
      PROVE  LET s == [shared EXCEPT !.count = c, !.stop = b] IN
                 s \in SharedRec /\ s.count = c /\ s.stop = b
  BY DEF SharedRec
<1> QED
  BY <1>1, <1>2, <1>3, <1>4, <1>5

LEMMA SharedType ==
    ASSUME PreTypes
    PROVE  /\ shared \in SharedRec /\ sched \in SchedRec
           /\ shared.n \in Nat /\ shared.count \in Int /\ shared.current \in Int
           /\ sched.nxt \in Int /\ sched.cur \in Int
<1>1. shared \in SharedRec /\ sched \in SchedRec
  BY DEF PreTypes
<1>2. sched.nxt \in Int /\ sched.cur \in Int
  BY <1>1 DEF SchedRec
<1> QED
  BY <1>1, <1>2, SharedFacts

LEMMA SchedFacts ==
    ASSUME sched \in SchedRec, NEW p \in {"wait", "sleepers", "ready", "stop", "grant", "gone"},
           NEW c \in Int, NEW n \in Int
    PROVE  /\ [sched EXCEPT !.pc = p] \in SchedRec
           /\ [sched EXCEPT !.pc = p, !.nxt = n] \in SchedRec
           /\ [sched EXCEPT !.pc = p, !.cur = c] \in SchedRec
           /\ [pc |-> p, cur |-> c, nxt |-> n] \in SchedRec
  BY DEF SchedRec

\* A non-empty set of naturals has a least element.
LEMMA NearestOf ==
    ASSUME NEW S \in SUBSET Nat, S # {}
    PROVE  \E m \in S : \A k \in S : m <= k
<1> DEFINE Less == {ss \in Nat \X Nat : ss[1] < ss[2]}
<1>1. IsWellFoundedOn(Less, Nat)
  BY NatLessThanWellFounded DEF OpToRel
<1> HIDE DEF Less
<1>2. PICK m \in S : \A k \in S : ~(<<k, m>> \in Less)
  BY <1>1, WFMin
<1>3. ASSUME NEW k \in S
      PROVE  m <= k
  <2>1. <<k, m>> \in Nat \X Nat /\ ~(<<k, m>> \in Less)
    BY <1>2
  <2> QED
    BY <2>1 DEF Less
<1> QED
  BY <1>3

LEMMA NextReadyType == ASSUME PreTypes, NEW from \in Int PROVE next_ready(from) \in Int
<1> DEFINE near == {k \in 1 .. shared.n : Runnable((from + k) % shared.n)}
<1>1. CASE near = {}
  BY <1>1 DEF next_ready, None
<1>2. CASE near # {}
  <2>1. near \in SUBSET Nat /\ near \subseteq 1 .. shared.n /\ shared.n \in Nat
    BY SharedType
  <2> DEFINE least == CHOOSE k \in near : \A m \in near : k <= m
  <2>2. least \in near
    <3> HIDE DEF near
    <3>1. \E k \in near : \A m \in near : k <= m
      BY <1>2, <2>1, NearestOf
    <3> QED
      BY <3>1
  <2>3. next_ready(from) = (from + least) % shared.n
    BY <1>2 DEF next_ready
  <2> HIDE DEF near, least
  <2> QED
    BY <2>1, <2>2, <2>3
<1> QED
  BY <1>1, <1>2

\* A change of one thread's record that keeps it a record.
LEMMA OneThread ==
    ASSUME PreTypes, NEW i \in Slots, NEW r \in ThreadRec, thread' = [thread EXCEPT ![i] = r]
    PROVE  /\ thread' \in [Slots -> ThreadRec] /\ thread'[i] = r
           /\ \A j \in Slots \ {i} : thread'[j] = thread[j]
  BY DEF PreTypes

LEMMA ThreadNxt == ASSUME PreTypes, NEW i \in Slots PROVE thread[i].nxt \in Int
<1>1. thread[i] \in ThreadRec
  BY DEF PreTypes
<1> QED
  BY <1>1 DEF ThreadRec

LEMMA NewThread == ASSUME NEW p \in Pc PROVE Thread(p) \in ThreadRec /\ Thread(p).pc = p
<1>1. Thread(p) \in ThreadRec
  BY DEF ThreadRec, Thread, None
<1>2. Thread(p).pc = p
  BY DEF Thread
<1> QED
  BY <1>1, <1>2

LEMMA PreInitInv == PreInit => PreInv
<1> SUFFICES ASSUME PreInit PROVE PreInv
  OBVIOUS
<1>1. First \in Int /\ NTasks \in Nat /\ NTasks <= MaxTasks /\ MaxTasks \in Nat
  BY PreschedAssumption DEF First
<1>2. PreTypes
  <2>1. Thread("start") \in ThreadRec /\ Thread("none") \in ThreadRec
    <3>1. "start" \in Pc /\ "none" \in Pc
      BY DEF Pc
    <3> QED
      BY <3>1, NewThread
  <2>2. thread \in [Slots -> ThreadRec]
    BY <2>1 DEF PreInit
  <2>3. sched \in SchedRec
    BY DEF PreInit, None, SchedRec
  <2>4. shared \in SharedRec
    BY <1>1 DEF PreInit, SharedRec
  <2> QED
    BY <2>2, <2>3, <2>4 DEF PreTypes
<1>3. Alive = 0 .. NTasks - 1 /\ Creating = {}
  BY <1>1 DEF PreInit, Alive, Creating, Thread, Slots
<1>4. Cardinality(0 .. NTasks - 1) = NTasks /\ Cardinality({}) = 0
  BY <1>1, FS_Interval, FS_EmptySet
<1> QED
  BY <1>1, <1>2, <1>3, <1>4 DEF PreInit, PreInv, Covered

LEMMA PcStep ==
    ASSUME PreTypes, NEW i \in Slots, NEW p \in Pc,
           thread' = [thread EXCEPT ![i].pc = p]
    PROVE  /\ thread' \in [Slots -> ThreadRec] /\ thread'[i].pc = p
           /\ \A j \in Slots \ {i} : thread'[j].pc = thread[j].pc
<1>1. PICK t \in ThreadRec : t = thread[i]
  BY DEF PreTypes
<1>2. /\ [t EXCEPT !.pc = p] \in ThreadRec
      /\ [t EXCEPT !.pc = p].pc = p
  BY DEF ThreadRec
<1>3. PICK r \in ThreadRec : r = [t EXCEPT !.pc = p]
  BY <1>2
<1>4. thread' = [thread EXCEPT ![i] = r]
  BY <1>1, <1>3 DEF PreTypes
<1> QED
  BY <1>1, <1>2, <1>3, <1>4, OneThread

LEMMA PcNxtStep ==
    ASSUME PreTypes, NEW i \in Slots, NEW p \in Pc, NEW n \in Int,
           thread' = [thread EXCEPT ![i].pc = p, ![i].nxt = n]
    PROVE  /\ thread' \in [Slots -> ThreadRec] /\ thread'[i].pc = p
           /\ \A j \in Slots \ {i} : thread'[j].pc = thread[j].pc
<1>1. PICK t \in ThreadRec : t = thread[i]
  BY DEF PreTypes
<1>2. /\ [t EXCEPT !.pc = p, !.nxt = n] \in ThreadRec
      /\ [t EXCEPT !.pc = p, !.nxt = n].pc = p
  BY DEF ThreadRec
<1>3. PICK r \in ThreadRec : r = [t EXCEPT !.pc = p, !.nxt = n]
  BY <1>2
<1>4. thread' = [thread EXCEPT ![i] = r]
  BY <1>1, <1>3 DEF PreTypes
<1> QED
  BY <1>1, <1>2, <1>3, <1>4, OneThread

LEMMA SigStep ==
    ASSUME PreTypes, NEW i \in Slots, NEW b \in BOOLEAN,
           thread' = [thread EXCEPT ![i].sig = b]
    PROVE  /\ thread' \in [Slots -> ThreadRec] /\ thread'[i].pc = thread[i].pc
           /\ \A j \in Slots \ {i} : thread'[j].pc = thread[j].pc
<1>1. PICK t \in ThreadRec : t = thread[i]
  BY DEF PreTypes
<1>2. /\ [t EXCEPT !.sig = b] \in ThreadRec
      /\ [t EXCEPT !.sig = b].pc = t.pc
  BY DEF ThreadRec
<1>3. PICK r \in ThreadRec : r = [t EXCEPT !.sig = b]
  BY <1>2
<1>4. thread' = [thread EXCEPT ![i] = r]
  BY <1>1, <1>3 DEF PreTypes
<1> QED
  BY <1>1, <1>2, <1>3, <1>4, OneThread

LEMMA HandStep ==
    ASSUME PreTypes, NEW i \in Slots, NEW b \in BOOLEAN,
           thread' = [thread EXCEPT ![i].hand = b]
    PROVE  /\ thread' \in [Slots -> ThreadRec] /\ thread'[i].pc = thread[i].pc
           /\ \A j \in Slots \ {i} : thread'[j].pc = thread[j].pc
<1>1. PICK t \in ThreadRec : t = thread[i]
  BY DEF PreTypes
<1>2. /\ [t EXCEPT !.hand = b] \in ThreadRec
      /\ [t EXCEPT !.hand = b].pc = t.pc
  BY DEF ThreadRec
<1>3. PICK r \in ThreadRec : r = [t EXCEPT !.hand = b]
  BY <1>2
<1>4. thread' = [thread EXCEPT ![i] = r]
  BY <1>1, <1>3 DEF PreTypes
<1> QED
  BY <1>1, <1>2, <1>3, <1>4, OneThread

LEMMA SigHandStep ==
    ASSUME PreTypes, NEW i \in Slots, NEW b \in BOOLEAN, NEW c \in BOOLEAN,
           thread' = [thread EXCEPT ![i].sig = b, ![i].hand = c]
    PROVE  /\ thread' \in [Slots -> ThreadRec] /\ thread'[i].pc = thread[i].pc
           /\ \A j \in Slots \ {i} : thread'[j].pc = thread[j].pc
<1>1. PICK t \in ThreadRec : t = thread[i]
  BY DEF PreTypes
<1>2. /\ [t EXCEPT !.sig = b, !.hand = c] \in ThreadRec
      /\ [t EXCEPT !.sig = b, !.hand = c].pc = t.pc
  BY DEF ThreadRec
<1>3. PICK r \in ThreadRec : r = [t EXCEPT !.sig = b, !.hand = c]
  BY <1>2
<1>4. thread' = [thread EXCEPT ![i] = r]
  BY <1>1, <1>3 DEF PreTypes
<1> QED
  BY <1>1, <1>2, <1>3, <1>4, OneThread

\* What the steps of the shared words do to the invariant's part of them.
LEMMA LetRunType ==
    ASSUME PreTypes, NEW n \in Int, LetRun(n)
    PROVE  shared' \in SharedRec /\ shared'.count = shared.count /\ shared'.stop = shared.stop
<1>1. shared' = [shared EXCEPT !.current = n] /\ shared \in SharedRec
  BY DEF LetRun, SetCurrent, PreTypes
<1> QED
  BY <1>1, SharedFacts

\* A step that moves one thread from place to place and leaves the rest.
LEMMA GoesOn ==
    ASSUME PreTypes, NEW i \in Slots, NEW from \in Pc, NEW to \in Pc, Goes(i, from, to),
           {from, to} \cap {"none", "gone", "create"} = {},
           sched' = sched, shared' \in SharedRec, shared'.count = shared.count, shared'.stop = shared.stop
    PROVE  PreTypes' /\ SameThreads
<1>1. thread' = [thread EXCEPT ![i].pc = to] /\ thread[i].pc = from
  BY DEF Goes
<1>2. /\ thread' \in [Slots -> ThreadRec] /\ thread'[i].pc = to
      /\ \A j \in Slots \ {i} : thread'[j].pc = thread[j].pc
  BY <1>1, PcStep
<1>3. sched' \in SchedRec
  BY DEF PreTypes
<1>4. {thread[i].pc, thread'[i].pc} \cap {"none", "gone", "create"} = {}
  BY <1>1, <1>2
<1> QED
  BY <1>2, <1>3, <1>4 DEF PreTypes, SameThreads

LEMMA HandlerPre == ASSUME PreInv, NEW i \in Slots, Handler(i) PROVE PreTypes' /\ SameThreads
<1>1. UNCHANGED <<sched, shared>> /\ PreTypes
  BY DEF Handler, Signalled, HandlerPasses, PreInv
<1>2. (task[i].state # "done") \in BOOLEAN
  OBVIOUS
<1>3. /\ thread' \in [Slots -> ThreadRec]
      /\ \A j \in Slots : thread'[j].pc = thread[j].pc
  <2>1. CASE Signalled(i)
    <3>1. PICK c \in BOOLEAN : c = (task[i].state # "done")
      BY <1>2
    <3>2. thread' = [thread EXCEPT ![i].sig = FALSE, ![i].hand = c]
      BY <2>1, <3>1 DEF Signalled
    <3> QED
      BY <1>1, <3>2, SigHandStep
  <2>2. CASE HandlerPasses(i)
    <3>1. thread' = [thread EXCEPT ![i].hand = FALSE]
      BY <2>2 DEF HandlerPasses
    <3> QED
      BY <1>1, <3>1, HandStep
  <2> QED
    BY <2>1, <2>2 DEF Handler
<1> QED
  BY <1>1, <1>3 DEF PreTypes, SameThreads

\* The steps of a body and of its way out that neither start nor end a thread.
LEMMA OwnPre ==
    ASSUME PreInv, NEW i \in Slots, OwnStep(i),
           ~presched_add_task_prio(i), ~CreateThread(i), ~Leave(i)
    PROVE  PreTypes' /\ SameThreads
<1>1. PreTypes /\ shared \in SharedRec /\ sched \in SchedRec
  BY DEF PreInv, PreTypes
<1> DEFINE Went(from, to) == Goes(i, from, to) /\ UNCHANGED <<sched, shared>>
<1>2. ASSUME NEW from \in Pc, NEW to \in Pc, Went(from, to), {from, to} \cap {"none", "gone", "create"} = {}
      PROVE  PreTypes' /\ SameThreads
  <2>1. shared' = shared /\ sched' = sched /\ Goes(i, from, to)
    BY <1>2
  <2>2. shared' \in SharedRec /\ shared'.count = shared.count /\ shared'.stop = shared.stop
    BY <1>1, <2>1
  <2> QED
    BY <1>1, <1>2, <2>1, <2>2, GoesOn
<1> DEFINE Midway == {"start", "skip", "body", "publish", "deadline", "block", "handoff", "grant",
                      "gate", "held", "lastoff", "lastgrant", "leave"}
<1>3. ASSUME NEW from \in Midway, NEW to \in Midway, Went(from, to)
      PROVE  PreTypes' /\ SameThreads
  <2>1. from \in Pc /\ to \in Pc /\ {from, to} \cap {"none", "gone", "create"} = {}
    BY <1>3 DEF Pc
  <2> QED
    BY <1>2, <1>3, <2>1
<1>4. CASE \/ PassGate(i) \/ presched_block(i) \/ presched_block_timeout(i) \/ presched_sleep(i)
           \/ StoreDeadline(i) \/ StoreBlocked(i) \/ BodyReturns(i) \/ HeldCpu(i)
           \/ \E j \in Slots : presched_wake(i, j)
  <2>1. \E from, to \in Midway : Went(from, to)
    <3> HIDE DEF Midway
    <3>1. /\ {"start", "skip", "body", "deadline", "block", "handoff", "gate", "held", "lastoff", "leave"}
                 \subseteq Midway
      BY DEF Midway
    <3>2. CASE PassGate(i)
      BY <3>1, <3>2 DEF PassGate
    <3>3. CASE presched_block(i) \/ presched_block_timeout(i) \/ presched_sleep(i)
      BY <3>1, <3>3 DEF presched_block, presched_block_timeout, presched_sleep
    <3>4. CASE StoreDeadline(i) \/ StoreBlocked(i)
      BY <3>1, <3>4 DEF StoreDeadline, StoreBlocked
    <3>5. CASE BodyReturns(i) \/ HeldCpu(i)
      BY <3>1, <3>5 DEF BodyReturns, HeldCpu
    <3>6. CASE \E j \in Slots : presched_wake(i, j)
      BY <3>1, <3>6 DEF presched_wake
    <3> QED
      BY <1>4, <3>2, <3>3, <3>4, <3>5, <3>6
  <2> QED
    BY <1>3, <2>1
<1>5. CASE HandOffPick(i)
  <2>1. PICK n : n = next_ready(i)
    OBVIOUS
  <2>2. PICK p \in Paths :
            /\ thread[i].pc = p.at
            /\ \/ thread' = [thread EXCEPT ![i].pc = p.grant, ![i].nxt = n] /\ UNCHANGED shared
               \/ thread' = [thread EXCEPT ![i].pc = p.after] /\ SetCurrent(None)
    BY <1>5, <2>1 DEF HandOffPick
  <2>3. n \in Int
    BY <1>1, <2>1, NextReadyType, PreschedAssumption DEF Slots
  <2>4. /\ {p.at, p.grant, p.after} \cap {"none", "gone", "create"} = {}
        /\ p.at \in Pc /\ p.grant \in Pc /\ p.after \in Pc
    BY DEF Paths, Pc
  <2>5. /\ thread' \in [Slots -> ThreadRec]
        /\ \A j \in Slots \ {i} : thread'[j].pc = thread[j].pc
        /\ thread'[i].pc \in {p.grant, p.after}
    BY <1>1, <2>2, <2>3, <2>4, PcStep, PcNxtStep
  <2>6. /\ shared' \in SharedRec
        /\ shared'.count = shared.count /\ shared'.stop = shared.stop
    <3>1. PICK c \in Int : c = -1
      OBVIOUS
    <3>2. CASE shared' = [shared EXCEPT !.current = c]
      BY <1>1, <3>2, SharedFacts
    <3>3. CASE shared' = shared
      BY <1>1, <3>3
    <3> QED
      BY <2>2, <3>1, <3>2, <3>3 DEF SetCurrent, None
  <2>7. sched' = sched
    BY <1>5 DEF HandOffPick
  <2>8. {thread[i].pc, thread'[i].pc} \cap {"none", "gone", "create"} = {}
    BY <2>2, <2>4, <2>5
  <2> QED
    BY <1>1, <2>5, <2>6, <2>7, <2>8 DEF PreTypes, SameThreads
<1>6. CASE HandOffGrant(i)
  <2>1. PICK p \in Paths : /\ thread[i].pc = p.grant
                           /\ thread' = [thread EXCEPT ![i].pc = p.after, ![i].nxt = -1]
    BY <1>6 DEF HandOffGrant, None
  <2>2. {p.grant, p.after} \cap {"none", "gone", "create"} = {} /\ p.after \in Pc
    BY DEF Paths, Pc
  <2>3. /\ thread' \in [Slots -> ThreadRec]
        /\ \A j \in Slots \ {i} : thread'[j].pc = thread[j].pc
        /\ thread'[i].pc = p.after
    <3>1. -1 \in Int
      OBVIOUS
    <3> QED
      BY <1>1, <2>1, <2>2, <3>1, PcNxtStep
  <2>4. thread[i].nxt \in Int
    BY <1>1, ThreadNxt
  <2>5. LetRun(thread[i].nxt) /\ sched' = sched
    BY <1>6 DEF HandOffGrant
  <2>6. /\ shared' \in SharedRec
        /\ shared'.count = shared.count /\ shared'.stop = shared.stop
    BY <1>1, <2>4, <2>5, LetRunType
  <2>7. {thread[i].pc, thread'[i].pc} \cap {"none", "gone", "create"} = {}
    BY <2>1, <2>2, <2>3
  <2> QED
    BY <1>1, <2>3, <2>5, <2>6, <2>7 DEF PreTypes, SameThreads
<1>7. CASE Publish(i)
  <2>1. Goes(i, "publish", "body") /\ sched' = sched /\ shared' = [shared EXCEPT !.n = shared.n + 1]
    BY <1>7 DEF Publish
  <2>2. shared.n + 1 \in Nat
    BY <1>1, SharedType
  <2>3. PICK c \in Nat : c = shared.n + 1
    BY <2>2
  <2>4. /\ shared' \in SharedRec
        /\ shared'.count = shared.count /\ shared'.stop = shared.stop
    BY <1>1, <2>1, <2>3, SharedFacts
  <2>5. /\ "publish" \in Pc /\ "body" \in Pc
        /\ {"publish", "body"} \cap {"none", "gone", "create"} = {}
    BY DEF Pc
  <2> QED
    BY <1>1, <2>1, <2>4, <2>5, GoesOn
<1> QED
  BY <1>4, <1>5, <1>6, <1>7 DEF OwnStep

\* presched_add_task_prio counts a thread before it is created.
LEMMA AddPre == ASSUME PreInv, NEW i \in Slots, presched_add_task_prio(i) PROVE PreInv'
<1>1. PreTypes /\ Covered /\ (shared.stop => Alive = {})
  BY DEF PreInv
<1>2. /\ thread[i].pc = "body" /\ thread' = [thread EXCEPT ![i].pc = "create"] /\ sched' = sched
      /\ shared' = [shared EXCEPT !.count = shared.count + 1]
  BY DEF presched_add_task_prio, Goes
<1>3. /\ thread' \in [Slots -> ThreadRec]
      /\ thread'[i].pc = "create" /\ \A j \in Slots \ {i} : thread'[j].pc = thread[j].pc
  <2>1. "create" \in Pc
    BY DEF Pc
  <2> QED
    BY <1>1, <1>2, <2>1, PcStep
<1>4. shared' \in SharedRec /\ shared'.count = shared.count + 1 /\ shared'.stop = shared.stop
  <2>1. PICK c \in Int : c = shared.count + 1
    BY <1>1, SharedType
  <2> QED
    BY <1>1, <1>2, <2>1, SharedType, SharedFacts
<1>5. Alive' = Alive /\ Creating' = Creating \cup {i} /\ i \notin Creating /\ i \in Alive
  BY <1>2, <1>3 DEF Alive, Creating
<1>6. Cardinality(Creating \cup {i}) = Cardinality(Creating) + 1
  BY <1>5, SlotsFinite, FS_AddElement
<1>7. Covered'
  <2>1. shared.count \in Int
    BY <1>1, SharedType
  <2> QED
    BY <1>1, <1>4, <1>5, <1>6, <2>1, SlotsFinite DEF Covered
<1>8. PreTypes'
  BY <1>1, <1>2, <1>3, <1>4 DEF PreTypes
<1>9. shared'.stop => Alive' = {}
  BY <1>1, <1>4, <1>5
<1> QED
  BY <1>7, <1>8, <1>9 DEF PreInv

\* Created or not, the thread counted in advance is accounted for.
LEMMA CreatePre == ASSUME PreInv, NEW i \in Slots, CreateThread(i) PROVE PreInv'
<1>1. PreTypes /\ Covered /\ (shared.stop => Alive = {}) /\ shared.count \in Int
  BY SharedType DEF PreInv
<1>2. thread[i].pc = "create" /\ sched' = sched
  BY DEF CreateThread
<1>3. i \in Creating /\ i \in Alive /\ ~shared.stop
  BY <1>1, <1>2 DEF Creating, Alive
<1>4. Cardinality(Creating \ {i}) = Cardinality(Creating) - 1 /\ IsFiniteSet(Creating \ {i})
  BY <1>3, SlotsFinite, FS_RemoveElement
<1>5. CASE /\ thread' = [thread EXCEPT ![i].pc = "publish", ![shared.n] = Thread("start")]
           /\ UNCHANGED shared
  <2>1. PICK n \in Nat : n = shared.n
    BY <1>1, SharedType
  <2>2. /\ "publish" \in Pc /\ "start" \in Pc
    BY DEF Pc
  <2>3. PICK new \in ThreadRec : new = Thread("start") /\ new.pc = "start"
    BY <2>2, NewThread
  <2>4. PICK old \in ThreadRec : old = thread[i]
    BY <1>1 DEF PreTypes
  <2>5. [old EXCEPT !.pc = "publish"] \in ThreadRec /\ [old EXCEPT !.pc = "publish"].pc = "publish"
    BY <2>2 DEF ThreadRec
  <2>6. PICK r \in ThreadRec : r = [old EXCEPT !.pc = "publish"] /\ r.pc = "publish"
    BY <2>5
  <2>7. thread' = [thread EXCEPT ![i] = r, ![n] = new]
    BY <1>1, <1>5, <2>1, <2>3, <2>4, <2>6 DEF PreTypes
  <2>8. /\ thread' \in [Slots -> ThreadRec]
        /\ \A j \in Slots \ {i, n} : thread'[j] = thread[j]
        /\ i # n => thread'[i].pc = "publish"
        /\ n \in Slots => thread'[n].pc = "start"
    BY <1>1, <2>3, <2>6, <2>7 DEF PreTypes
  <2>9. Alive' \subseteq Alive \cup {n} /\ Creating' \subseteq Creating \ {i}
    BY <1>3, <2>8 DEF Alive, Creating
  <2>10. Cardinality(Alive \cup {n}) <= Cardinality(Alive) + 1 /\ IsFiniteSet(Alive \cup {n})
    <3>1. CASE n \in Alive
      <4>1. Alive \cup {n} = Alive
        BY <3>1
      <4>2. Cardinality(Alive) <= Cardinality(Alive) + 1 /\ IsFiniteSet(Alive)
        BY SlotsFinite
      <4> QED
        BY <4>1, <4>2
    <3>2. CASE n \notin Alive
      <4>1. Cardinality(Alive \cup {n}) = Cardinality(Alive) + 1 /\ IsFiniteSet(Alive \cup {n})
        BY <3>2, SlotsFinite, FS_AddElement
      <4> QED
        BY <4>1, SlotsFinite
    <3> QED
      BY <3>1, <3>2
  <2>11. Cardinality(Alive') <= Cardinality(Alive \cup {n}) /\ IsFiniteSet(Alive')
    BY <2>9, <2>10, FS_Subset
  <2>12. Cardinality(Creating') <= Cardinality(Creating \ {i}) /\ IsFiniteSet(Creating')
    BY <1>4, <2>9, FS_Subset
  <2>13. /\ Cardinality(Alive') \in Nat /\ Cardinality(Creating') \in Nat
         /\ Cardinality(Alive \cup {n}) \in Nat
    BY <2>10, <2>11, <2>12, FS_CardinalityType
  <2>14. Cardinality(Alive') + Cardinality(Creating') <= shared.count
    <3>1. Cardinality(Alive) + Cardinality(Creating) <= shared.count
      BY <1>1 DEF Covered
    <3> QED
      BY <3>1, <1>1, <1>4, <2>10, <2>11, <2>12, <2>13, SlotsFinite
  <2>15. PreTypes' /\ Covered' /\ ~shared'.stop
    BY <1>1, <1>2, <1>3, <1>5, <2>8, <2>14 DEF PreTypes, Covered
  <2> QED
    BY <2>15 DEF PreInv
<1>6. CASE /\ thread' = [thread EXCEPT ![i].pc = "body"]
           /\ shared' = [shared EXCEPT !.count = shared.count - 1]
  <2>1. /\ thread' \in [Slots -> ThreadRec]
        /\ thread'[i].pc = "body" /\ \A j \in Slots \ {i} : thread'[j].pc = thread[j].pc
    <3>1. "body" \in Pc
      BY DEF Pc
    <3> QED
      BY <1>1, <1>6, <3>1, PcStep
  <2>2. shared' \in SharedRec /\ shared'.count = shared.count - 1 /\ shared'.stop = shared.stop
    <3>1. PICK c \in Int : c = shared.count - 1
      BY <1>1
    <3> QED
      BY <1>1, <1>6, <3>1, SharedType, SharedFacts
  <2>3. Alive' = Alive /\ Creating' = Creating \ {i}
    BY <1>2, <1>3, <2>1 DEF Alive, Creating
  <2>4. Covered'
    BY <1>1, <1>4, <2>2, <2>3, SlotsFinite DEF Covered
  <2>5. PreTypes' /\ ~shared'.stop
    BY <1>1, <1>2, <1>3, <2>1, <2>2 DEF PreTypes
  <2> QED
    BY <2>4, <2>5 DEF PreInv
<1> QED
  BY <1>5, <1>6 DEF CreateThread

\* The last thread to leave is the last one there is.
LEMMA LeavePre == ASSUME PreInv, NEW i \in Slots, Leave(i) PROVE PreInv'
<1>1. PreTypes /\ Covered /\ (shared.stop => Alive = {}) /\ shared.count \in Int
  BY SharedType DEF PreInv
<1>2. /\ thread[i].pc = "leave" /\ sched' = sched /\ thread' = [thread EXCEPT ![i] = Thread("gone")]
      /\ shared' = [shared EXCEPT !.count = shared.count - 1, !.stop = shared.stop \/ shared.count = 1]
  BY DEF Leave
<1>3. i \in Alive /\ i \notin Creating /\ ~shared.stop
  BY <1>1, <1>2 DEF Alive, Creating
<1>4. PICK gone \in ThreadRec : gone = Thread("gone") /\ gone.pc = "gone"
  <2>1. "gone" \in Pc
    BY DEF Pc
  <2> QED
    BY <2>1, NewThread
<1>5. /\ thread' \in [Slots -> ThreadRec]
      /\ thread'[i].pc = "gone" /\ \A j \in Slots \ {i} : thread'[j] = thread[j]
  BY <1>1, <1>2, <1>4, OneThread
<1>6. PICK b \in BOOLEAN : b = (shared.stop \/ shared.count = 1)
  OBVIOUS
<1>7. shared' \in SharedRec /\ shared'.count = shared.count - 1 /\ shared'.stop = b
  <2>1. PICK c \in Int : c = shared.count - 1
    BY <1>1
  <2>2. shared' = [shared EXCEPT !.count = c, !.stop = b]
    BY <1>2, <1>6, <2>1
  <2>3. PICK s \in SharedRec : s = shared
    BY <1>1, SharedType
  <2>4. shared' = [s EXCEPT !.count = c, !.stop = b]
    BY <2>2, <2>3
  <2>5. shared' \in SharedRec
    BY <2>4 DEF SharedRec
  <2>6. shared'.count = c
    BY <2>4 DEF SharedRec
  <2>7. shared'.stop = b
    BY <2>4 DEF SharedRec
  <2> QED
    BY <2>1, <2>5, <2>6, <2>7
<1>8. Alive' = Alive \ {i} /\ Creating' = Creating
  BY <1>2, <1>3, <1>5 DEF Alive, Creating
<1>9. Cardinality(Alive \ {i}) = Cardinality(Alive) - 1 /\ IsFiniteSet(Alive \ {i})
  BY <1>3, SlotsFinite, FS_RemoveElement
<1>10. Covered'
  BY <1>1, <1>7, <1>8, <1>9, SlotsFinite DEF Covered
<1>11. shared'.stop => Alive' = {}
  <2>1. SUFFICES ASSUME shared.count = 1 PROVE Alive \ {i} = {}
    BY <1>3, <1>6, <1>7, <1>8
  <2>2. Cardinality(Alive) + Cardinality(Creating) <= 1
    BY <1>1, <2>1 DEF Covered
  <2>3. Cardinality(Alive \ {i}) \in Nat
    BY <1>9, FS_CardinalityType
  <2>4. Cardinality(Alive \ {i}) = 0
    BY <1>9, <2>2, <2>3, SlotsFinite
  <2> QED
    BY <1>9, <2>4, FS_EmptySet
<1>12. PreTypes'
  BY <1>1, <1>2, <1>5, <1>7 DEF PreTypes
<1> QED
  BY <1>10, <1>11, <1>12 DEF PreInv

LEMMA SchedPre == ASSUME PreInv, sched_main \/ presched_run PROVE PreTypes' /\ SameThreads
<1>1. PreTypes /\ shared \in SharedRec /\ sched \in SchedRec
  BY DEF PreInv, PreTypes
<1> DEFINE SchedPc == {"wait", "sleepers", "ready", "stop", "grant", "gone"}
<1>2. ASSUME thread' = thread, shared' = shared, sched' \in SchedRec
      PROVE  PreTypes' /\ SameThreads
  BY <1>1, <1>2 DEF PreTypes, SameThreads
<1>3. shared.n \in Nat /\ shared.current \in Int /\ sched.cur \in Int /\ sched.nxt \in Int
  BY <1>1, SharedType
<1>4. CASE Tick
  <2>1. PICK p \in SchedPc : sched' = [sched EXCEPT !.pc = p]
    BY <1>4 DEF Tick, SchedGoes
  <2>2. sched' \in SchedRec
    BY <1>1, <1>3, <2>1, SchedFacts
  <2>3. UNCHANGED <<thread, shared>>
    BY <1>4 DEF Tick
  <2> QED
    BY <1>2, <2>2, <2>3
<1>5. CASE presched_run
  BY <1>1, <1>2, <1>5 DEF presched_run
<1>6. CASE SleeperDue
  <2>1. PICK n \in Due : sched' = [sched EXCEPT !.pc = "ready", !.nxt = n]
    BY <1>6 DEF SleeperDue
  <2>2. n \in Int
    BY <1>3 DEF Due
  <2>3. sched' \in SchedRec
    BY <1>1, <1>3, <2>1, <2>2, SchedFacts
  <2>4. UNCHANGED <<thread, shared>>
    BY <1>6 DEF SleeperDue
  <2> QED
    BY <1>2, <2>3, <2>4
<1>7. CASE WakeSleeper
  <2>1. sched' = [sched EXCEPT !.pc = "sleepers", !.nxt = -1] /\ UNCHANGED <<thread, shared>>
    BY <1>7 DEF WakeSleeper, None
  <2>2. -1 \in Int
    OBVIOUS
  <2>3. sched' \in SchedRec
    BY <1>1, <1>3, <2>1, <2>2, SchedFacts
  <2> QED
    BY <1>2, <2>1, <2>3
<1>8. CASE PickNext
  <2>1. PICK from \in Int : from = IF shared.current = None THEN 0 ELSE shared.current
    BY <1>3
  <2>2. PICK n \in Int : n = next_ready(from)
    BY <1>1, NextReadyType
  <2>3. PICK to \in {"stop", "grant"} : sched' = IF n \in {None, shared.current} THEN [sched EXCEPT !.pc = "wait"]
                   ELSE [pc |-> to, cur |-> shared.current, nxt |-> n]
    BY <1>8, <2>1, <2>2 DEF PickNext
  <2>4. /\ [sched EXCEPT !.pc = "wait"] \in SchedRec
        /\ [pc |-> to, cur |-> shared.current, nxt |-> n] \in SchedRec
    BY <1>1, <1>3, SchedFacts
  <2>5. sched' \in SchedRec
    BY <2>3, <2>4
  <2>6. UNCHANGED <<thread, shared>>
    BY <1>8 DEF PickNext
  <2> QED
    BY <1>2, <2>5, <2>6
<1>9. CASE StopCurrent
  <2>1. -1 \in Int
    OBVIOUS
  <2>2. sched' \in SchedRec
    <3>1. sched' = [sched EXCEPT !.pc = "grant", !.cur = -1]
      BY <1>9 DEF StopCurrent, None
    <3> QED
      BY <1>1, <1>3, <2>1, <3>1, SchedFacts
  <2>3. shared' \in SharedRec /\ shared'.count = shared.count /\ shared'.stop = shared.stop
    <3>1. shared' = [shared EXCEPT !.current = -1]
      BY <1>9 DEF StopCurrent, SetCurrent, None
    <3> QED
      BY <1>1, <2>1, <3>1, SharedFacts
  <2>4. PICK c \in Int : c = sched.cur
    BY <1>3
  <2>5. PICK b \in BOOLEAN : b = (thread[c].sig \/ thread[c].pc # "gone")
    OBVIOUS
  <2>6. thread' = [thread EXCEPT ![c].sig = b]
    BY <1>9, <2>4, <2>5 DEF StopCurrent
  <2>7. /\ thread' \in [Slots -> ThreadRec] /\ \A j \in Slots : thread'[j].pc = thread[j].pc
    <3>1. CASE c \in Slots
      BY <1>1, <2>6, <3>1, SigStep
    <3>2. CASE c \notin Slots
      <4>1. thread' = thread
        BY <1>1, <2>6, <3>2 DEF PreTypes
      <4> QED
        BY <1>1, <4>1 DEF PreTypes
    <3> QED
      BY <3>1, <3>2
  <2> QED
    BY <2>2, <2>3, <2>7 DEF PreTypes, SameThreads
<1>10. CASE Grant
  <2>1. sched' = [pc |-> "wait", cur |-> -1, nxt |-> -1] /\ UNCHANGED thread
    BY <1>10 DEF Grant, None
  <2>2. sched' \in SchedRec
    BY <2>1 DEF SchedRec
  <2>3. LetRun(sched.nxt)
    BY <1>10 DEF Grant
  <2>4. shared' \in SharedRec /\ shared'.count = shared.count /\ shared'.stop = shared.stop
    BY <1>1, <1>3, <2>3, LetRunType
  <2> QED
    BY <1>1, <2>1, <2>2, <2>4 DEF PreTypes, SameThreads
<1> QED
  BY <1>4, <1>5, <1>6, <1>7, <1>8, <1>9, <1>10 DEF sched_main

LEMMA PreNextInv == ASSUME PreInv, [PreNext]_prevars PROVE PreInv'
<1>1. CASE \E i \in Slots : Handler(i)
  BY <1>1, HandlerPre, SamePreInv
<1>2. ASSUME NEW i \in Slots, OwnStep(i) PROVE PreInv'
  BY <1>2, OwnPre, AddPre, CreatePre, LeavePre, SamePreInv
<1>3. CASE sched_main \/ presched_run
  BY <1>3, SchedPre, SamePreInv
<1>4. CASE UNCHANGED prevars
  BY <1>4 DEF prevars, PreInv, PreTypes, Covered, Alive, Creating
<1> QED
  BY <1>1, <1>2, <1>3, <1>4 DEF PreNext

LEMMA PreInvComplete == PreInv => CompletionExact
  BY DEF PreInv, CompletionExact, Alive

\* A body counts as long as it has not left, so the last one that leaves is the last.
THEOREM CompletionIsExact == PreInit /\ [][PreNext]_prevars => []CompletionExact
  BY PreInitInv, PreNextInv, PreInvComplete, PTL

-----------------------------------------------------------------------------
(***************************************************************************)
(* The timing calls (ReloadTimer).                                         *)
(***************************************************************************)

\* Counting modulo the range of a counter.
LEMMA ModUnique ==
    ASSUME NEW M \in Nat \ {0}, NEW a \in Int, NEW q \in Int, NEW r \in 0 .. M - 1, a = (M * q) + r
    PROVE  a % M = r
  BY SMTT(30)

LEMMA ModParts ==
    ASSUME NEW M \in Nat \ {0}, NEW a \in Int
    PROVE  \E q \in Int : (a % M) \in 0 .. M - 1 /\ a = (M * q) + (a % M)
<1>1. /\ (a % M) \in 0 .. M - 1 /\ a \div M \in Int
      /\ a = (M * (a \div M)) + (a % M)
  BY SMTT(30)
<1> QED
  BY <1>1

\* Two numbers a whole number of laps apart look the same.
LEMMA ModTurns ==
    ASSUME NEW M \in Nat \ {0}, NEW a \in Int, NEW k \in Int
    PROVE  (a + (M * k)) % M = a % M
<1>1. PICK q \in Int : (a % M) \in 0 .. M - 1 /\ a = (M * q) + (a % M)
  BY ModParts
<1>2. a + (M * k) = (M * (q + k)) + (a % M)
  BY <1>1
<1>3. q + k \in Int /\ a + (M * k) \in Int
  BY <1>1
<1> QED
  BY <1>1, <1>2, <1>3, ModUnique

\* Half the range of the clock.
Half == 2^(TickBits - 1)

LEMMA HalfType == Half \in Nat \ {0} /\ 2^TickBits = 2 * Half /\ 2^TickBits \in Nat \ {0}
  BY ReloadAssumption DEF Half

LEMMA WrappedType ==
    ASSUME NEW a \in Int
    PROVE  Wrapped(a) \in 0 .. 2^TickBits - 1 /\ Wrapped(a) \in Int /\ Wrapped(Wrapped(a)) = Wrapped(a)
<1>1. Wrapped(a) \in 0 .. 2^TickBits - 1
  BY HalfType, ModParts DEF Wrapped
<1>2. ASSUME NEW M \in Nat \ {0}, NEW r \in 0 .. M - 1
      PROVE  r \in Int /\ r % M = r
  <2>1. r \in Int /\ 0 \in Int /\ r = (M * 0) + r
    OBVIOUS
  <2> QED
    BY <2>1, ModUnique
<1>3. Wrapped(a) \in Int /\ Wrapped(a) % 2^TickBits = Wrapped(a)
  BY <1>1, <1>2, HalfType
<1> QED
  BY <1>1, <1>3 DEF Wrapped

\* Sums and differences may be wrapped before or after.
LEMMA WrapShift ==
    ASSUME NEW a \in Int, NEW b \in Int
    PROVE  /\ Wrapped(Wrapped(a) + b) = Wrapped(a + b)
           /\ Wrapped(b - Wrapped(a)) = Wrapped(b - a)
           /\ Wrapped(Wrapped(a) - b) = Wrapped(a - b)
<1>1. PICK q \in Int : a = (2^TickBits * q) + Wrapped(a)
  BY HalfType, ModParts DEF Wrapped
<1>2. ASSUME NEW M \in Nat \ {0}, NEW r \in Int, a = (M * q) + r
      PROVE  /\ (r + b) % M = (a + b) % M
             /\ (b - r) % M = (b - a) % M
             /\ (r - b) % M = (a - b) % M
  <2>1. /\ r + b \in Int /\ a + b = (r + b) + (M * q)
        /\ b - r \in Int /\ b - a = (b - r) + (M * (-q))
        /\ r - b \in Int /\ a - b = (r - b) + (M * q) /\ -q \in Int
    BY <1>2
  <2>2. ((r + b) + (M * q)) % M = (r + b) % M
    BY <2>1, ModTurns
  <2>3. ((b - r) + (M * (-q))) % M = (b - r) % M
    BY <2>1, ModTurns
  <2>4. ((r - b) + (M * q)) % M = (r - b) % M
    BY <2>1, ModTurns
  <2> QED
    BY <2>1, <2>2, <2>3, <2>4
<1> QED
  BY <1>1, <1>2, WrappedType, HalfType DEF Wrapped

\* The residue of a number less than a lap away from 0.
LEMMA WrapNear ==
    ASSUME NEW a \in Int
    PROVE  /\ a >= 0 /\ a < 2 * Half => Wrapped(a) = a
           /\ a < 0 /\ a >= -(2 * Half) => Wrapped(a) = 2 * Half + a
<1>1. CASE a >= 0 /\ a < 2 * Half
  <2>1. a \in 0 .. 2^TickBits - 1 /\ a = (2^TickBits * 0) + a
    BY <1>1, HalfType
  <2>2. a % 2^TickBits = a
    BY <2>1, HalfType, ModUnique
  <2> QED
    BY <1>1, <2>2, HalfType DEF Wrapped
<1>2. CASE a < 0 /\ a >= -(2 * Half)
  <2>1. 2^TickBits + a \in 0 .. 2^TickBits - 1 /\ a = (2^TickBits * (-1)) + (2^TickBits + a) /\ -1 \in Int
    BY <1>2, HalfType
  <2>2. a % 2^TickBits = 2^TickBits + a
    BY <2>1, HalfType, ModUnique
  <2> QED
    BY <1>2, <2>2, HalfType DEF Wrapped
<1> QED
  BY <1>1, <1>2, HalfType

\* Within half a lap the comparison of the code is the comparison of the ticks.
LEMMA NotBeforeExact ==
    ASSUME NEW a \in Int, NEW b \in Int, a - b < Half, b - a <= Half
    PROVE  NotBefore(Wrapped(a), Wrapped(b)) <=> a >= b
<1>1. NotBefore(Wrapped(a), Wrapped(b)) <=> Wrapped(a - b) < Half
  <2>1. Wrapped(Wrapped(a) - Wrapped(b)) = Wrapped(a - b)
    BY WrappedType, WrapShift
  <2> QED
    BY <2>1 DEF NotBefore, Wrapped, Half
<1>2. a - b \in Int /\ a - b >= -Half
  BY HalfType
<1>3. CASE a >= b
  BY <1>1, <1>2, <1>3, WrapNear, HalfType
<1>4. CASE a < b
  <2>1. Wrapped(a - b) = 2 * Half + (a - b)
    BY <1>2, <1>4, WrapNear, HalfType
  <2> QED
    BY <1>1, <1>2, <1>4, <2>1, HalfType
<1> QED
  BY <1>3, <1>4

\* A tick at most half a lap ahead is recovered from its residue.
LEMMA UnwrappedExact ==
    ASSUME trueNow \in Int, NEW x \in Int, x > trueNow, x - trueNow <= Half
    PROVE  Unwrapped(Wrapped(x)) = x
<1>1. ~NotBefore(Wrapped(trueNow), Wrapped(x))
  BY NotBeforeExact, HalfType
<1>2. Wrapped(Wrapped(x) - Wrapped(trueNow)) = x - trueNow
  <2>1. Wrapped(Wrapped(x) - Wrapped(trueNow)) = Wrapped(x - trueNow)
    BY WrappedType, WrapShift
  <2>2. x - trueNow \in Int /\ x - trueNow >= 0 /\ x - trueNow < 2 * Half
    BY HalfType
  <2> QED
    BY <2>1, <2>2, WrapNear
<1>3. Unwrapped(Wrapped(x)) = trueNow + (x - trueNow)
  BY <1>1, <1>2 DEF Unwrapped, Wrapped
<1> QED
  BY <1>3

\* What any tick stands for lies within half a lap and has its residue.
LEMMA UnwrappedFacts ==
    ASSUME trueNow \in Int, NEW t \in Int
    PROVE  /\ Unwrapped(t) \in Int
           /\ Unwrapped(t) - trueNow <= Half
           /\ Wrapped(Unwrapped(t)) = Wrapped(t)
<1> DEFINE ago == Wrapped(Wrapped(trueNow) - t)
           ahead == Wrapped(t - Wrapped(trueNow))
<1>1. /\ ago = Wrapped(trueNow - t) /\ ago \in 0 .. 2 * Half - 1
      /\ ahead = Wrapped(t - trueNow) /\ ahead \in 0 .. 2 * Half - 1
  <2>1. Wrapped(trueNow) \in Int /\ trueNow - t \in Int /\ t - trueNow \in Int
    BY WrappedType
  <2>2. ago = Wrapped(trueNow - t) /\ ahead = Wrapped(t - trueNow)
    BY <2>1, WrapShift
  <2> QED
    BY <2>1, <2>2, WrappedType, HalfType
<1>2. NotBefore(Wrapped(trueNow), t) <=> ago < Half
  BY DEF NotBefore, Wrapped, Half
<1>3. Unwrapped(t) = IF ago < Half THEN trueNow - ago ELSE trueNow + ahead
  BY <1>2 DEF Unwrapped, Wrapped
<1>4. CASE ago < Half
  <2>1. Wrapped(trueNow - ago) = Wrapped(trueNow - (trueNow - t))
    <3>1. trueNow - t \in Int
      OBVIOUS
    <3> QED
      BY <1>1, <3>1, WrapShift
  <2>2. trueNow - (trueNow - t) = t
    OBVIOUS
  <2> QED
    BY <1>1, <1>3, <1>4, <2>1, <2>2, HalfType
<1>5. CASE ago >= Half
  <2> HIDE DEF ago, ahead
  <2>1. PICK q \in Int : trueNow - t = (2^TickBits * q) + ago
    <3>1. trueNow - t \in Int
      OBVIOUS
    <3> QED
      BY <1>1, <3>1, ModParts, HalfType DEF Wrapped
  <2>2. ahead = 2 * Half - ago
    <3>1. t - trueNow = (2^TickBits * (-q - 1)) + (2^TickBits - ago)
      <4>1. \A m \in Int : trueNow - t = (m * q) + ago => t - trueNow = (m * (-q - 1)) + (m - ago)
        BY <1>1, HalfType
      <4> QED
        BY <2>1, <4>1, HalfType
    <3>2. 2^TickBits - ago \in 0 .. 2^TickBits - 1 /\ -q - 1 \in Int /\ t - trueNow \in Int
      BY <1>1, <1>5, HalfType
    <3>3. (t - trueNow) % 2^TickBits = 2^TickBits - ago
      BY <3>1, <3>2, HalfType, ModUnique
    <3> QED
      BY <1>1, <3>3, HalfType DEF Wrapped
  <2>3. Wrapped(trueNow + ahead) = Wrapped(t)
    <3>1. t - trueNow \in Int /\ trueNow + (t - trueNow) = t /\ (t - trueNow) + trueNow = t
      OBVIOUS
    <3>2. Wrapped(ahead + trueNow) = Wrapped((t - trueNow) + trueNow)
      BY <1>1, <3>1, WrapShift
    <3>3. ahead + trueNow = trueNow + ahead
      BY <1>1
    <3> QED
      BY <3>1, <3>2, <3>3
  <2> QED
    BY <1>1, <1>3, <1>5, <2>2, <2>3, HalfType
<1> QED
  BY <1>1, <1>4, <1>5, HalfType

-----------------------------------------------------------------------------
ReloadSpec == ReloadInit /\ [][ReloadNext]_reloadvars

\* The tick, unwrapped, that reload_next_deadline stands for.
NextBound == (IF wokeAt > 0 THEN wokeAt ELSE anchor) + reload_period

\* A guest with a timer is never further behind it than half the clock's range,
\* nor than the periods the loop of handle_yield_until_reload makes up for.
KeepsUp ==
    reload_period > 0 => /\ trueNow - NextBound < Half
                         /\ trueNow - NextBound < Safety * reload_period

ReloadTypeOK ==
    /\ trueNow \in Nat /\ anchor \in Nat /\ wokeAt \in Nat /\ wakeAt \in Int
    /\ reload_period \in 0 .. Half - 1 /\ reload_next_deadline \in Int
    /\ block \in {"ready", "yielded", "sleep"} /\ block_deadline \in Int

\* A sleeper's deadline is the residue of a tick at most half a lap ahead.
SleepInv ==
    block = "sleep" => wakeAt - trueNow <= Half /\ block_deadline = Wrapped(wakeAt)

\* The next deadline is the residue of a tick on the grid, and the guest has
\* reached the boundary before it unless it sleeps until then.
GridInv ==
    /\ anchor <= trueNow
    /\ wokeAt > trueNow => block = "sleep" /\ wakeAt = wokeAt
    /\ reload_period > 0 => /\ reload_next_deadline = Wrapped(NextBound)
                            /\ wokeAt > 0 => (wokeAt - anchor) % reload_period = 0

ReloadInv == ReloadTypeOK /\ SleepInv /\ GridInv

LEMMA ReloadInitInv == ReloadInit => ReloadInv
<1> SUFFICES ASSUME ReloadInit PROVE ReloadInv
  OBVIOUS
<1>1. ReloadTypeOK
  BY HalfType, ReloadAssumption DEF ReloadInit, ReloadTypeOK
<1> QED
  BY <1>1, HalfType, ReloadAssumption DEF ReloadInit, ReloadInv, SleepInv, GridInv

\* Going to sleep until a tick of the code's width.
LEMMA SleepToInv ==
    ASSUME ReloadInv, UNCHANGED trueNow, NEW t \in Int, SleepTo(t), Wrapped(t) = t
    PROVE  SleepInv' /\ wakeAt' \in Int /\ block' = "sleep" /\ block_deadline' \in Int
<1>1. trueNow \in Int
  BY DEF ReloadInv, ReloadTypeOK
<1>2. Unwrapped(t) \in Int /\ Unwrapped(t) - trueNow <= Half /\ Wrapped(Unwrapped(t)) = t
  BY <1>1, UnwrappedFacts
<1>3. block' = "sleep" /\ block_deadline' = t /\ wakeAt' = Unwrapped(t) /\ trueNow' = trueNow
  BY DEF SleepTo
<1>4. Half' = Half /\ Wrapped(wakeAt)' = Wrapped(wakeAt')
  BY DEF Half, Wrapped
<1> QED
  BY <1>2, <1>3, <1>4 DEF SleepInv

\* A nap leaves the timer alone; the guest that takes it was awake.
LEMMA NapInv ==
    ASSUME ReloadInv, block = "ready",
           UNCHANGED <<trueNow, reload_period, reload_next_deadline, anchor, wokeAt>>,
           Yield \/ \E t \in Int : SleepTo(t) /\ Wrapped(t) = t
    PROVE  ReloadInv'
<1>1. ReloadTypeOK' /\ SleepInv'
  <2>1. CASE Yield
    BY <2>1, HalfType DEF Yield, ReloadInv, ReloadTypeOK, SleepInv, Half
  <2>2. CASE \E t \in Int : SleepTo(t) /\ Wrapped(t) = t
    <3>1. PICK t \in Int : SleepTo(t) /\ Wrapped(t) = t
      BY <2>2
    <3>2. SleepInv' /\ wakeAt' \in Int /\ block' = "sleep" /\ block_deadline' \in Int
      BY <3>1, SleepToInv
    <3> QED
      BY <3>2, HalfType DEF ReloadInv, ReloadTypeOK, Half
  <2> QED
    BY <2>1, <2>2
<1>2. GridInv'
  BY HalfType DEF ReloadInv, ReloadTypeOK, GridInv, NextBound, Wrapped, Half
<1> QED
  BY <1>1, <1>2 DEF ReloadInv

\* What an awake guest with a timer knows of it.
LEMMA AwakeFacts ==
    ASSUME ReloadInv, KeepsUp, block = "ready", reload_period > 0
    PROVE  /\ trueNow \in Nat /\ wokeAt \in Nat /\ NextBound \in Int /\ NextBound > 0
           /\ reload_period \in 1 .. Half - 1
           /\ wokeAt <= trueNow /\ NextBound - trueNow <= reload_period
           /\ trueNow - NextBound < Half /\ trueNow - NextBound < Safety * reload_period
           /\ wokeAt > 0 => NextBound = wokeAt + reload_period
           /\ (NextBound - anchor) % reload_period = 0
           /\ reload_next_deadline = Wrapped(NextBound)
<1>1. /\ trueNow \in Nat /\ wokeAt \in Nat /\ anchor \in Nat /\ anchor <= trueNow
      /\ reload_period \in 1 .. Half - 1 /\ wokeAt <= trueNow
  BY HalfType DEF ReloadInv, ReloadTypeOK, GridInv
<1>2. (NextBound - anchor) % reload_period = 0
  <2> DEFINE from == IF wokeAt > 0 THEN wokeAt - anchor ELSE 0
  <2>1. reload_period \in Nat \ {0} /\ from \in Int
    BY <1>1
  <2>2. from % reload_period = 0
    <3>1. 0 % reload_period = 0
      BY <2>1
    <3> QED
      BY <3>1, <1>1 DEF ReloadInv, GridInv
  <2>3. NextBound - anchor = from + reload_period
    BY <1>1 DEF NextBound
  <2> HIDE DEF from
  <2>4. PICK q \in Int : from = (reload_period * q) + (from % reload_period)
    BY <2>1, ModParts
  <2>5. NextBound - anchor = (reload_period * (q + 1)) + 0 /\ NextBound - anchor \in Int
    BY <2>1, <2>2, <2>3, <2>4
  <2>6. q + 1 \in Int /\ 0 \in 0 .. reload_period - 1
    BY <2>1, <2>4
  <2> QED
    BY <2>1, <2>5, <2>6, ModUnique
<1> QED
  BY <1>1, <1>2 DEF ReloadInv, GridInv, NextBound, KeepsUp

\* The loop stops at the first boundary after now: it is at most a period away,
\* and the periods it skips are exactly those that have passed.
LEMMA NextBoundaryExact ==
    ASSUME ReloadInv, KeepsUp, block = "ready", reload_period > 0
    PROVE  LET k == NextBoundary(reload_next_deadline, Safety)
               b == NextBound + k * reload_period
           IN  /\ k \in 0 .. Safety
               /\ trueNow < b /\ b <= trueNow + reload_period
<1> DEFINE p == reload_period
           at(n) == Wrapped(reload_next_deadline + n * reload_period)
           behind(n) == NotBefore(handle_ticks_now, at(n))
           Fits(k) == (k = Safety \/ ~behind(k)) /\ \A n \in 0 .. (k - 1) : behind(n)
<1>1. /\ trueNow \in Int /\ NextBound \in Int /\ p \in Nat \ {0} /\ p < Half /\ Safety \in Nat
      /\ NextBound - trueNow <= p
      /\ trueNow - NextBound < Half /\ trueNow - NextBound < Safety * p
      /\ reload_next_deadline = Wrapped(NextBound)
      /\ Half \in Nat
  BY AwakeFacts, ReloadAssumption, HalfType
<1>2. ASSUME NEW n \in Nat, (n = 0 \/ NextBound + (n - 1) * p <= trueNow)
      PROVE  behind(n) <=> NextBound + n * p <= trueNow
  <2>1. n * p \in Nat /\ (n = 0 => n * p = 0) /\ (n - 1) * p = n * p - p
    BY <1>1
  <2>2. trueNow - (NextBound + n * p) < Half /\ (NextBound + n * p) - trueNow <= Half
    <3>1. \A x \in Nat : ((n = 0 => x = 0) /\ (n = 0 \/ NextBound + (x - p) <= trueNow)) =>
                          trueNow - (NextBound + x) < Half /\ (NextBound + x) - trueNow <= Half
      BY <1>1
    <3> QED
      BY <1>2, <2>1, <3>1
  <2>3. at(n) = Wrapped(NextBound + n * p)
    BY <1>1, <2>1, WrapShift
  <2>4. NotBefore(Wrapped(trueNow), Wrapped(NextBound + n * p)) <=> trueNow >= NextBound + n * p
    BY <1>1, <2>1, <2>2, NotBeforeExact
  <2> QED
    BY <1>1, <2>1, <2>3, <2>4 DEF handle_ticks_now
<1>3. PICK k0 \in 0 .. Safety : /\ trueNow < NextBound + k0 * p
                                /\ k0 = 0 \/ NextBound + (k0 - 1) * p <= trueNow
  <2>1. CASE trueNow < NextBound
    <3>1. NextBound + 0 * p = NextBound
      BY <1>1
    <3> QED
      BY <1>1, <2>1, <3>1
  <2>2. CASE NextBound <= trueNow
    <3> DEFINE d == trueNow - NextBound
               q == d \div p
    <3>1. d \in Nat /\ d < Safety * p
      BY <1>1, <2>2
    <3>2. q \in Int /\ d = (p * q) + (d % p) /\ (d % p) \in 0 .. p - 1
      BY <1>1, <3>1, SMTT(30)
    <3> HIDE DEF q
    <3>3. \A r \in 0 .. p - 1 : d = (p * q) + r => q >= 0 /\ q * p <= d /\ d < q * p + p /\ q < Safety
      <4>1. SUFFICES ASSUME NEW r \in 0 .. p - 1, d = (p * q) + r
                     PROVE  q >= 0 /\ q * p <= d /\ d < q * p + p /\ q < Safety
        OBVIOUS
      <4>2. q * p = p * q
        BY <1>1, <3>2
      <4>3. q * p <= d /\ d < q * p + p
        BY <4>1, <4>2, <1>1, <3>1, <3>2
      <4>4. q >= 0
        <5>1. SUFFICES ASSUME q <= -1 PROVE FALSE
          BY <3>2
        <5>2. q * p <= (-1) * p /\ (-1) * p = -p /\ q * p \in Int
          BY <5>1, <3>2, <1>1, SMTT(30)
        <5>3. \A x \in Int : x <= -p /\ d < x + p => d < 0
          BY <3>1, <1>1
        <5> QED
          BY <5>2, <5>3, <4>3, <3>1
      <4>5. q < Safety
        <5>1. SUFFICES ASSUME Safety <= q PROVE FALSE
          BY <3>2, <1>1
        <5>2. Safety * p <= q * p
          BY <5>1, <3>2, <1>1, SMTT(30)
        <5> QED
          BY <5>2, <4>3, <3>1, <3>2, <1>1
      <4> QED
        BY <4>3, <4>4, <4>5
    <3>4. q \in Nat /\ q < Safety /\ q * p <= d /\ d < q * p + p
      BY <3>2, <3>3
    <3>5. q + 1 \in 0 .. Safety /\ (q + 1) * p = q * p + p /\ (q + 1) - 1 = q
      BY <1>1, <3>4
    <3>6. q * p \in Int
      BY <1>1, <3>4
    <3>7. trueNow < NextBound + (q + 1) * p /\ NextBound + ((q + 1) - 1) * p <= trueNow
      BY <1>1, <3>4, <3>5, <3>6
    <3> QED
      BY <3>5, <3>7
  <2> QED
    BY <1>1, <2>1, <2>2
<1>4. ASSUME NEW n \in Nat, n < k0
      PROVE  NextBound + n * p <= trueNow
  <2>1. k0 \in Int /\ n <= k0 - 1
    BY <1>4, <1>1
  <2>2. n * p <= (k0 - 1) * p
    BY <2>1, <1>1, SMTT(30)
  <2>3. n * p \in Int /\ (k0 - 1) * p \in Int
    BY <2>1, <1>1
  <2> QED
    BY <1>1, <1>3, <1>4, <2>2, <2>3
<1>5. ASSUME NEW n \in Nat, n <= k0
      PROVE  behind(n) <=> n < k0
  <2>1. n = 0 \/ NextBound + (n - 1) * p <= trueNow
    <3>1. n = 0 \/ (n - 1 \in Nat /\ n - 1 < k0)
      BY <1>5, <1>1
    <3> QED
      BY <3>1, <1>4
  <2>2. behind(n) <=> NextBound + n * p <= trueNow
    BY <1>2, <2>1
  <2>3. CASE n < k0
    BY <2>2, <2>3, <1>4
  <2>4. CASE n = k0
    <3>1. k0 * p \in Int /\ ~(NextBound + k0 * p <= trueNow)
      <4>1. k0 * p \in Int
        BY <1>1
      <4>2. PICK x \in Int : x = k0 * p
        BY <4>1
      <4>3. trueNow < NextBound + x
        BY <1>1, <1>3, <4>1, <4>2
      <4> QED
        BY <1>1, <4>2, <4>3
    <3> QED
      BY <2>2, <2>4, <3>1
  <2> QED
    BY <1>1, <1>5, <2>3, <2>4
<1> DEFINE k == CHOOSE n \in 0 .. Safety : Fits(n)
<1>6. k \in 0 .. Safety /\ Fits(k)
  <2>1. k0 \in Nat /\ \A n \in 0 .. (k0 - 1) : n \in Nat /\ n < k0
    BY <1>1
  <2>2. Fits(k0)
    BY <1>5, <2>1
  <2> HIDE DEF Fits
  <2> QED
    BY <2>2
<1>7. k = NextBoundary(reload_next_deadline, Safety)
  BY DEF NextBoundary
<1> HIDE DEF k
<1>8. k = k0
  <2>1. k \in Nat /\ k0 \in Nat
    BY <1>1, <1>6
  <2>2. ~(k < k0)
    <3>1. SUFFICES ASSUME k < k0 PROVE FALSE
      OBVIOUS
    <3>2. behind(k)
      BY <1>5, <2>1, <3>1
    <3>3. k = Safety
      BY <1>6, <3>2
    <3> QED
      BY <3>1, <3>3, <2>1, <1>1
  <2>3. ~(k0 < k)
    <3>1. SUFFICES ASSUME k0 < k PROVE FALSE
      OBVIOUS
    <3>2. k0 \in 0 .. (k - 1)
      BY <2>1, <3>1
    <3>3. behind(k0)
      BY <1>6, <3>2
    <3> QED
      BY <1>5, <2>1, <3>3
  <2> QED
    BY <2>1, <2>2, <2>3
<1>9. k0 * p \in Int /\ (k0 - 1) * p = k0 * p - p /\ (k0 = 0 => k0 * p = 0)
  BY <1>1
<1>10. trueNow < NextBound + k0 * p /\ NextBound + k0 * p <= trueNow + p
  <2>1. PICK x \in Int : x = k0 * p
    BY <1>9
  <2>2. trueNow < NextBound + x
    BY <1>1, <1>3, <2>1
  <2>3. NextBound + x <= trueNow + p
    <3>1. CASE k0 = 0
      BY <1>1, <1>9, <2>1, <3>1
    <3>2. CASE k0 # 0
      <4>1. NextBound + (x - p) <= trueNow
        BY <1>3, <1>9, <2>1, <3>2
      <4> QED
        BY <1>1, <4>1
    <3> QED
      BY <3>1, <3>2
  <2> QED
    BY <2>1, <2>2, <2>3
<1> QED
  BY <1>6, <1>7, <1>8, <1>10

LEMMA YieldUntilReloadInv ==
    ASSUME ReloadInv, KeepsUp, handle_yield_until_reload
    PROVE  ReloadInv' /\ NextFrame
<1>1. block = "ready" /\ UNCHANGED <<trueNow, reload_period, anchor>>
  BY DEF handle_yield_until_reload
<1>2. CASE reload_period = 0
  <2>1. Yield /\ UNCHANGED <<reload_next_deadline, wokeAt>>
    BY <1>2 DEF handle_yield_until_reload
  <2>2. ReloadInv'
    BY <1>1, <2>1, NapInv
  <2> QED
    BY <1>2, <2>2 DEF NextFrame
<1>3. CASE reload_period # 0
  <2>1. PICK p \in 1 .. Half - 1 : p = reload_period
    BY <1>3, HalfType DEF ReloadInv, ReloadTypeOK
  <2>2. reload_period > 0 /\ p \in Nat \ {0} /\ p \in Int
    BY <2>1, HalfType
  <2>3. PICK k \in 0 .. Safety : k = NextBoundary(reload_next_deadline, Safety)
    BY <1>1, <2>2, NextBoundaryExact
  <2>4. PICK b \in Int : b = NextBound + k * p
    BY <1>1, <2>1, <2>2, <2>3, AwakeFacts, ReloadAssumption
  <2>5. trueNow < b /\ b <= trueNow + p /\ trueNow \in Nat /\ p < Half /\ b \in Nat /\ b > 0
    <3>1. trueNow < b /\ b <= trueNow + p
      BY <1>1, <2>1, <2>2, <2>3, <2>4, NextBoundaryExact
    <3> QED
      BY <3>1, <2>1, HalfType DEF ReloadInv, ReloadTypeOK
  <2>6. PICK next \in Int : next = Wrapped(b) /\ next = Wrapped(reload_next_deadline + k * reload_period)
    <3>1. NextBound \in Int /\ k * p \in Int /\ reload_next_deadline = Wrapped(NextBound)
      BY <1>1, <2>2, <2>3, AwakeFacts, ReloadAssumption
    <3>2. Wrapped(Wrapped(NextBound) + k * p) = Wrapped(NextBound + k * p)
      BY <3>1, WrapShift
    <3> QED
      BY <2>1, <2>4, <3>1, <3>2, WrappedType
  <2>7. /\ reload_next_deadline' = Wrapped(next + p)
        /\ SleepTo(next) /\ wokeAt' = Unwrapped(next)
    BY <1>3, <2>1, <2>3, <2>6 DEF handle_yield_until_reload
  <2>8. Unwrapped(next) = b
    <3>1. trueNow \in Int /\ b > trueNow /\ b - trueNow <= Half
      BY <2>2, <2>5, HalfType
    <3>2. Unwrapped(Wrapped(b)) = b
      BY <3>1, UnwrappedExact
    <3> QED
      BY <2>6, <3>2
  <2>9. Wrapped(next) = next /\ Wrapped(next + p) = Wrapped(b + p) /\ Wrapped(b + p) \in Int
    <3>1. b + p \in Int /\ Wrapped(Wrapped(b) + p) = Wrapped(b + p)
      BY <2>2, WrapShift
    <3>2. Wrapped(Wrapped(b)) = Wrapped(b) /\ Wrapped(b + p) \in Int
      BY <3>1, WrappedType
    <3> QED
      BY <2>6, <3>1, <3>2
  <2>10. /\ SleepInv' /\ wakeAt' \in Int /\ block' = "sleep" /\ block_deadline' \in Int
         /\ wakeAt' = b
    BY <1>1, <2>7, <2>8, <2>9, SleepToInv DEF SleepTo
  <2>11. (b - anchor) % p = 0
    <3> PICK d \in Int : d = NextBound - anchor
      BY <1>1, <2>2, AwakeFacts DEF ReloadInv, ReloadTypeOK
    <3>1. PICK q \in Int : d = (p * q) + (d % p)
      BY <2>2, ModParts
    <3>2. NextBound - anchor = p * q /\ NextBound \in Int /\ anchor \in Int
      <4>1. NextBound \in Int /\ anchor \in Int /\ d % p = 0
        BY <1>1, <2>1, <2>2, AwakeFacts DEF ReloadInv, ReloadTypeOK
      <4> QED
        BY <2>2, <3>1, <4>1
    <3>3. b - anchor = (p * (q + k)) + 0
      BY <2>3, <2>4, <3>2, ReloadAssumption
    <3>4. b - anchor \in Int /\ q + k \in Int /\ 0 \in 0 .. p - 1
      BY <2>1, <2>3, <3>2, ReloadAssumption
    <3> QED
      BY <2>2, <3>3, <3>4, ModUnique
  <2>12. GridInv'
    <3>1. wokeAt' = b /\ wokeAt' > 0 /\ reload_period' = p /\ anchor' = anchor /\ trueNow' = trueNow
      BY <1>1, <2>1, <2>5, <2>7, <2>8
    <3>2. NextBound' = b + p
      BY <3>1 DEF NextBound
    <3>3. reload_next_deadline' = Wrapped(NextBound')
      BY <2>7, <2>9, <3>2
    <3>4. Wrapped(NextBound)' = Wrapped(NextBound')
      BY DEF Wrapped
    <3>5. (wokeAt' - anchor') % reload_period' = 0
      BY <2>11, <3>1
    <3> QED
      BY <2>10, <3>1, <3>3, <3>4, <3>5 DEF GridInv, ReloadInv
  <2>13. ReloadTypeOK'
    BY <1>1, <2>5, <2>7, <2>8, <2>9, <2>10 DEF ReloadInv, ReloadTypeOK, Half
  <2>14. NextFrame
    <3>1. wokeAt <= trueNow /\ wokeAt \in Nat
      BY <1>1, <2>2, AwakeFacts
    <3> QED
      BY <2>1, <2>5, <2>7, <2>8, <3>1 DEF NextFrame
  <2> QED
    BY <2>10, <2>12, <2>13, <2>14 DEF ReloadInv
<1> QED
  BY <1>2, <1>3

LEMMA SetReloadPeriodInv ==
    ASSUME ReloadInv, NEW p \in Periods, handle_set_reload_period(p)
    PROVE  ReloadInv'
<1>1. p \in 0 .. Half - 1 /\ trueNow \in Nat /\ p \in Int
  BY HalfType, ReloadAssumption DEF ReloadInv, ReloadTypeOK, Half
<1>2. /\ block = "ready" /\ UNCHANGED <<trueNow, block, block_deadline, wakeAt>>
      /\ reload_period' = p /\ anchor' = trueNow /\ wokeAt' = 0
      /\ reload_next_deadline' = IF p = 0 THEN 0 ELSE Wrapped(handle_ticks_now + p)
  BY DEF handle_set_reload_period
<1>3. Wrapped(handle_ticks_now + p) = Wrapped(trueNow + p) /\ Wrapped(trueNow + p) \in Int
  <2>1. trueNow \in Int /\ trueNow + p \in Int
    BY <1>1
  <2> QED
    BY <1>1, <2>1, WrapShift, WrappedType DEF handle_ticks_now
<1>4. ReloadTypeOK'
  BY <1>1, <1>2, <1>3 DEF ReloadInv, ReloadTypeOK, Half
<1>5. SleepInv'
  BY <1>2 DEF SleepInv
<1>6. GridInv'
  <2>1. NextBound' = trueNow + p
    BY <1>2 DEF NextBound
  <2>2. Wrapped(NextBound)' = Wrapped(NextBound')
    BY DEF Wrapped
  <2> QED
    BY <1>1, <1>2, <1>3, <2>1, <2>2 DEF GridInv
<1> QED
  BY <1>4, <1>5, <1>6 DEF ReloadInv

\* A sleeper is woken at its tick or after it.
LEMMA WakeInv ==
    ASSUME ReloadInv, Wake
    PROVE  ReloadInv' /\ NotEarly
<1>1. ASSUME block = "sleep" PROVE trueNow >= wakeAt
  <2>1. /\ wakeAt - trueNow <= Half /\ NotBefore(Wrapped(trueNow), Wrapped(wakeAt))
        /\ trueNow \in Nat /\ wakeAt \in Int
    BY <1>1 DEF Wake, ReloadInv, ReloadTypeOK, SleepInv, handle_ticks_now
  <2>2. SUFFICES ASSUME trueNow < wakeAt PROVE FALSE
    BY <2>1
  <2>3. trueNow - wakeAt < Half
    BY <2>1, <2>2, HalfType
  <2> QED
    BY <2>1, <2>2, <2>3, NotBeforeExact
<1>2. ReloadInv'
  <2>1. /\ UNCHANGED <<trueNow, reload_period, reload_next_deadline, block_deadline, anchor,
                       wakeAt, wokeAt>>
        /\ block' = "ready"
    BY DEF Wake
  <2>2. ~(wokeAt > trueNow)
    BY <1>1 DEF ReloadInv, ReloadTypeOK, GridInv
  <2> QED
    BY <2>1, <2>2 DEF ReloadInv, ReloadTypeOK, SleepInv, GridInv, NextBound, Wrapped, Half
<1> QED
  BY <1>1, <1>2 DEF NotEarly

LEMMA ElapseInv == ASSUME ReloadInv, Elapse PROVE ReloadInv'
<1>1. PICK d \in Nat : trueNow' = trueNow + d
  BY ReloadAssumption DEF Elapse
<1>2. UNCHANGED <<reload_period, reload_next_deadline, block, block_deadline, anchor, wakeAt, wokeAt>>
  BY DEF Elapse
<1>3. trueNow \in Nat /\ trueNow' \in Nat /\ trueNow' >= trueNow /\ wakeAt \in Int /\ anchor \in Nat
      /\ wokeAt \in Nat /\ Half \in Nat
  BY <1>1, HalfType DEF ReloadInv, ReloadTypeOK
<1>4. ReloadTypeOK'
  BY <1>2, <1>3 DEF ReloadInv, ReloadTypeOK, Half
<1>5. SleepInv'
  BY <1>2, <1>3 DEF ReloadInv, SleepInv, Wrapped, Half
<1>6. GridInv'
  BY <1>2, <1>3 DEF ReloadInv, GridInv, NextBound, Wrapped
<1> QED
  BY <1>4, <1>5, <1>6 DEF ReloadInv

LEMMA NapsInv ==
    ASSUME ReloadInv, NEW n \in Naps,
           handle_sleep_ticks(n) \/ handle_sleep_until(Wrapped(StartTick + n))
    PROVE  ReloadInv'
<1>1. n \in Nat /\ StartTick \in Nat /\ handle_ticks_now \in Int
  BY ReloadAssumption, WrappedType DEF ReloadInv, ReloadTypeOK, handle_ticks_now
<1>2. CASE handle_sleep_ticks(n)
  <2>1. Wrapped(handle_ticks_now + n) \in Int
        /\ Wrapped(Wrapped(handle_ticks_now + n)) = Wrapped(handle_ticks_now + n)
    BY <1>1, WrappedType
  <2> QED
    BY <1>2, <2>1, NapInv DEF handle_sleep_ticks
<1>3. CASE handle_sleep_until(Wrapped(StartTick + n))
  <2>1. Wrapped(StartTick + n) \in Int
        /\ Wrapped(Wrapped(StartTick + n)) = Wrapped(StartTick + n)
    BY <1>1, WrappedType
  <2> QED
    BY <1>3, <2>1, NapInv DEF handle_sleep_until
<1> QED
  BY <1>2, <1>3

LEMMA ReloadNextInv == ReloadInv /\ KeepsUp /\ [ReloadNext]_reloadvars => ReloadInv'
<1> SUFFICES ASSUME ReloadInv, KeepsUp, [ReloadNext]_reloadvars PROVE ReloadInv'
  OBVIOUS
<1>1. CASE \E n \in Naps : handle_sleep_ticks(n) \/ handle_sleep_until(Wrapped(StartTick + n))
  BY <1>1, NapsInv
<1>2. CASE \E p \in Periods : handle_set_reload_period(p)
  BY <1>2, SetReloadPeriodInv
<1>3. CASE handle_yield_until_reload
  BY <1>3, YieldUntilReloadInv
<1>4. CASE Wake
  BY <1>4, WakeInv
<1>5. CASE Elapse
  BY <1>5, ElapseInv
<1>6. CASE UNCHANGED reloadvars
  BY <1>6 DEF reloadvars, ReloadInv, ReloadTypeOK, SleepInv, GridInv, NextBound, Wrapped, Half
<1> QED
  BY <1>1, <1>2, <1>3, <1>4, <1>5, <1>6 DEF ReloadNext

LEMMA GridHeld == ReloadInv => OnTheGrid
  BY DEF ReloadInv, GridInv, OnTheGrid

\* While a frame runs, now and the next boundary are less than half a lap apart.
LEMMA BudgetHeld == ReloadInv /\ KeepsUp => BudgetExact
<1> SUFFICES ASSUME ReloadInv, KeepsUp, reload_period > 0, wokeAt > 0, block = "ready"
             PROVE  handle_timing_deadline_remaining =
                        LET left == wokeAt + reload_period - trueNow IN IF left > 0 THEN left ELSE 0
  BY DEF BudgetExact
<1>1. PICK b \in Int : b = NextBound
  BY AwakeFacts
<1>2. /\ trueNow \in Nat /\ reload_period \in 1 .. Half - 1 /\ b - trueNow <= reload_period
      /\ trueNow - b < Half /\ reload_next_deadline = Wrapped(b) /\ b = wokeAt + reload_period
  BY <1>1, AwakeFacts
<1>3. NotBefore(handle_ticks_now, reload_next_deadline) <=> trueNow >= b
  BY <1>2, HalfType, NotBeforeExact DEF handle_ticks_now
<1>4. (reload_next_deadline - handle_ticks_now) % 2^TickBits = Wrapped(b - trueNow)
  <2>1. Wrapped(Wrapped(b) - Wrapped(trueNow)) = Wrapped(b - trueNow)
    <3>1. trueNow \in Int /\ b - trueNow \in Int /\ Wrapped(trueNow) \in Int
      BY <1>2, WrappedType
    <3>2. Wrapped(Wrapped(b) - Wrapped(trueNow)) = Wrapped(b - Wrapped(trueNow))
      BY <3>1, WrapShift
    <3> QED
      BY <3>1, <3>2, WrapShift
  <2> QED
    BY <1>2, <2>1 DEF handle_ticks_now, Wrapped
<1>5. trueNow < b => Wrapped(b - trueNow) = b - trueNow
  BY <1>2, HalfType, WrapNear
<1>6. wokeAt + reload_period - trueNow = b - trueNow /\ (b - trueNow > 0 <=> trueNow < b)
      /\ (trueNow >= b <=> ~(trueNow < b)) /\ reload_period # 0
  <2>1. wokeAt \in Nat
    BY DEF ReloadInv, ReloadTypeOK
  <2> QED
    BY <1>2, <2>1
<1>7. CASE trueNow < b
  BY <1>3, <1>4, <1>5, <1>6, <1>7 DEF handle_timing_deadline_remaining
<1>8. CASE ~(trueNow < b)
  BY <1>3, <1>6, <1>8 DEF handle_timing_deadline_remaining
<1> QED
  BY <1>7, <1>8

\* Only the scheduler's pass makes a sleeper ready.
LEMMA NotEarlyHeld == ReloadInv /\ ReloadNext => NotEarly
<1> SUFFICES ASSUME ReloadInv, ReloadNext, block = "sleep", block' = "ready" PROVE trueNow >= wakeAt
  BY DEF NotEarly
<1>1. Wake
  BY DEF ReloadNext, handle_sleep_ticks, handle_sleep_until, handle_set_reload_period,
         handle_yield_until_reload, Elapse
<1> QED
  BY <1>1, WakeInv DEF NotEarly

THEOREM TimingAlwaysExact == ReloadSpec /\ []KeepsUp => TimingExact
<1>1. ReloadInv /\ KeepsUp /\ KeepsUp' /\ [ReloadNext]_reloadvars
        => ReloadInv' /\ [OnTheGrid' /\ BudgetExact' /\ NextFrame /\ NotEarly]_reloadvars
  <2> SUFFICES ASSUME ReloadInv, KeepsUp, KeepsUp', [ReloadNext]_reloadvars
               PROVE  ReloadInv' /\ [OnTheGrid' /\ BudgetExact' /\ NextFrame /\ NotEarly]_reloadvars
    OBVIOUS
  <2>1. ReloadInv'
    BY ReloadNextInv
  <2>2. OnTheGrid' /\ BudgetExact'
    <3>1. (ReloadInv => OnTheGrid)' /\ (ReloadInv /\ KeepsUp => BudgetExact)'
      BY GridHeld, BudgetHeld, PTL
    <3> QED
      BY <2>1, <3>1
  <2>3. ReloadNext => NextFrame /\ NotEarly
    BY NotEarlyHeld, YieldUntilReloadInv DEF NextFrame
  <2> QED
    BY <2>1, <2>2, <2>3
<1> QED
  BY <1>1, ReloadInitInv, PTL DEF ReloadSpec, TimingExact

-----------------------------------------------------------------------------
\* A run in which the clock moves less than that keeps up by itself.
ShortRun == StartTick <= MaxTick /\ MaxTick - StartTick < Half /\ MaxTick - StartTick < Safety

ClockInRange ==
    /\ trueNow \in StartTick .. MaxTick /\ wokeAt \in Nat /\ reload_period \in Nat
    /\ reload_period > 0 => anchor >= StartTick /\ anchor \in Nat
    /\ wokeAt > 0 => wokeAt >= StartTick

LEMMA ClockInRangeInv == ShortRun => (ReloadSpec => [](ReloadInv /\ ClockInRange /\ KeepsUp))
<1> SUFFICES ASSUME ShortRun PROVE ReloadSpec => [](ReloadInv /\ ClockInRange /\ KeepsUp)
  OBVIOUS
<1>1. ReloadInv /\ ClockInRange => KeepsUp
  <2> SUFFICES ASSUME ReloadInv, ClockInRange, reload_period > 0
               PROVE  /\ trueNow - NextBound < Half
                      /\ trueNow - NextBound < Safety * reload_period
    BY DEF KeepsUp
  <2>1. /\ trueNow \in Int /\ NextBound \in Int /\ reload_period \in Nat /\ Safety \in Nat /\ Half \in Nat
        /\ trueNow - NextBound < Half /\ trueNow - NextBound < Safety
    BY HalfType, ReloadAssumption DEF ClockInRange, NextBound, ShortRun
  <2>2. Safety * reload_period >= Safety /\ Safety * reload_period \in Int
    BY <2>1, SMTT(30)
  <2> QED
    BY <2>1, <2>2
<1>2. ReloadInit => ClockInRange
  BY ReloadAssumption DEF ShortRun, ReloadInit, ClockInRange
<1>3. ReloadInv /\ ReloadInv' /\ ClockInRange /\ KeepsUp /\ [ReloadNext]_reloadvars => ClockInRange'
  <2> SUFFICES ASSUME ReloadInv, ReloadInv', ClockInRange, KeepsUp, [ReloadNext]_reloadvars
               PROVE  ClockInRange'
    OBVIOUS
  <2>1. CASE \E n \in Naps : handle_sleep_ticks(n) \/ handle_sleep_until(Wrapped(StartTick + n))
    BY <2>1 DEF handle_sleep_ticks, handle_sleep_until, ClockInRange
  <2>2. CASE \E p \in Periods : handle_set_reload_period(p)
    BY <2>2, ReloadAssumption DEF handle_set_reload_period, ClockInRange
  <2>3. CASE handle_yield_until_reload
    <3>1. reload_period > 0 => trueNow < wokeAt'
      BY <2>3, YieldUntilReloadInv DEF NextFrame
    <3>2. wokeAt' \in Nat /\ UNCHANGED <<trueNow, reload_period, anchor>>
          /\ (reload_period = 0 => wokeAt' = wokeAt)
      BY <2>3 DEF ReloadInv, ReloadTypeOK, handle_yield_until_reload
    <3> QED
      BY <3>1, <3>2, ReloadAssumption DEF ClockInRange
  <2>4. CASE Wake
    BY <2>4 DEF Wake, ClockInRange
  <2>5. CASE Elapse
    BY <2>5, ReloadAssumption DEF Elapse, ClockInRange
  <2>6. CASE UNCHANGED reloadvars
    BY <2>6 DEF reloadvars, ClockInRange
  <2> QED
    BY <2>1, <2>2, <2>3, <2>4, <2>5, <2>6 DEF ReloadNext
<1> QED
  BY <1>1, <1>2, <1>3, ReloadInitInv, ReloadNextInv, PTL DEF ReloadSpec

THEOREM ShortRunsAreExact == ShortRun => (ReloadSpec => TimingExact)
<1> SUFFICES ASSUME ShortRun PROVE ReloadSpec => TimingExact
  OBVIOUS
<1>1. ReloadSpec => []KeepsUp
  BY ClockInRangeInv, PTL
<1> QED
  BY <1>1, TimingAlwaysExact, PTL
=============================================================================
