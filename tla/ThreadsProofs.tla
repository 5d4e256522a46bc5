---------------------------- MODULE ThreadsProofs ----------------------------
(***************************************************************************)
(* The threads around the scheduler, each part and the run that composes   *)
(* them.                                                                   *)
(*                                                                         *)
(* The vblank worker, for any number of vblanks and starts and both kinds  *)
(* of wake object: a tick for a vblank at most, one at most after a stop,  *)
(* and no wait that the vblank or the stop it is for has already missed.   *)
(* None of it is inductive.  The count of ticks needs the vblank the       *)
(* worker has taken and not yet run; that a stop is followed by one tick   *)
(* needs where the worker can be after it; that nothing is slept through   *)
(* holds from the moment the worker leaves its drain, not only once it     *)
(* waits (Heard), and needs that a worker has an object to wait for.       *)
(***************************************************************************)
EXTENDS MCThreads, PreschedProofs, SequenceTheorems, WellFoundedInduction, NaturalsInduction, TLAPS

-----------------------------------------------------------------------------
(***************************************************************************)
(* The stream arbiter and the movie player for any files, number of slots, *)
(* ring depth and number of plays: a consumer pops the elements of its     *)
(* file in order, none skipped and none twice, a clip's frame on show is   *)
(* the one before the next in its ring, and the end of the file is         *)
(* reported only once everything before it has been popped.                *)
(*                                                                         *)
(* ArbInv is the invariant of the table and the tick.  What an open slot   *)
(* still owes its consumer is p - Len(ring) - d: the position p of its     *)
(* file, less what the ring holds and less the element the tick has read   *)
(* and not yet pushed (Lead, NextUp).  It needs that no two slots read one *)
(* file (OwnFiles), that the tick holds the last element read (TickGood)   *)
(* and that a latched slot has been read to its end (Good).  StreamInv     *)
(* adds what the guest has popped, FmvInv the frame on show, the steps of  *)
(* the hook that count on it, and the audio pushed beside the frames.      *)
(***************************************************************************)

\* A non-empty set of naturals has a least element.
LEMMA LeastOf ==
    ASSUME NEW S \in SUBSET Nat, S # {}
    PROVE  \E m \in S : \A k \in S : m <= k
<1> DEFINE Less == {ss \in Nat \X Nat : ss[1] < ss[2]}
<1>1. IsWellFoundedOn(Less, Nat)
  BY NatLessThanWellFounded DEF OpToRel
<1> HIDE DEF Less
<1>2. PICK m \in S : \A k \in S : ~(<<k, m>> \in Less)
  BY <1>1, WFMin
<1>3. ASSUME NEW k \in S
      PROVE  m <= k
  <2>1. <<k, m>> \in Nat \X Nat /\ ~(<<k, m>> \in Less)
    BY <1>2
  <2> QED
    BY <2>1 DEF Less
<1> QED
  BY <1>3

-----------------------------------------------------------------------------
(* Stretches of a file. *)

\* s is the elements of a file from the n-th on.
RunsFrom(s, n) == \A i \in 1 .. Len(s) : s[i] = n + i - 1

LEMMA EmptyRuns == ASSUME NEW n \in Int PROVE RunsFrom(<<>>, n) /\ <<>> \in Seq(Nat) /\ Len(<<>>) = 0
  BY DEF RunsFrom

LEMMA PopRuns ==
    ASSUME NEW n \in Int, NEW s \in Seq(Nat), s # <<>>, RunsFrom(s, n)
    PROVE  /\ Head(s) = n /\ n \in Nat
           /\ Tail(s) \in Seq(Nat) /\ Len(Tail(s)) = Len(s) - 1 /\ RunsFrom(Tail(s), n + 1)
<1>1. Len(s) \in Nat /\ Len(s) >= 1 /\ Head(s) = s[1] /\ s[1] \in Nat
  BY DEF RunsFrom
<1>2. Tail(s) \in Seq(Nat) /\ Len(Tail(s)) = Len(s) - 1
  BY <1>1
<1>3. \A i \in 1 .. Len(Tail(s)) : Tail(s)[i] = s[i + 1]
  BY <1>1
<1>4. RunsFrom(Tail(s), n + 1)
  BY <1>1, <1>2, <1>3 DEF RunsFrom
<1> QED
  BY <1>1, <1>2, <1>4 DEF RunsFrom

LEMMA PushRuns ==
    ASSUME NEW n \in Int, NEW s \in Seq(Nat), NEW m \in Nat, m = n + Len(s), RunsFrom(s, n)
    PROVE  /\ s \o <<m>> \in Seq(Nat) /\ Len(s \o <<m>>) = Len(s) + 1 /\ RunsFrom(s \o <<m>>, n)
           /\ Append(s, m) = s \o <<m>>
<1>1. Len(s) \in Nat /\ <<m>> \in Seq(Nat) /\ Len(<<m>>) = 1
  OBVIOUS
<1>2. s \o <<m>> \in Seq(Nat) /\ Len(s \o <<m>>) = Len(s) + 1
  BY <1>1
<1>3. \A i \in 1 .. Len(s) : (s \o <<m>>)[i] = s[i]
  BY <1>1
<1>4. (s \o <<m>>)[Len(s) + 1] = m
  BY <1>1
<1>5. RunsFrom(s \o <<m>>, n)
  BY <1>1, <1>2, <1>3, <1>4 DEF RunsFrom
<1>6. Append(s, m) = s \o <<m>>
  BY AppendIsConcat
<1> QED
  BY <1>2, <1>5, <1>6

-----------------------------------------------------------------------------
(* The table and the tick in progress. *)

SlotRec == [in_use : BOOLEAN, fd : Fds \cup {NoFd}, eof : BOOLEAN, ring : Seq(Nat), latched : BOOLEAN]
TickRec == [at : 0 .. MaxStreams, start : Handles, scratch : Seq(Nat)]

ArbTypes ==
    /\ slots \in [Handles -> SlotRec] /\ fpos \in [Fds -> Nat]
    /\ rotation \in Handles /\ tick \in TickRec

\* The slot s, its file read up to p, d elements of it in the tick's hand.
Lead(s, p, d) == p - Len(s.ring) - d
Good(s, p, d) ==
    /\ Lead(s, p, d) \in Nat /\ RunsFrom(s.ring, Lead(s, p, d)) /\ Len(s.ring) < Depth
    /\ s.latched => s.eof
    /\ s.eof => p = FileLen[s.fd] /\ d = 0

Taken(h) == IF tick.scratch # <<>> /\ At = h THEN 1 ELSE 0
SlotsGood == \A h \in Handles : slots[h].in_use =>
                 slots[h].fd \in Fds /\ Good(slots[h], fpos[slots[h].fd], Taken(h))

\* No two slots read one file.
OwnFiles == \A h, k \in Handles : h # k /\ slots[h].in_use /\ slots[k].in_use => slots[h].fd # slots[k].fd

TickGood ==
    /\ tick.at < MaxStreams => slots[At].in_use
    /\ tick.scratch # <<>> => /\ tick.at < MaxStreams
                              /\ tick.scratch = <<fpos[slots[At].fd] - 1>>
                              /\ Len(slots[At].ring) < Depth - 1

ReadToEnd == \A f \in Fds : fpos[f] <= FileLen[f]

ArbInv == ArbTypes /\ SlotsGood /\ OwnFiles /\ TickGood /\ ReadToEnd

\* The element the consumer of slot h pops next, or will.
NextUp(h) == Lead(slots[h], fpos[slots[h].fd], Taken(h))

-----------------------------------------------------------------------------
(* The guest. *)

GuestRec == [h : Handles \cup {NoHandle}, fd : Fds \cup {NoFd}, first : Nat, got : Seq(Nat),
             answer : {"none", "data", "later", "end"}]
GuestGood ==
    guest.h # NoHandle =>
        /\ guest.h \in Handles /\ slots[guest.h].in_use /\ slots[guest.h].fd = guest.fd
        /\ NextUp(guest.h) = guest.first + Len(guest.got)
        /\ RunsFrom(guest.got, guest.first)
        /\ guest.answer = "end" => slots[guest.h].latched /\ slots[guest.h].ring = <<>>

StreamInv == ArbInv /\ guest \in GuestRec /\ GuestGood
             /\ \A h \in Handles : slots[h].in_use => h = guest.h

-----------------------------------------------------------------------------
(* The player. *)

HookPcs == {"idle", "ready", "kickEof", "kickEmpty", "kickPop", "donePop", "doneEof", "doneEmpty"}
PlayerRec == [active : BOOLEAN, state : {"idle", "playing", "eof"}, h : Handles \cup {NoHandle},
              fd : Fds \cup {NoFd}, kicked : BOOLEAN, sf : Int, cur : Int, started : BOOLEAN,
              preroll : Int, voice : BOOLEAN, stopPending : BOOLEAN, plays : Int]
KernelRec == [pc : HookPcs, ready : BOOLEAN, avail : Nat]

PlayerGood ==
    player.active =>
        /\ player.h \in Handles /\ slots[player.h].in_use /\ slots[player.h].fd = player.fd
        /\ ~player.stopPending
        /\ player.kicked => player.cur = NextUp(player.h) - 1
        /\ player.state = "eof" => /\ slots[player.h].latched /\ slots[player.h].ring = <<>>
                                   /\ player.cur = FileLen[player.fd] - 1
        /\ kernel.pc \in {"donePop", "doneEof", "doneEmpty"} => player.kicked
        /\ kernel.pc = "doneEmpty" => slots[player.h].latched

Blocks == Clips \X Nat
AudioRec == [q : Seq(Blocks), heard : Seq(Blocks), open : BOOLEAN]
AllAudio == audio.heard \o audio.q
AudioGood ==
    /\ \A i \in 1 .. Len(AllAudio) : AllAudio[i][2] < fpos[AllAudio[i][1]]
    /\ \A i, j \in 1 .. Len(AllAudio) :
          i < j /\ AllAudio[i][1] = AllAudio[j][1] => AllAudio[i][2] < AllAudio[j][2]

FmvTypes ==
    /\ player \in PlayerRec /\ kernel \in KernelRec /\ audio \in AudioRec
    /\ worker \in {"tick", "fmv", "guest"}

FmvInv ==
    /\ FmvTypes
    /\ ArbInv /\ guest.h = NoHandle /\ PlayerGood /\ AudioGood
    /\ worker # "tick" => tick.at = MaxStreams

-----------------------------------------------------------------------------
(* What one access does to one slot. *)

LEMMA SlotFields ==
    ASSUME NEW s \in SlotRec
    PROVE  /\ s.ring \in Seq(Nat) /\ Len(s.ring) \in Nat /\ s.fd \in Fds \cup {NoFd}
           /\ s.in_use \in BOOLEAN /\ s.eof \in BOOLEAN /\ s.latched \in BOOLEAN
<1>1. s.ring \in Seq(Nat) /\ s.fd \in Fds \cup {NoFd}
  BY DEF SlotRec
<1>2. s.in_use \in BOOLEAN /\ s.eof \in BOOLEAN /\ s.latched \in BOOLEAN
  BY DEF SlotRec
<1> QED
  BY <1>1, <1>2

LEMMA RingSet ==
    ASSUME NEW s \in SlotRec, NEW q \in Seq(Nat)
    PROVE  \E r \in SlotRec : /\ r = [s EXCEPT !.ring = q] /\ r.ring = q /\ r.fd = s.fd
                              /\ r.in_use = s.in_use /\ r.eof = s.eof /\ r.latched = s.latched
<1> DEFINE r == [s EXCEPT !.ring = q]
<1>1. r \in SlotRec
  BY DEF SlotRec
<1>2. r.ring = q /\ r.fd = s.fd
  BY DEF SlotRec
<1>3. r.in_use = s.in_use /\ r.eof = s.eof /\ r.latched = s.latched
  BY DEF SlotRec
<1> QED
  BY <1>1, <1>2, <1>3

LEMMA EofSet ==
    ASSUME NEW s \in SlotRec
    PROVE  \E r \in SlotRec : /\ r = [s EXCEPT !.eof = TRUE] /\ r.ring = s.ring /\ r.fd = s.fd
                              /\ r.in_use = s.in_use /\ r.eof = TRUE /\ r.latched = s.latched
<1> DEFINE r == [s EXCEPT !.eof = TRUE]
<1>1. r \in SlotRec
  BY DEF SlotRec
<1>2. r.ring = s.ring /\ r.fd = s.fd
  BY DEF SlotRec
<1>3. r.in_use = s.in_use /\ r.eof = TRUE /\ r.latched = s.latched
  BY DEF SlotRec
<1> QED
  BY <1>1, <1>2, <1>3

LEMMA LatchSet ==
    ASSUME NEW s \in SlotRec
    PROVE  \E r \in SlotRec : /\ r = [s EXCEPT !.latched = TRUE] /\ r.ring = s.ring /\ r.fd = s.fd
                              /\ r.in_use = s.in_use /\ r.eof = s.eof /\ r.latched = TRUE
<1> DEFINE r == [s EXCEPT !.latched = TRUE]
<1>1. r \in SlotRec
  BY DEF SlotRec
<1>2. r.ring = s.ring /\ r.fd = s.fd
  BY DEF SlotRec
<1>3. r.in_use = s.in_use /\ r.eof = s.eof /\ r.latched = TRUE
  BY DEF SlotRec
<1> QED
  BY <1>1, <1>2, <1>3

LEMMA NewSlot ==
    ASSUME NEW f \in Fds
    PROVE  \E r \in SlotRec : /\ r = [Unused EXCEPT !.in_use = TRUE, !.fd = f] /\ r.ring = <<>> /\ r.fd = f
                              /\ r.in_use = TRUE /\ r.eof = FALSE /\ r.latched = FALSE
<1> DEFINE r == [Unused EXCEPT !.in_use = TRUE, !.fd = f]
<1>0. <<>> \in Seq(Nat)
  OBVIOUS
<1>1. r \in SlotRec
  BY <1>0 DEF SlotRec, Unused
<1>2. r.ring = <<>> /\ r.fd = f
  BY DEF Unused
<1>3. r.in_use = TRUE /\ r.eof = FALSE /\ r.latched = FALSE
  BY DEF Unused
<1> QED
  BY <1>1, <1>2, <1>3

LEMMA UnusedSlot == Unused \in SlotRec /\ Unused.in_use = FALSE
<1>1. Unused \in SlotRec
  BY EmptyRuns DEF SlotRec, Unused, NoFd
<1>2. Unused.in_use = FALSE
  BY DEF Unused
<1> QED
  BY <1>1, <1>2

LEMMA GoodNew ==
    ASSUME NEW r \in SlotRec, NEW p \in Nat, r.ring = <<>>, r.eof = FALSE, r.latched = FALSE
    PROVE  Good(r, p, 0) /\ Lead(r, p, 0) = p
<1>1. Lead(r, p, 0) = p
  BY EmptyRuns DEF Lead
<1>2. Len(r.ring) < Depth
  BY StreamAssumption, EmptyRuns
<1> QED
  BY <1>1, <1>2, EmptyRuns DEF Good

\* The consumer takes the element that is next.
LEMMA GoodPop ==
    ASSUME NEW s \in SlotRec, NEW r \in SlotRec, NEW p \in Nat, NEW d \in {0, 1}, Good(s, p, d),
           s.ring # <<>>, r.ring = Tail(s.ring), r.fd = s.fd, r.eof = s.eof, r.latched = s.latched
    PROVE  /\ Good(r, p, d) /\ Lead(r, p, d) = Lead(s, p, d) + 1
           /\ Head(s.ring) = Lead(s, p, d) /\ Head(s.ring) \in Nat
<1>1. s.ring \in Seq(Nat) /\ Len(s.ring) \in Nat
  BY SlotFields
<1>2. PICK n \in Nat : n = Lead(s, p, d)
  BY DEF Good
<1>3. RunsFrom(s.ring, n)
  BY <1>2 DEF Good
<1>4. /\ Head(s.ring) = n /\ Tail(s.ring) \in Seq(Nat)
      /\ Len(Tail(s.ring)) = Len(s.ring) - 1 /\ RunsFrom(Tail(s.ring), n + 1)
  <2>1. PICK q \in Seq(Nat) : q = s.ring
    BY <1>1
  <2>2. q # <<>> /\ RunsFrom(q, n) /\ n \in Int
    BY <1>3, <2>1
  <2>3. Head(q) = n /\ Tail(q) \in Seq(Nat) /\ Len(Tail(q)) = Len(q) - 1 /\ RunsFrom(Tail(q), n + 1)
    BY <2>2, PopRuns
  <2> QED
    BY <2>1, <2>3
<1>5. Lead(r, p, d) = n + 1
  <2>1. Len(r.ring) = Len(s.ring) - 1
    BY <1>4
  <2>2. n = p - Len(s.ring) - d
    BY <1>2 DEF Lead
  <2>3. p - (Len(s.ring) - 1) - d = n + 1
    BY <1>1, <2>2
  <2> QED
    BY <2>1, <2>3 DEF Lead
<1>6. /\ r.latched => r.eof
      /\ r.eof => p = FileLen[r.fd] /\ d = 0
  BY DEF Good
<1>7. Len(r.ring) < Depth
  <2>1. Len(s.ring) < Depth /\ Depth \in Nat
    BY StreamAssumption DEF Good
  <2> QED
    BY <1>1, <1>4, <2>1
<1> QED
  BY <1>2, <1>4, <1>5, <1>6, <1>7 DEF Good

\* fill reads the element at the file's position, which was not its end.
LEMMA GoodFill ==
    ASSUME NEW s \in SlotRec, NEW p \in Nat, Good(s, p, 0), ~s.eof
    PROVE  Good(s, p + 1, 1) /\ Lead(s, p + 1, 1) = Lead(s, p, 0)
<1>1. Len(s.ring) \in Nat
  BY SlotFields
<1>2. Lead(s, p + 1, 1) = Lead(s, p, 0)
  BY <1>1 DEF Lead
<1>3. RunsFrom(s.ring, Lead(s, p, 0)) /\ Lead(s, p, 0) \in Nat /\ ~s.latched /\ Len(s.ring) < Depth
  BY DEF Good
<1> QED
  BY <1>2, <1>3 DEF Good

\* And pushes it.
LEMMA GoodPush ==
    ASSUME NEW s \in SlotRec, NEW r \in SlotRec, NEW p \in Nat, Good(s, p, 1), Len(s.ring) < Depth - 1,
           r.ring = s.ring \o <<p - 1>>, r.fd = s.fd, r.eof = s.eof, r.latched = s.latched
    PROVE  /\ Good(r, p, 0) /\ Lead(r, p, 0) = Lead(s, p, 1)
           /\ s.ring \o <<p - 1>> \in Seq(Nat) /\ p > 0
<1>1. s.ring \in Seq(Nat) /\ Len(s.ring) \in Nat
  BY SlotFields
<1>2. PICK n \in Nat : n = Lead(s, p, 1)
  BY DEF Good
<1>3. RunsFrom(s.ring, n)
  BY <1>2 DEF Good
<1>4. p - 1 = n + Len(s.ring) /\ p - 1 \in Nat /\ p > 0
  BY <1>1, <1>2 DEF Lead
<1>5. /\ s.ring \o <<p - 1>> \in Seq(Nat) /\ Len(s.ring \o <<p - 1>>) = Len(s.ring) + 1
      /\ RunsFrom(s.ring \o <<p - 1>>, n)
  <2>1. PICK q \in Seq(Nat) : q = s.ring
    BY <1>1
  <2>2. PICK m \in Nat : m = p - 1
    BY <1>4
  <2>3. m = n + Len(q) /\ RunsFrom(q, n) /\ n \in Int
    BY <1>3, <1>4, <2>1, <2>2
  <2>4. q \o <<m>> \in Seq(Nat) /\ Len(q \o <<m>>) = Len(q) + 1 /\ RunsFrom(q \o <<m>>, n)
    BY <2>3, PushRuns
  <2> QED
    BY <2>1, <2>2, <2>4
<1>6. Lead(r, p, 0) = n
  BY <1>1, <1>4, <1>5 DEF Lead
<1>7. ~s.eof
  BY DEF Good
<1>8. ~r.eof /\ ~r.latched
  BY <1>7 DEF Good
<1>9. Len(r.ring) < Depth
  <2>1. Depth \in Nat
    BY StreamAssumption
  <2> QED
    BY <1>1, <1>5, <2>1
<1> QED
  BY <1>2, <1>4, <1>5, <1>6, <1>8, <1>9 DEF Good

\* The producer finds its file at its end, and later says so.
LEMMA GoodEof ==
    ASSUME NEW s \in SlotRec, NEW r \in SlotRec, NEW p \in Nat, Good(s, p, 0), p = FileLen[s.fd],
           r.ring = s.ring, r.fd = s.fd, r.eof = TRUE
    PROVE  Good(r, p, 0) /\ Lead(r, p, 0) = Lead(s, p, 0)
  BY DEF Good, Lead

-----------------------------------------------------------------------------
(* The ticks. *)

LEMMA HandleMod == ASSUME NEW a \in Nat, NEW b \in Nat PROVE (a + b) % MaxStreams \in Handles
  BY StreamAssumption DEF Handles

LEMMA TickFields ==
    ASSUME NEW t \in TickRec
    PROVE  /\ t.at \in Nat /\ t.at <= MaxStreams /\ t.start \in Handles /\ t.start \in Nat
           /\ t.scratch \in Seq(Nat)
  BY StreamAssumption DEF TickRec, Handles

LEMMA NewTick ==
    ASSUME NEW a \in 0 .. MaxStreams, NEW s \in Handles, NEW q \in Seq(Nat)
    PROVE  [at |-> a, start |-> s, scratch |-> q] \in TickRec
  BY DEF TickRec

\* The next slot in use from a point of the round, or the end of the round.
LEMMA ReachFacts ==
    ASSUME NEW start \in Nat, NEW from \in Nat
    PROVE  /\ Reach(start, from) \in 0 .. MaxStreams
           /\ Reach(start, from) < MaxStreams => slots[(start + Reach(start, from)) % MaxStreams].in_use
<1> DEFINE ahead == {a \in from .. MaxStreams - 1 : slots[(start + a) % MaxStreams].in_use}
<1>1. MaxStreams \in Nat
  BY StreamAssumption
<1>2. CASE ahead = {}
  BY <1>1, <1>2 DEF Reach
<1>3. CASE ahead # {}
  <2>1. ahead \in SUBSET Nat
    OBVIOUS
  <2> DEFINE least == CHOOSE a \in ahead : \A b \in ahead : a <= b
  <2>2. least \in ahead
    <3> HIDE DEF ahead
    <3>1. \E a \in ahead : \A b \in ahead : a <= b
      BY <1>3, <2>1, LeastOf
    <3> QED
      BY <3>1
  <2>3. Reach(start, from) = least
    BY <1>3 DEF Reach
  <2>4. least \in from .. MaxStreams - 1 /\ slots[(start + least) % MaxStreams].in_use
    BY <2>2
  <2> HIDE DEF ahead, least
  <2> QED
    BY <1>1, <2>3, <2>4
<1> QED
  BY <1>2, <1>3

\* The slot the tick has reached.
LEMMA AtFacts ==
    ASSUME ArbInv
    PROVE  /\ At \in Handles /\ slots[At] \in SlotRec /\ tick \in TickRec
           /\ tick.at < MaxStreams => slots[At].in_use /\ slots[At].fd \in Fds
<1>1. tick \in TickRec /\ slots \in [Handles -> SlotRec]
  BY DEF ArbInv, ArbTypes
<1>2. At \in Handles
  BY <1>1, TickFields, HandleMod DEF At
<1> QED
  BY <1>1, <1>2 DEF ArbInv, TickGood, SlotsGood

LEMMA AdvanceFacts ==
    ASSUME tick \in TickRec, tick.at < MaxStreams, tick' = Advance
    PROVE  /\ tick' \in TickRec /\ tick'.scratch = <<>>
           /\ tick'.at < MaxStreams => slots[At'].in_use
<1>1. tick.at + 1 \in Nat /\ tick.start \in Nat /\ tick.start \in Handles
  BY TickFields
<1>2. PICK a \in 0 .. MaxStreams : a = Reach(tick.start, tick.at + 1)
  BY <1>1, ReachFacts
<1>3. a < MaxStreams => slots[(tick.start + a) % MaxStreams].in_use
  BY <1>1, <1>2, ReachFacts
<1>4. <<>> \in Seq(Nat)
  OBVIOUS
<1>5. tick' = [tick EXCEPT !.at = a, !.scratch = <<>>]
  BY <1>2 DEF Advance
<1>6. tick' \in TickRec /\ tick'.at = a /\ tick'.start = tick.start /\ tick'.scratch = <<>>
  BY <1>4, <1>5 DEF TickRec
<1> QED
  BY <1>3, <1>6 DEF At

\* What a step of the tick leaves as it is, seen from a slot's consumer: whose it is, what comes
\* next, and all of it once its end is announced.
Keeps ==
    \A h \in Handles : slots[h].in_use =>
        /\ NextUp(h)' = NextUp(h)
        /\ slots[h].latched => slots'[h].latched /\ slots'[h].ring = slots[h].ring
SameOwners == \A h \in Handles : slots'[h].in_use = slots[h].in_use /\ slots'[h].fd = slots[h].fd

LEMMA SameOwnersInv ==
    ASSUME ArbInv, SameOwners, ArbTypes', TickGood', ReadToEnd',
           \A h \in Handles : slots[h].in_use => Good(slots'[h], fpos'[slots[h].fd], Taken(h)')
    PROVE  ArbInv'
<1>1. SlotsGood'
  BY DEF ArbInv, SlotsGood, SameOwners
<1>2. OwnFiles'
  BY DEF ArbInv, OwnFiles, SameOwners
<1> QED
  BY <1>1, <1>2 DEF ArbInv

LEMMA BeginTick == ASSUME ArbInv, TickBegin PROVE ArbInv' /\ SameOwners /\ Keeps
<1>1. tick \in TickRec /\ rotation \in Handles /\ MaxStreams \in Nat /\ MaxStreams > 0
  BY StreamAssumption DEF ArbInv, ArbTypes
<1>2. rotation \in Nat /\ rotation' \in Handles
  BY <1>1, HandleMod DEF TickBegin, Handles
<1>3. tick.scratch = <<>>
  BY <1>1, TickFields DEF TickBegin, ArbInv, TickGood
<1>4. PICK a \in 0 .. MaxStreams : a = Reach(rotation, 0)
  BY <1>2, ReachFacts
<1>5. a < MaxStreams => slots[(rotation + a) % MaxStreams].in_use
  BY <1>2, <1>4, ReachFacts
<1>6. tick' = [at |-> a, start |-> rotation, scratch |-> <<>>] /\ <<>> \in Seq(Nat)
  BY <1>4 DEF TickBegin
<1>7. tick' \in TickRec /\ tick'.at = a /\ tick'.start = rotation /\ tick'.scratch = <<>>
  <2>1. tick' \in TickRec
    BY <1>1, <1>6, NewTick
  <2> QED
    BY <1>6, <2>1
<1>8. slots' = slots /\ fpos' = fpos
  BY DEF TickBegin
<1>9. \A h \in Handles : Taken(h) = 0 /\ Taken(h)' = 0
  BY <1>3, <1>7 DEF Taken
<1>10. TickGood'
  BY <1>5, <1>7, <1>8 DEF TickGood, At
<1>11. ArbTypes' /\ ReadToEnd'
  BY <1>2, <1>7, <1>8 DEF ArbInv, ArbTypes, ReadToEnd
<1>12. SameOwners
  BY <1>8 DEF SameOwners
<1>13. \A h \in Handles : slots[h].in_use => Good(slots'[h], fpos'[slots[h].fd], Taken(h)')
  BY <1>8, <1>9 DEF ArbInv, SlotsGood
<1>14. Keeps
  BY <1>8, <1>9 DEF Keeps, NextUp
<1> QED
  BY <1>10, <1>11, <1>12, <1>13, <1>14, SameOwnersInv

\* A step that ends with the tick further on and nothing in its hand.
LEMMA AdvanceInv ==
    ASSUME ArbInv, tick.at < MaxStreams, tick' = Advance, fpos' = fpos, rotation' = rotation,
           slots' \in [Handles -> SlotRec], SameOwners,
           \A h \in Handles : slots[h].in_use =>
               /\ Good(slots'[h], fpos[slots[h].fd], 0)
               /\ Lead(slots'[h], fpos[slots[h].fd], 0) = NextUp(h)
               /\ slots[h].latched => slots'[h].latched /\ slots'[h].ring = slots[h].ring
    PROVE  ArbInv' /\ Keeps
<1>1. /\ tick' \in TickRec /\ tick'.scratch = <<>>
      /\ tick'.at < MaxStreams => slots[At'].in_use
  BY AtFacts, AdvanceFacts
<1>2. \A h \in Handles : Taken(h)' = 0
  BY <1>1 DEF Taken
<1>3. At' \in Handles
  <2>1. tick'.start \in Nat /\ tick'.at \in Nat
    BY <1>1, TickFields
  <2> QED
    BY <2>1, HandleMod DEF At
<1>4. TickGood'
  BY <1>1, <1>3 DEF TickGood, SameOwners
<1>5. ArbTypes' /\ ReadToEnd'
  BY <1>1 DEF ArbInv, ArbTypes, ReadToEnd
<1>6. \A h \in Handles : slots[h].in_use => Good(slots'[h], fpos'[slots[h].fd], Taken(h)')
  BY <1>2
<1>7. Keeps
  <2>1. ASSUME NEW h \in Handles, slots[h].in_use
        PROVE  NextUp(h)' = NextUp(h)
    <3>1. slots'[h].fd = slots[h].fd /\ Taken(h)' = 0
      BY <1>2 DEF SameOwners
    <3>2. Lead(slots'[h], fpos[slots[h].fd], 0) = NextUp(h)
      BY <2>1
    <3>3. NextUp(h)' = Lead(slots'[h], fpos'[slots'[h].fd], Taken(h)')
      BY DEF NextUp
    <3> QED
      BY <3>1, <3>2, <3>3
  <2> QED
    BY <2>1 DEF Keeps
<1> QED
  BY <1>4, <1>5, <1>6, <1>7, SameOwnersInv

LEMMA SkipTick == ASSUME ArbInv, TickSkip PROVE ArbInv' /\ SameOwners /\ Keeps
<1>1. /\ tick.at < MaxStreams /\ tick.scratch = <<>> /\ tick' = Advance
      /\ slots' = slots /\ fpos' = fpos /\ rotation' = rotation
  BY DEF TickSkip
<1>2. slots' \in [Handles -> SlotRec] /\ SameOwners
  BY <1>1 DEF ArbInv, ArbTypes, SameOwners
<1>3. \A h \in Handles : Taken(h) = 0
  BY <1>1 DEF Taken
<1>4. \A h \in Handles : slots[h].in_use =>
               /\ Good(slots'[h], fpos[slots[h].fd], 0)
               /\ Lead(slots'[h], fpos[slots[h].fd], 0) = NextUp(h)
               /\ slots[h].latched => slots'[h].latched /\ slots'[h].ring = slots[h].ring
  BY <1>1, <1>3 DEF ArbInv, SlotsGood, NextUp
<1> QED
  BY <1>1, <1>2, <1>4, AdvanceInv

\* One slot becomes r.
LEMMA OneSlot ==
    ASSUME slots \in [Handles -> SlotRec], NEW h \in Handles, NEW r \in SlotRec,
           slots' = [slots EXCEPT ![h] = r]
    PROVE  /\ slots' \in [Handles -> SlotRec] /\ slots'[h] = r
           /\ \A k \in Handles : k # h => slots'[k] = slots[k]
  OBVIOUS

LEMMA LatchTick == ASSUME ArbInv, TickLatch PROVE ArbInv' /\ SameOwners /\ Keeps
<1>1. /\ tick.at < MaxStreams /\ tick.scratch = <<>> /\ tick' = Advance
      /\ slots[At].eof /\ ~slots[At].latched
      /\ slots' = [slots EXCEPT ![At].latched = TRUE] /\ fpos' = fpos /\ rotation' = rotation
  BY DEF TickLatch
<1>2. PICK a \in Handles : a = At
  BY AtFacts
<1>3. PICK s \in SlotRec : s = slots[a]
  BY <1>2, AtFacts
<1>4. slots \in [Handles -> SlotRec]
  BY DEF ArbInv, ArbTypes
<1>5. PICK r \in SlotRec : /\ r = [s EXCEPT !.latched = TRUE] /\ r.ring = s.ring /\ r.fd = s.fd
                           /\ r.in_use = s.in_use /\ r.eof = s.eof /\ r.latched = TRUE
  BY LatchSet
<1>6. slots' = [slots EXCEPT ![a] = r]
  BY <1>1, <1>2, <1>3, <1>5
<1>7. /\ slots' \in [Handles -> SlotRec] /\ slots'[a] = r
      /\ \A k \in Handles : k # a => slots'[k] = slots[k]
  BY <1>4, <1>6, OneSlot
<1>8. SameOwners
  BY <1>3, <1>5, <1>7 DEF SameOwners
<1>9. \A h \in Handles : Taken(h) = 0
  BY <1>1 DEF Taken
<1>10. ASSUME NEW h \in Handles, slots[h].in_use
       PROVE  /\ Good(slots'[h], fpos[slots[h].fd], 0)
              /\ Lead(slots'[h], fpos[slots[h].fd], 0) = NextUp(h)
              /\ slots[h].latched => slots'[h].latched /\ slots'[h].ring = slots[h].ring
  <2>1. Good(slots[h], fpos[slots[h].fd], 0) /\ NextUp(h) = Lead(slots[h], fpos[slots[h].fd], 0)
    BY <1>9, <1>10 DEF ArbInv, SlotsGood, NextUp
  <2>2. CASE h # a
    BY <1>7, <2>1, <2>2
  <2>3. CASE h = a
    <3>1. s.eof /\ slots[h] = s /\ slots'[h] = r
      BY <1>1, <1>2, <1>3, <1>7, <2>3
    <3>2. r.latched => r.eof
      BY <1>5, <3>1
    <3>3. Lead(r, fpos[s.fd], 0) = Lead(s, fpos[s.fd], 0)
      BY <1>5 DEF Lead
    <3>4. Good(r, fpos[s.fd], 0)
      BY <1>5, <2>1, <3>1, <3>2, <3>3 DEF Good
    <3> QED
      BY <1>5, <2>1, <3>1, <3>3, <3>4
  <2> QED
    BY <2>2, <2>3
<1> QED
  BY <1>1, <1>7, <1>8, <1>10, AdvanceInv

LEMMA PushTick == ASSUME ArbInv, TickPush PROVE ArbInv' /\ SameOwners /\ Keeps
<1>1. /\ tick.at < MaxStreams /\ tick.scratch # <<>> /\ tick' = Advance
      /\ fpos' = fpos /\ rotation' = rotation
  BY DEF TickPush
<1>2. PICK a \in Handles : a = At
  BY AtFacts
<1>3. PICK s \in SlotRec : s = slots[a]
  BY <1>2, AtFacts
<1>4. slots \in [Handles -> SlotRec] /\ s.in_use /\ s.fd \in Fds
  BY <1>1, <1>2, <1>3, AtFacts DEF ArbInv, ArbTypes
<1>5. PICK p \in Nat : p = fpos[s.fd]
  BY <1>4 DEF ArbInv, ArbTypes
<1>6. tick.scratch = <<p - 1>> /\ Len(s.ring) < Depth - 1
  BY <1>1, <1>2, <1>3, <1>5 DEF ArbInv, TickGood
<1>7. Taken(a) = 1 /\ \A h \in Handles : h # a => Taken(h) = 0
  BY <1>1, <1>2 DEF Taken
<1>8. Good(s, p, 1) /\ NextUp(a) = Lead(s, p, 1)
  BY <1>3, <1>4, <1>5, <1>7 DEF ArbInv, SlotsGood, NextUp
<1>9. PICK q \in Seq(Nat) : q = s.ring \o <<p - 1>>
  <2>1. s.ring \in Seq(Nat) /\ Len(s.ring) \in Nat
    BY SlotFields
  <2>2. p - 1 \in Nat
    BY <1>8, <2>1 DEF Good, Lead
  <2>3. PICK m \in Nat : m = p - 1
    BY <2>2
  <2>4. s.ring \o <<m>> \in Seq(Nat)
    BY <2>1
  <2> QED
    BY <2>3, <2>4
<1>10. PICK r \in SlotRec : /\ r = [s EXCEPT !.ring = q] /\ r.ring = q /\ r.fd = s.fd
                            /\ r.in_use = s.in_use /\ r.eof = s.eof /\ r.latched = s.latched
  BY RingSet
<1>11. slots' = [slots EXCEPT ![a] = r]
  <2>1. slots' = [slots EXCEPT ![a].ring = IF Len(@) < Depth - 1 THEN @ \o <<p - 1>> ELSE @]
    BY <1>2, <1>6 DEF TickPush
  <2>2. slots' = [slots EXCEPT ![a].ring = q]
    BY <1>3, <1>4, <1>6, <1>9, <2>1
  <2> QED
    BY <1>3, <1>10, <2>2
<1>12. /\ slots' \in [Handles -> SlotRec] /\ slots'[a] = r
       /\ \A k \in Handles : k # a => slots'[k] = slots[k]
  BY <1>4, <1>11, OneSlot
<1>13. SameOwners
  BY <1>3, <1>10, <1>12 DEF SameOwners
<1>14. Good(r, p, 0) /\ Lead(r, p, 0) = Lead(s, p, 1) /\ ~s.latched
  <2>1. ~s.latched
    BY <1>8 DEF Good
  <2> QED
    BY <1>6, <1>8, <1>9, <1>10, <2>1, GoodPush
<1>15. ASSUME NEW h \in Handles, slots[h].in_use
       PROVE  /\ Good(slots'[h], fpos[slots[h].fd], 0)
              /\ Lead(slots'[h], fpos[slots[h].fd], 0) = NextUp(h)
              /\ slots[h].latched => slots'[h].latched /\ slots'[h].ring = slots[h].ring
  <2>1. CASE h # a
    <3>1. Good(slots[h], fpos[slots[h].fd], 0) /\ NextUp(h) = Lead(slots[h], fpos[slots[h].fd], 0)
      BY <1>7, <1>15, <2>1 DEF ArbInv, SlotsGood, NextUp
    <3> QED
      BY <1>12, <2>1, <3>1
  <2>2. CASE h = a
    BY <1>3, <1>5, <1>8, <1>12, <1>14, <2>2
  <2> QED
    BY <2>1, <2>2
<1> QED
  BY <1>1, <1>12, <1>13, <1>15, AdvanceInv

\* fill finds an element to read.
LEMMA ReadTick ==
    ASSUME ArbInv, TickFill, fpos[slots[At].fd] < FileLen[slots[At].fd]
    PROVE  ArbInv' /\ SameOwners /\ Keeps
<1>1. /\ tick.at < MaxStreams /\ tick.scratch = <<>>
      /\ ~slots[At].eof /\ Len(slots[At].ring) # Depth - 1
      /\ tick' = [tick EXCEPT !.scratch = <<fpos[slots[At].fd]>>]
      /\ fpos' = [fpos EXCEPT ![slots[At].fd] = @ + 1]
      /\ slots' = slots /\ rotation' = rotation
  BY DEF TickFill, spsc_ring_full
<1>2. PICK a \in Handles : a = At
  BY AtFacts
<1>3. PICK s \in SlotRec : s = slots[a]
  BY <1>2, AtFacts
<1>4. slots \in [Handles -> SlotRec] /\ fpos \in [Fds -> Nat] /\ tick \in TickRec
  BY DEF ArbInv, ArbTypes
<1>5. s.in_use /\ s.fd \in Fds
  BY <1>1, <1>2, <1>3, AtFacts
<1>6. PICK f \in Fds : f = s.fd
  BY <1>5
<1>7. PICK p \in Nat : p = fpos[f]
  BY <1>4
<1>8. fpos' \in [Fds -> Nat] /\ fpos'[f] = p + 1 /\ \A g \in Fds : g # f => fpos'[g] = fpos[g]
  BY <1>1, <1>2, <1>3, <1>4, <1>6, <1>7
<1>9. tick' \in TickRec /\ tick'.at = tick.at /\ tick'.start = tick.start /\ tick'.scratch = <<p>>
  <2>1. <<p>> \in Seq(Nat) /\ tick' = [tick EXCEPT !.scratch = <<p>>]
    BY <1>1, <1>2, <1>3, <1>6, <1>7
  <2> QED
    BY <1>4, <2>1 DEF TickRec
<1>10. At' = a
  BY <1>2, <1>9 DEF At
<1>11. /\ \A h \in Handles : Taken(h) = 0
       /\ Taken(a)' = 1 /\ \A h \in Handles : h # a => Taken(h)' = 0
  <2>1. tick'.scratch # <<>>
    BY <1>9
  <2> QED
    BY <1>1, <1>10, <2>1 DEF Taken
<1>12. Len(s.ring) < Depth - 1
  <2>1. PICK n \in Nat : n = Len(s.ring)
    BY SlotFields
  <2>2. n # Depth - 1 /\ Depth \in Nat
    BY <1>1, <1>2, <1>3, <2>1, StreamAssumption
  <2>3. n < Depth
    BY <1>2, <1>3, <1>5, <2>1 DEF ArbInv, SlotsGood, Good
  <2> QED
    BY <2>1, <2>2, <2>3
<1>13. TickGood'
  <2>1. slots'[a].fd = f /\ fpos'[f] - 1 = p /\ slots'[a].in_use /\ slots'[a].ring = s.ring
    BY <1>1, <1>3, <1>5, <1>6, <1>8
  <2> QED
    BY <1>1, <1>9, <1>10, <1>12, <2>1 DEF TickGood
<1>14. ArbTypes'
  BY <1>1, <1>4, <1>8, <1>9 DEF ArbInv, ArbTypes
<1>15. ReadToEnd'
  <2>1. p < FileLen[f] /\ FileLen[f] \in Nat
    BY <1>2, <1>3, <1>6, <1>7, StreamAssumption DEF Fds
  <2>2. fpos'[f] <= FileLen[f]
    BY <1>8, <2>1
  <2> QED
    BY <1>8, <2>2 DEF ArbInv, ReadToEnd
<1>16. SameOwners
  BY <1>1 DEF SameOwners
<1>17. ASSUME NEW h \in Handles, slots[h].in_use
       PROVE  /\ Good(slots'[h], fpos'[slots[h].fd], Taken(h)') /\ NextUp(h)' = NextUp(h)
              /\ slots[h].latched => slots'[h].latched /\ slots'[h].ring = slots[h].ring
  <2>1. /\ slots[h].fd \in Fds /\ Good(slots[h], fpos[slots[h].fd], 0)
        /\ NextUp(h) = Lead(slots[h], fpos[slots[h].fd], 0)
    BY <1>11, <1>17 DEF ArbInv, SlotsGood, NextUp
  <2>2. NextUp(h)' = Lead(slots'[h], fpos'[slots'[h].fd], Taken(h)')
    BY DEF NextUp
  <2>3. CASE h # a
    <3>1. slots[h].fd # f
      BY <1>3, <1>5, <1>6, <1>17, <2>3 DEF ArbInv, OwnFiles
    <3> QED
      BY <1>1, <1>8, <1>11, <2>1, <2>2, <2>3, <3>1
  <2>4. CASE h = a
    <3>1. Good(s, p, 0) /\ ~s.eof
      BY <1>1, <1>2, <1>3, <1>6, <1>7, <2>1, <2>4
    <3>2. Good(s, p + 1, 1) /\ Lead(s, p + 1, 1) = Lead(s, p, 0)
      BY <3>1, GoodFill
    <3> QED
      BY <1>1, <1>3, <1>6, <1>7, <1>8, <1>11, <2>1, <2>2, <2>4, <3>2
  <2> QED
    BY <2>3, <2>4
<1> QED
  BY <1>13, <1>14, <1>15, <1>16, <1>17, SameOwnersInv DEF Keeps

\* fill finds the file at its end.
LEMMA EofTick ==
    ASSUME ArbInv, TickFill, ~(fpos[slots[At].fd] < FileLen[slots[At].fd])
    PROVE  ArbInv' /\ SameOwners /\ Keeps
<1>1. /\ tick.at < MaxStreams /\ tick.scratch = <<>>
      /\ slots' = [slots EXCEPT ![At].eof = TRUE]
      /\ fpos' = fpos /\ rotation' = rotation /\ tick' = tick
  BY DEF TickFill
<1>2. PICK a \in Handles : a = At
  BY AtFacts
<1>3. PICK s \in SlotRec : s = slots[a]
  BY <1>2, AtFacts
<1>4. slots \in [Handles -> SlotRec] /\ fpos \in [Fds -> Nat]
  BY DEF ArbInv, ArbTypes
<1>5. s.in_use /\ s.fd \in Fds
  BY <1>1, <1>2, <1>3, AtFacts
<1>6. PICK p \in Nat : p = fpos[s.fd]
  BY <1>4, <1>5
<1>7. p = FileLen[s.fd]
  <2>1. FileLen[s.fd] \in Nat /\ p <= FileLen[s.fd] /\ ~(p < FileLen[s.fd])
    BY <1>2, <1>3, <1>5, <1>6, StreamAssumption DEF ArbInv, ReadToEnd, Fds
  <2> QED
    BY <2>1
<1>8. PICK r \in SlotRec : /\ r = [s EXCEPT !.eof = TRUE] /\ r.ring = s.ring /\ r.fd = s.fd
                           /\ r.in_use = s.in_use /\ r.eof = TRUE /\ r.latched = s.latched
  BY EofSet
<1>9. slots' = [slots EXCEPT ![a] = r]
  BY <1>1, <1>2, <1>3, <1>8
<1>10. /\ slots' \in [Handles -> SlotRec] /\ slots'[a] = r
       /\ \A k \in Handles : k # a => slots'[k] = slots[k]
  BY <1>4, <1>9, OneSlot
<1>11. SameOwners
  BY <1>3, <1>8, <1>10 DEF SameOwners
<1>12. \A h \in Handles : Taken(h) = 0 /\ Taken(h)' = 0
  BY <1>1 DEF Taken
<1>13. At' = At
  BY <1>1 DEF At
<1>14. TickGood'
  BY <1>1, <1>2, <1>3, <1>5, <1>8, <1>10, <1>13 DEF TickGood
<1>15. ArbTypes' /\ ReadToEnd'
  BY <1>1, <1>10 DEF ArbInv, ArbTypes, ReadToEnd
<1>16. ASSUME NEW h \in Handles, slots[h].in_use
       PROVE  /\ Good(slots'[h], fpos'[slots[h].fd], Taken(h)') /\ NextUp(h)' = NextUp(h)
              /\ slots[h].latched => slots'[h].latched /\ slots'[h].ring = slots[h].ring
  <2>1. /\ Good(slots[h], fpos[slots[h].fd], 0)
        /\ NextUp(h) = Lead(slots[h], fpos[slots[h].fd], 0)
    BY <1>12, <1>16 DEF ArbInv, SlotsGood, NextUp
  <2>2. NextUp(h)' = Lead(slots'[h], fpos'[slots'[h].fd], Taken(h)')
    BY DEF NextUp
  <2>3. CASE h # a
    BY <1>1, <1>10, <1>12, <2>1, <2>2, <2>3
  <2>4. CASE h = a
    <3>1. Good(s, p, 0)
      BY <1>3, <1>6, <2>1, <2>4
    <3>2. Good(r, p, 0) /\ Lead(r, p, 0) = Lead(s, p, 0)
      BY <1>7, <1>8, <3>1, GoodEof
    <3> QED
      BY <1>1, <1>3, <1>6, <1>8, <1>10, <1>12, <2>1, <2>2, <2>4, <3>2
  <2> QED
    BY <2>3, <2>4
<1> QED
  BY <1>11, <1>14, <1>15, <1>16, SameOwnersInv DEF Keeps

LEMMA TickInv == ASSUME ArbInv, stream_arbiter_tick PROVE ArbInv' /\ SameOwners /\ Keeps
  BY BeginTick, SkipTick, ReadTick, EofTick, PushTick, LatchTick DEF stream_arbiter_tick

-----------------------------------------------------------------------------
(* What consumers do to the table. *)

LEMMA PopInv ==
    ASSUME ArbInv, NEW h \in Handles, slots[h].in_use, slots[h].ring # <<>>,
           slots' = [slots EXCEPT ![h].ring = Tail(@)], UNCHANGED <<fpos, rotation, tick>>
    PROVE  /\ ArbInv' /\ SameOwners
           /\ Head(slots[h].ring) = NextUp(h) /\ NextUp(h) \in Nat /\ NextUp(h)' = NextUp(h) + 1
           /\ slots'[h].latched = slots[h].latched
           /\ \A k \in Handles : k # h => slots'[k] = slots[k]
<1>1. slots \in [Handles -> SlotRec] /\ fpos \in [Fds -> Nat]
  BY DEF ArbInv, ArbTypes
<1>2. PICK s \in SlotRec : s = slots[h]
  BY <1>1
<1>3. PICK q \in Seq(Nat) : q = Tail(s.ring)
  <2>1. s.ring \in Seq(Nat) /\ s.ring # <<>>
    BY <1>2, SlotFields
  <2>2. Tail(s.ring) \in Seq(Nat)
    BY <2>1
  <2> QED
    BY <2>2
<1>4. PICK r \in SlotRec : /\ r = [s EXCEPT !.ring = q] /\ r.ring = q /\ r.fd = s.fd
                           /\ r.in_use = s.in_use /\ r.eof = s.eof /\ r.latched = s.latched
  BY RingSet
<1>5. slots' = [slots EXCEPT ![h] = r]
  BY <1>2, <1>3, <1>4
<1>6. /\ slots' \in [Handles -> SlotRec] /\ slots'[h] = r
      /\ \A k \in Handles : k # h => slots'[k] = slots[k]
  BY <1>1, <1>5, OneSlot
<1>7. SameOwners
  BY <1>2, <1>4, <1>6 DEF SameOwners
<1>8. At' = At /\ \A k \in Handles : Taken(k)' = Taken(k)
  BY DEF At, Taken
<1>9. s.fd \in Fds /\ s.in_use
  BY <1>2 DEF ArbInv, SlotsGood
<1>10. PICK p \in Nat : p = fpos[s.fd]
  BY <1>1, <1>9
<1>11. PICK d \in {0, 1} : d = Taken(h)
  BY DEF Taken
<1>12. Good(s, p, d) /\ NextUp(h) = Lead(s, p, d)
  BY <1>2, <1>10, <1>11 DEF ArbInv, SlotsGood, NextUp
<1>13. s.ring # <<>>
  BY <1>2
<1>14. /\ Good(r, p, d) /\ Lead(r, p, d) = Lead(s, p, d) + 1
       /\ Head(s.ring) = Lead(s, p, d) /\ Head(s.ring) \in Nat
  <2>1. r.ring = Tail(s.ring)
    BY <1>3, <1>4
  <2>2. r.fd = s.fd /\ r.eof = s.eof /\ r.latched = s.latched
    BY <1>4
  <2> QED
    BY <1>12, <1>13, <2>1, <2>2, GoodPop
<1>15. NextUp(h)' = Lead(slots'[h], fpos'[slots'[h].fd], Taken(h)')
  BY DEF NextUp
<1>16. NextUp(h)' = Lead(r, p, d)
  BY <1>4, <1>6, <1>8, <1>10, <1>11, <1>15
<1>17. \A k \in Handles : slots[k].in_use => Good(slots'[k], fpos'[slots[k].fd], Taken(k)')
  <2>1. ASSUME NEW k \in Handles, slots[k].in_use, k # h
        PROVE  Good(slots'[k], fpos'[slots[k].fd], Taken(k)')
    BY <1>6, <1>8, <2>1 DEF ArbInv, SlotsGood
  <2>2. Good(slots'[h], fpos'[slots[h].fd], Taken(h)')
    BY <1>2, <1>6, <1>8, <1>10, <1>11, <1>14
  <2> QED
    BY <2>1, <2>2
<1>18. Len(q) <= Len(s.ring)
  <2>1. s.ring \in Seq(Nat) /\ s.ring # <<>>
    BY <1>2, SlotFields
  <2>2. Len(q) = Len(s.ring) - 1 /\ Len(s.ring) \in Nat
    BY <1>3, <2>1
  <2> QED
    BY <2>2
<1>19. TickGood'
  <2>1. At \in Handles /\ slots[At] \in SlotRec
    BY AtFacts
  <2>2. slots'[At].in_use = slots[At].in_use /\ slots'[At].fd = slots[At].fd
    BY <1>7, <2>1 DEF SameOwners
  <2>3. Len(slots[At].ring) < Depth - 1 => Len(slots'[At].ring) < Depth - 1
    <3>1. Len(q) \in Nat /\ Len(s.ring) \in Nat /\ Depth \in Nat
      BY SlotFields, StreamAssumption
    <3>2. CASE At = h
      BY <1>2, <1>4, <1>6, <1>18, <3>1, <3>2
    <3>3. CASE At # h
      BY <1>6, <2>1, <3>3
    <3> QED
      BY <3>2, <3>3
  <2>4. tick' = tick /\ fpos' = fpos
    OBVIOUS
  <2> QED
    BY <1>8, <2>2, <2>3, <2>4 DEF ArbInv, TickGood
<1>20. ArbTypes' /\ ReadToEnd'
  BY <1>6 DEF ArbInv, ArbTypes, ReadToEnd
<1>21. ArbInv'
  BY <1>7, <1>17, <1>19, <1>20, SameOwnersInv
<1> QED
  BY <1>2, <1>4, <1>6, <1>7, <1>12, <1>14, <1>16, <1>21

\* Between ticks the tick holds nothing.
LEMMA BetweenTicks ==
    ASSUME ArbInv, tick.at = MaxStreams
    PROVE  tick.scratch = <<>> /\ \A k \in Handles : Taken(k) = 0
<1>1. tick.scratch = <<>>
  BY StreamAssumption DEF ArbInv, TickGood
<1> QED
  BY <1>1 DEF Taken

\* Slots are given back, and one may be taken for the file f, from its start or from where it is.
LEMMA OwnersInv ==
    ASSUME ArbInv, tick.at = MaxStreams, UNCHANGED <<rotation, tick>>, NEW f \in Fds, NEW h \in Handles,
           slots' \in [Handles -> SlotRec], fpos' \in [Fds -> Nat],
           fpos'[f] = fpos[f] \/ fpos'[f] = 0, \A g \in Fds : g # f => fpos'[g] = fpos[g],
           \A k \in Handles : k # h => slots'[k] = slots[k] \/ slots'[k] = Unused,
           \A k \in Handles : k # h /\ slots[k].in_use => slots[k].fd # f,
           slots'[h].in_use = TRUE, slots'[h].fd = f, slots'[h].ring = <<>>,
           slots'[h].eof = FALSE, slots'[h].latched = FALSE
    PROVE  /\ ArbInv' /\ slots'[h].in_use /\ slots'[h].fd = f /\ NextUp(h)' = fpos'[f]
           /\ ~slots'[h].latched /\ slots'[h].ring = <<>>
<1>1. PICK r \in SlotRec : r = slots'[h]
  OBVIOUS
<1>2. /\ r.ring = <<>> /\ r.fd = f
      /\ r.in_use = TRUE /\ r.eof = FALSE /\ r.latched = FALSE
  BY <1>1
<1>3. PICK p \in Nat : p = fpos'[f]
  OBVIOUS
<1>4. Good(r, p, 0) /\ Lead(r, p, 0) = p
  BY <1>2, GoodNew
<1>5. tick.scratch = <<>> /\ tick'.scratch = <<>>
  BY BetweenTicks
<1>6. \A k \in Handles : Taken(k) = 0 /\ Taken(k)' = 0
  BY <1>5 DEF Taken
<1>7. ASSUME NEW k \in Handles, k # h, slots'[k].in_use
      PROVE  slots'[k] = slots[k] /\ slots[k].in_use /\ slots[k].fd # f
  BY <1>7, UnusedSlot
<1>8. SlotsGood'
  <2>1. ASSUME NEW k \in Handles, k # h, slots'[k].in_use
        PROVE  slots'[k].fd \in Fds /\ Good(slots'[k], fpos'[slots'[k].fd], Taken(k)')
    <3>1. slots[k].fd \in Fds /\ Good(slots[k], fpos[slots[k].fd], 0)
      BY <1>6, <1>7, <2>1 DEF ArbInv, SlotsGood
    <3> QED
      BY <1>6, <1>7, <2>1, <3>1
  <2>2. slots'[h].fd \in Fds /\ Good(slots'[h], fpos'[slots'[h].fd], Taken(h)')
    BY <1>1, <1>2, <1>3, <1>4, <1>6
  <2> QED
    BY <2>1, <2>2 DEF SlotsGood
<1>9. OwnFiles'
  <2>1. ASSUME NEW k \in Handles, NEW m \in Handles, k # m, slots'[k].in_use, slots'[m].in_use
        PROVE  slots'[k].fd # slots'[m].fd
    <3>1. slots'[h].fd = f
      BY <1>1, <1>2
    <3>2. CASE k = h
      BY <1>7, <2>1, <3>1, <3>2
    <3>3. CASE m = h
      BY <1>7, <2>1, <3>1, <3>3
    <3>4. CASE k # h /\ m # h
      BY <1>7, <2>1, <3>4 DEF ArbInv, OwnFiles
    <3> QED
      BY <3>2, <3>3, <3>4
  <2> QED
    BY <2>1 DEF OwnFiles
<1>10. TickGood'
  BY <1>5, StreamAssumption DEF TickGood
<1>11. ArbTypes' /\ ReadToEnd'
  BY StreamAssumption DEF ArbInv, ArbTypes, ReadToEnd, Fds
<1>12. NextUp(h)' = Lead(slots'[h], fpos'[slots'[h].fd], Taken(h)')
  BY DEF NextUp
<1> QED
  BY <1>1, <1>2, <1>3, <1>4, <1>6, <1>8, <1>9, <1>10, <1>11, <1>12 DEF ArbInv

LEMMA ReleaseInv ==
    ASSUME ArbInv, tick.at = MaxStreams, UNCHANGED <<rotation, tick, fpos>>, NEW h,
           slots' = stream_arbiter_unregister(slots, h)
    PROVE  /\ ArbInv' /\ \A k \in Handles : k # h => slots'[k] = slots[k]
           /\ h \in Handles => ~slots'[h].in_use
<1>1. slots \in [Handles -> SlotRec]
  BY DEF ArbInv, ArbTypes
<1>2. /\ slots' \in [Handles -> SlotRec]
      /\ \A k \in Handles : slots'[k] = slots[k] \/ slots'[k] = Unused
      /\ \A k \in Handles : k # h => slots'[k] = slots[k]
      /\ h \in Handles => slots'[h] = Unused \/ (slots'[h] = slots[h] /\ ~slots[h].in_use)
  BY <1>1, UnusedSlot DEF stream_arbiter_unregister
<1>3. tick.scratch = <<>> /\ tick'.scratch = <<>>
  BY BetweenTicks
<1>4. \A k \in Handles : Taken(k)' = Taken(k)
  BY <1>3 DEF Taken
<1>5. \A k \in Handles : slots'[k].in_use => slots'[k] = slots[k] /\ slots[k].in_use
  BY <1>2, UnusedSlot
<1>6. SlotsGood'
  BY <1>4, <1>5 DEF ArbInv, SlotsGood
<1>7. OwnFiles'
  BY <1>5 DEF ArbInv, OwnFiles
<1>8. TickGood'
  BY <1>3, StreamAssumption DEF TickGood
<1>9. ArbTypes' /\ ReadToEnd'
  BY <1>2 DEF ArbInv, ArbTypes, ReadToEnd
<1>10. h \in Handles => ~slots'[h].in_use
  BY <1>2, UnusedSlot
<1> QED
  BY <1>2, <1>6, <1>7, <1>8, <1>9, <1>10 DEF ArbInv

LEMMA LowestOf ==
    ASSUME NEW S \in SUBSET Handles, S # {}
    PROVE  (CHOOSE h \in S : \A k \in S : h <= k) \in S
<1>1. S \in SUBSET Nat
  BY DEF Handles
<1>2. \E h \in S : \A k \in S : h <= k
  BY <1>1, LeastOf
<1> QED
  BY <1>2

-----------------------------------------------------------------------------
(* The guest's stream. *)

LEMMA ArbInitInv ==
    stream_arbiter_init => ArbInv /\ guest.h = NoHandle /\ guest \in GuestRec
                           /\ \A h \in Handles : ~slots[h].in_use
<1> SUFFICES ASSUME stream_arbiter_init
             PROVE  ArbInv /\ guest.h = NoHandle /\ guest \in GuestRec
                    /\ \A h \in Handles : ~slots[h].in_use
  OBVIOUS
<1>1. slots \in [Handles -> SlotRec] /\ \A h \in Handles : ~slots[h].in_use
  BY UnusedSlot DEF stream_arbiter_init
<1>2. fpos \in [Fds -> Nat] /\ rotation \in Handles /\ ReadToEnd
  BY StreamAssumption DEF stream_arbiter_init, Handles, ReadToEnd, Fds
<1>3. tick \in TickRec /\ tick.at = MaxStreams /\ tick.scratch = <<>>
  <2>1. 0 \in Handles /\ MaxStreams \in 0 .. MaxStreams /\ <<>> \in Seq(Nat)
    BY StreamAssumption DEF Handles
  <2>2. tick = [at |-> MaxStreams, start |-> 0, scratch |-> <<>>]
    BY DEF stream_arbiter_init, Idle
  <2>3. tick \in TickRec
    BY <2>1, <2>2, NewTick
  <2> QED
    BY <2>2, <2>3
<1>4. TickGood
  BY <1>3, StreamAssumption DEF TickGood
<1>5. guest = NoGuest
  BY DEF stream_arbiter_init
<1>6. <<>> \in Seq(Nat)
  OBVIOUS
<1>7. guest.h = NoHandle /\ guest \in GuestRec
  BY <1>5, <1>6 DEF NoGuest, GuestRec
<1> QED
  BY <1>1, <1>2, <1>3, <1>4, <1>7 DEF ArbInv, ArbTypes, SlotsGood, OwnFiles

LEMMA StreamInitInv == stream_arbiter_init => StreamInv
  BY ArbInitInv DEF StreamInv, GuestGood

LEMMA GuestFields ==
    ASSUME NEW g \in GuestRec
    PROVE  g.h \in Handles \cup {NoHandle} /\ g.first \in Nat /\ g.got \in Seq(Nat) /\ Len(g.got) \in Nat
  BY DEF GuestRec

LEMMA GuestTick == ASSUME StreamInv, stream_arbiter_tick, guest' = guest PROVE StreamInv'
<1>1. ArbInv' /\ SameOwners /\ Keeps
  BY TickInv DEF StreamInv
<1>2. ASSUME guest.h # NoHandle, NEW h \in Handles, h = guest.h
      PROVE  /\ slots'[h].in_use /\ slots'[h].fd = guest.fd
             /\ NextUp(h)' = guest.first + Len(guest.got)
             /\ RunsFrom(guest.got, guest.first)
             /\ guest.answer = "end" => slots'[h].latched /\ slots'[h].ring = <<>>
  <2>1. /\ slots[h].in_use /\ slots[h].fd = guest.fd
        /\ NextUp(h) = guest.first + Len(guest.got)
        /\ RunsFrom(guest.got, guest.first)
        /\ guest.answer = "end" => slots[h].latched /\ slots[h].ring = <<>>
    BY <1>2 DEF StreamInv, GuestGood
  <2> QED
    BY <1>1, <2>1 DEF SameOwners, Keeps
<1>3. GuestGood'
  <2>1. guest.h # NoHandle => guest.h \in Handles
    BY DEF StreamInv, GuestGood
  <2> QED
    BY <1>2, <2>1 DEF GuestGood, NextUp, Taken
<1>4. \A h \in Handles : slots'[h].in_use => h = guest'.h
  BY <1>1 DEF StreamInv, SameOwners
<1>5. guest' \in GuestRec
  BY DEF StreamInv
<1> QED
  BY <1>1, <1>3, <1>4, <1>5 DEF StreamInv

LEMMA GuestRegister ==
    ASSUME StreamInv, NEW f \in Fds, h_stream_register(f), tick.at = MaxStreams
    PROVE  StreamInv'
<1>1. /\ guest.h = NoHandle /\ FreeHandles # {}
      /\ slots' = Registered(FreeHandle, f)
      /\ guest' = [NoGuest EXCEPT !.h = FreeHandle, !.fd = f, !.first = fpos[f]]
      /\ fpos' = fpos /\ rotation' = rotation /\ tick' = tick
  BY DEF h_stream_register
<1>2. PICK h \in Handles : h = FreeHandle
  <2>1. FreeHandles \in SUBSET Handles
    BY DEF FreeHandles
  <2>2. FreeHandle \in FreeHandles
    BY <1>1, <2>1, LowestOf DEF FreeHandle
  <2> QED
    BY <2>1, <2>2
<1>3. NoHandle \notin Handles
  BY StreamAssumption DEF NoHandle, Handles
<1>4. ArbInv /\ slots \in [Handles -> SlotRec] /\ fpos \in [Fds -> Nat]
  BY DEF StreamInv, ArbInv, ArbTypes
<1>5. \A k \in Handles : ~slots[k].in_use
  BY <1>1, <1>3 DEF StreamInv
<1>6. PICK r \in SlotRec : /\ r = [Unused EXCEPT !.in_use = TRUE, !.fd = f] /\ r.ring = <<>> /\ r.fd = f
                           /\ r.in_use = TRUE /\ r.eof = FALSE /\ r.latched = FALSE
  BY NewSlot
<1>7. slots' = [slots EXCEPT ![h] = r]
  BY <1>1, <1>2, <1>6 DEF Registered
<1>8. /\ slots' \in [Handles -> SlotRec] /\ slots'[h] = r
      /\ \A k \in Handles : k # h => slots'[k] = slots[k]
  BY <1>4, <1>7, OneSlot
<1>9. /\ slots'[h].in_use = TRUE /\ slots'[h].fd = f /\ slots'[h].ring = <<>>
      /\ slots'[h].eof = FALSE /\ slots'[h].latched = FALSE
  BY <1>6, <1>8
<1>10. fpos' \in [Fds -> Nat] /\ fpos'[f] = fpos[f] /\ \A g \in Fds : g # f => fpos'[g] = fpos[g]
  BY <1>1, <1>4
<1>11. /\ \A k \in Handles : k # h => slots'[k] = slots[k] \/ slots'[k] = Unused
       /\ \A k \in Handles : k # h /\ slots[k].in_use => slots[k].fd # f
  BY <1>5, <1>8
<1>12. /\ ArbInv' /\ slots'[h].in_use /\ slots'[h].fd = f /\ NextUp(h)' = fpos'[f]
       /\ ~slots'[h].latched /\ slots'[h].ring = <<>>
  BY <1>1, <1>4, <1>8, <1>9, <1>10, <1>11, OwnersInv
<1>13. PICK p \in Nat : p = fpos[f]
  BY <1>4
<1>14. guest' = [h |-> h, fd |-> f, first |-> p, got |-> <<>>, answer |-> "none"]
  BY <1>1, <1>2, <1>13 DEF NoGuest
<1>15. <<>> \in Seq(Nat) /\ Len(<<>>) = 0 /\ RunsFrom(<<>>, p)
  BY EmptyRuns
<1>16. guest' \in GuestRec
  BY <1>14, <1>15 DEF GuestRec
<1>17. /\ guest'.h = h /\ guest'.fd = f /\ guest'.first = p /\ guest'.got = <<>> /\ guest'.answer = "none"
  BY <1>14
<1>18. NextUp(h)' = p + 0
  BY <1>10, <1>12, <1>13
<1>19. GuestGood'
  BY <1>12, <1>15, <1>17, <1>18 DEF GuestGood, NextUp, Taken
<1>20. \A k \in Handles : slots'[k].in_use => k = guest'.h
  BY <1>5, <1>8, <1>17
<1> QED
  BY <1>12, <1>16, <1>19, <1>20 DEF StreamInv

LEMMA GuestConsume ==
    ASSUME StreamInv, h_stream_consume, tick.at = MaxStreams
    PROVE  StreamInv'
<1>1. /\ guest.h # NoHandle /\ guest.answer # "end" /\ guest \in GuestRec /\ ArbInv
      /\ fpos' = fpos /\ rotation' = rotation /\ tick' = tick
  BY DEF h_stream_consume, StreamInv
<1>2. PICK h \in Handles : h = guest.h
  BY <1>1 DEF StreamInv, GuestGood
<1>3. /\ slots[h].in_use /\ slots[h].fd = guest.fd
      /\ NextUp(h) = guest.first + Len(guest.got)
      /\ RunsFrom(guest.got, guest.first)
  BY <1>1, <1>2 DEF StreamInv, GuestGood
<1>4. CASE slots[h].ring # <<>>
  <2>1. /\ slots' = [slots EXCEPT ![h].ring = Tail(@)]
        /\ guest' = [guest EXCEPT !.got = Append(@, Head(slots[h].ring)), !.answer = "data"]
    BY <1>2, <1>4 DEF h_stream_consume
  <2>2. /\ ArbInv' /\ SameOwners
        /\ Head(slots[h].ring) = NextUp(h) /\ NextUp(h) \in Nat /\ NextUp(h)' = NextUp(h) + 1
    BY <1>1, <1>3, <1>4, <2>1, PopInv
  <2>3. PICK m \in Nat : m = NextUp(h)
    BY <2>2
  <2>4. PICK g \in Seq(Nat) : g = guest.got
    BY <1>1, GuestFields
  <2>5. PICK n \in Nat : n = guest.first
    BY <1>1, GuestFields
  <2>6. m = n + Len(g) /\ RunsFrom(g, n) /\ n \in Int
    BY <1>3, <2>3, <2>4, <2>5
  <2>7. /\ g \o <<m>> \in Seq(Nat) /\ Len(g \o <<m>>) = Len(g) + 1 /\ RunsFrom(g \o <<m>>, n)
        /\ Append(g, m) = g \o <<m>>
    BY <2>6, PushRuns
  <2>8. PICK g2 \in Seq(Nat) : g2 = Append(g, m) /\ Len(g2) = Len(g) + 1 /\ RunsFrom(g2, n)
    BY <2>7
  <2>9. guest' = [guest EXCEPT !.got = g2, !.answer = "data"]
    BY <2>1, <2>2, <2>3, <2>4, <2>8
  <2>10. /\ guest' \in GuestRec
         /\ guest'.h = guest.h /\ guest'.fd = guest.fd /\ guest'.first = guest.first
         /\ guest'.got = g2 /\ guest'.answer = "data"
    BY <1>1, <2>9 DEF GuestRec
  <2>11. NextUp(h)' = n + Len(g2)
    <3>1. Len(g) \in Nat
      OBVIOUS
    <3> QED
      BY <2>2, <2>3, <2>6, <2>8, <3>1
  <2>12. slots'[h].in_use /\ slots'[h].fd = guest.fd
    BY <1>3, <2>2 DEF SameOwners
  <2>13. GuestGood'
    BY <1>2, <2>5, <2>8, <2>10, <2>11, <2>12 DEF GuestGood, NextUp, Taken
  <2>14. \A k \in Handles : slots'[k].in_use => k = guest'.h
    BY <2>2, <2>10 DEF StreamInv, SameOwners
  <2> QED
    BY <2>2, <2>10, <2>13, <2>14 DEF StreamInv
<1>5. CASE slots[h].ring = <<>>
  <2>1. PICK a \in {"end", "later"} : /\ guest' = [guest EXCEPT !.answer = a]
                                      /\ a = "end" => is_eof_latched(h)
    BY <1>2, <1>5 DEF h_stream_consume
  <2>2. slots' = slots
    BY <1>2, <1>5 DEF h_stream_consume
  <2>3. a = "end" => slots[h].latched
    BY <1>3, <2>1 DEF is_eof_latched, slot_for
  <2>4. /\ guest' \in GuestRec
        /\ guest'.h = guest.h /\ guest'.fd = guest.fd /\ guest'.first = guest.first
        /\ guest'.got = guest.got /\ guest'.answer = a
    BY <1>1, <2>1 DEF GuestRec
  <2>5. ArbInv' /\ NextUp(h)' = NextUp(h)
    BY <1>1, <2>2 DEF ArbInv, ArbTypes, SlotsGood, OwnFiles, TickGood, ReadToEnd, Taken, At, NextUp
  <2>6. GuestGood'
    BY <1>2, <1>3, <1>5, <2>2, <2>3, <2>4, <2>5 DEF GuestGood, NextUp, Taken
  <2>7. \A k \in Handles : slots'[k].in_use => k = guest'.h
    BY <2>2, <2>4 DEF StreamInv
  <2> QED
    BY <2>4, <2>5, <2>6, <2>7 DEF StreamInv
<1> QED
  BY <1>4, <1>5

LEMMA GuestClose ==
    ASSUME StreamInv, h_stream_close, tick.at = MaxStreams
    PROVE  StreamInv'
<1>1. /\ ArbInv /\ slots' = stream_arbiter_unregister(slots, guest.h) /\ guest' = NoGuest
      /\ fpos' = fpos /\ rotation' = rotation /\ tick' = tick
  BY DEF h_stream_close, StreamInv
<1>2. /\ ArbInv' /\ \A k \in Handles : k # guest.h => slots'[k] = slots[k]
      /\ guest.h \in Handles => ~slots'[guest.h].in_use
  BY <1>1, ReleaseInv
<1>3. \A k \in Handles : ~slots'[k].in_use
  BY <1>2 DEF StreamInv
<1>4. <<>> \in Seq(Nat)
  OBVIOUS
<1>5. guest' \in GuestRec /\ guest'.h = NoHandle
  BY <1>1, <1>4 DEF GuestRec, NoGuest
<1> QED
  BY <1>2, <1>3, <1>5 DEF StreamInv, GuestGood

LEMMA StreamNextInv == StreamInv /\ [StreamNext]_arbiter => StreamInv'
<1> SUFFICES ASSUME StreamInv, [StreamNext]_arbiter PROVE StreamInv'
  OBVIOUS
<1>1. CASE stream_arbiter_tick
  <2>1. guest' = guest
    BY <1>1 DEF stream_arbiter_tick, TickBegin, TickSkip, TickFill, TickPush, TickLatch
  <2> QED
    BY <1>1, <2>1, GuestTick
<1>2. ASSUME NEW f \in Fds, h_stream_register(f), tick.at = MaxStreams
      PROVE  StreamInv'
  BY <1>2, GuestRegister
<1>3. CASE UNCHANGED arbiter
  BY <1>3 DEF arbiter, StreamInv, GuestGood, ArbInv, ArbTypes, SlotsGood, OwnFiles, TickGood, ReadToEnd,
              Taken, At, NextUp
<1> QED
  BY <1>1, <1>2, <1>3, GuestConsume, GuestClose DEF StreamNext

\* A stretch of a file, as the sequence it is.
LEMMA RunsAreRun ==
    ASSUME NEW s \in Seq(Int), NEW n \in Int, RunsFrom(s, n)
    PROVE  s = Run(n, n + Len(s) - 1)
<1>1. Len(s) \in Nat /\ (n + Len(s) - 1) - n + 1 = Len(s)
  OBVIOUS
<1>2. s = [i \in 1 .. Len(s) |-> s[i]]
  OBVIOUS
<1> QED
  BY <1>1, <1>2 DEF Run, RunsFrom

LEMMA StreamInvExact == StreamInv => GuestStreamExact
<1> SUFFICES ASSUME StreamInv, guest.h # NoHandle
             PROVE  /\ guest.got = Run(guest.first, guest.first + Len(guest.got) - 1)
                    /\ guest.answer = "end" => guest.first + Len(guest.got) = FileLen[guest.fd]
  BY DEF GuestStreamExact
<1>1. PICK h \in Handles : h = guest.h
  BY DEF StreamInv, GuestGood
<1>2. guest.got \in Seq(Nat) /\ guest.first \in Nat /\ guest.first \in Int
  BY GuestFields DEF StreamInv
<1>3. /\ slots[h].in_use /\ slots[h].fd = guest.fd
      /\ NextUp(h) = guest.first + Len(guest.got)
      /\ RunsFrom(guest.got, guest.first)
      /\ guest.answer = "end" => slots[h].latched /\ slots[h].ring = <<>>
  BY <1>1 DEF StreamInv, GuestGood
<1>4. guest.got = Run(guest.first, guest.first + Len(guest.got) - 1)
  <2>1. guest.got \in Seq(Int)
    BY <1>2
  <2> QED
    BY <1>2, <1>3, <2>1, RunsAreRun
<1>5. ASSUME guest.answer = "end"
      PROVE  guest.first + Len(guest.got) = FileLen[guest.fd]
  <2>1. Good(slots[h], fpos[slots[h].fd], Taken(h)) /\ slots[h].fd \in Fds
    BY <1>3 DEF StreamInv, ArbInv, SlotsGood
  <2>2. fpos[slots[h].fd] = FileLen[slots[h].fd] /\ Taken(h) = 0
    BY <1>3, <1>5, <2>1 DEF Good
  <2>3. Len(slots[h].ring) = 0 /\ FileLen[guest.fd] \in Nat
    BY <1>3, <1>5, <2>1, StreamAssumption DEF Fds
  <2> QED
    BY <1>3, <2>2, <2>3 DEF NextUp, Lead
<1> QED
  BY <1>4, <1>5

-----------------------------------------------------------------------------
(* The movie player. *)

LEMMA FmvInitInv == FmvInit => FmvInv
<1> SUFFICES ASSUME FmvInit PROVE FmvInv
  OBVIOUS
<1>1. ArbInv /\ guest.h = NoHandle /\ tick.at = MaxStreams
  BY ArbInitInv DEF FmvInit, stream_arbiter_init, Idle
<1>2. player = Stopped /\ kernel = [pc |-> "idle", ready |-> FALSE, avail |-> 0] /\ worker = "tick"
      /\ audio = [q |-> <<>>, heard |-> <<>>, open |-> FALSE]
  BY DEF FmvInit
<1>3. player \in PlayerRec
  BY <1>2 DEF PlayerRec, Stopped, NoFrame
<1>4. kernel \in KernelRec
  BY <1>2 DEF KernelRec, HookPcs
<1>5. <<>> \in Seq(Blocks)
  OBVIOUS
<1>6. audio \in AudioRec
  BY <1>2, <1>5 DEF AudioRec
<1>7. PlayerGood
  BY <1>2 DEF PlayerGood, Stopped
<1>8. Len(AllAudio) = 0
  BY <1>2 DEF AllAudio
<1>9. AudioGood
  BY <1>8 DEF AudioGood
<1> QED
  BY <1>1, <1>2, <1>3, <1>4, <1>6, <1>7, <1>9 DEF FmvInv, FmvTypes

LEMMA SameArbiter ==
    ASSUME ArbInv, UNCHANGED <<slots, fpos, rotation, tick>>
    PROVE  ArbInv' /\ \A h \in Handles : NextUp(h)' = NextUp(h)
  BY DEF ArbInv, ArbTypes, SlotsGood, OwnFiles, TickGood, ReadToEnd, Taken, At, NextUp

LEMMA SameAudio == ASSUME AudioGood, audio' = audio, fpos' = fpos PROVE AudioGood'
  BY DEF AudioGood, AllAudio

\* A hook goes on, or the counters it keeps change.
LEMMA SamePlayer ==
    ASSUME ArbInv, PlayerGood, UNCHANGED <<slots, fpos, rotation, tick>>,
           player'.active = player.active, player'.state = player.state, player'.h = player.h,
           player'.fd = player.fd, player'.kicked = player.kicked, player'.cur = player.cur,
           player'.stopPending = player.stopPending,
           player.active /\ kernel'.pc \in {"donePop", "doneEof", "doneEmpty"} => player.kicked,
           player.active /\ kernel'.pc = "doneEmpty" => slots[player.h].latched
    PROVE  PlayerGood'
<1> SUFFICES ASSUME player'.active PROVE PlayerGood'
  BY DEF PlayerGood
<1>1. player.active
  OBVIOUS
<1>2. PICK h \in Handles : h = player.h
  BY <1>1 DEF PlayerGood
<1>3. NextUp(h)' = NextUp(h)
  BY SameArbiter
<1>4. player'.kicked => player'.cur = NextUp(h)' - 1
  BY <1>1, <1>2, <1>3 DEF PlayerGood
<1>5. slots[h].in_use /\ slots[h].fd = player.fd /\ ~player.stopPending
  BY <1>1, <1>2 DEF PlayerGood
<1>6. player.state = "eof" => slots[h].latched /\ slots[h].ring = <<>> /\ player.cur = FileLen[player.fd] - 1
  BY <1>1, <1>2 DEF PlayerGood
<1> QED
  BY <1>1, <1>2, <1>4, <1>5, <1>6 DEF PlayerGood, NextUp, Taken

\* What a step of the tick reads: nothing, or the element at its file's position.
LEMMA TickReads ==
    ASSUME ArbInv, stream_arbiter_tick
    PROVE  \/ fpos' = fpos /\ (tick'.scratch = <<>> \/ tick.scratch # <<>>)
           \/ \E f \in Fds, p \in Nat :
                 /\ slots[At].fd = f /\ fpos[f] = p /\ tick'.scratch = <<p>>
                 /\ fpos'[f] = p + 1 /\ \A g \in Fds : g # f => fpos'[g] = fpos[g]
<1>1. fpos \in [Fds -> Nat] /\ tick \in TickRec
  BY DEF ArbInv, ArbTypes
<1>2. CASE TickBegin
  BY <1>2 DEF TickBegin
<1>3. ASSUME tick.at < MaxStreams, tick' = Advance
      PROVE  tick'.scratch = <<>>
  BY <1>1, <1>3, AdvanceFacts
<1>4. CASE TickSkip
  BY <1>3, <1>4 DEF TickSkip
<1>5. CASE TickPush
  BY <1>3, <1>5 DEF TickPush
<1>6. CASE TickLatch
  BY <1>3, <1>6 DEF TickLatch
<1>7. CASE TickFill
  <2>1. CASE fpos[slots[At].fd] < FileLen[slots[At].fd]
    <3>1. PICK f \in Fds : f = slots[At].fd
      BY <1>7, AtFacts DEF TickFill
    <3>2. PICK p \in Nat : p = fpos[f]
      BY <1>1
    <3>3. /\ tick' = [tick EXCEPT !.scratch = <<p>>]
          /\ fpos' = [fpos EXCEPT ![f] = @ + 1]
      BY <1>7, <2>1, <3>1, <3>2 DEF TickFill
    <3>4. tick'.scratch = <<p>>
      BY <1>1, <3>3 DEF TickRec
    <3>5. fpos'[f] = p + 1 /\ \A g \in Fds : g # f => fpos'[g] = fpos[g]
      BY <1>1, <3>2, <3>3
    <3> QED
      BY <3>1, <3>2, <3>4, <3>5
  <2>2. CASE ~(fpos[slots[At].fd] < FileLen[slots[At].fd])
    BY <1>7, <2>2 DEF TickFill
  <2> QED
    BY <2>1, <2>2
<1> QED
  BY <1>2, <1>4, <1>5, <1>6, <1>7 DEF stream_arbiter_tick

LEMMA AudioFields ==
    ASSUME NEW a \in AudioRec
    PROVE  /\ a.q \in Seq(Blocks) /\ a.heard \in Seq(Blocks)
           /\ Len(a.q) \in Nat /\ Len(a.heard) \in Nat
  BY DEF AudioRec

\* A block read from a file is later than all of that file that is in the ring or heard.
LEMMA AppendBlock ==
    ASSUME AudioGood, audio \in AudioRec, fpos \in [Fds -> Nat], NEW f \in Clips, NEW p \in Nat, fpos[f] = p,
           fpos'[f] = p + 1, \A g \in Fds : g # f => fpos'[g] = fpos[g],
           audio' = [audio EXCEPT !.q = Append(@, <<f, p>>)]
    PROVE  AudioGood' /\ audio' \in AudioRec
<1>1. /\ audio.q \in Seq(Blocks) /\ audio.heard \in Seq(Blocks)
      /\ Len(audio.q) \in Nat /\ Len(audio.heard) \in Nat
  BY AudioFields
<1>2. PICK b \in Blocks : b = <<f, p>> /\ b[1] = f /\ b[2] = p
  <2>1. <<f, p>> \in Blocks
    BY DEF Blocks
  <2> QED
    BY <2>1
<1>3. Append(audio.q, b) \in Seq(Blocks)
  BY <1>1
<1>4. PICK q \in Seq(Blocks) : q = Append(audio.q, b)
  BY <1>3
<1>5. audio' = [audio EXCEPT !.q = q]
  BY <1>2, <1>4
<1>6. audio' \in AudioRec /\ audio'.q = q /\ audio'.heard = audio.heard
  BY <1>5 DEF AudioRec
<1>7. PICK all \in Seq(Blocks) : all = AllAudio
  <2>1. audio.heard \o audio.q \in Seq(Blocks)
    BY <1>1
  <2> QED
    BY <2>1 DEF AllAudio
<1>8. PICK more \in Seq(Blocks) : more = Append(all, b)
  <2>1. Append(all, b) \in Seq(Blocks)
    OBVIOUS
  <2> QED
    BY <2>1
<1>9. AllAudio' = more
  <2>1. AllAudio' = audio.heard \o Append(audio.q, b)
    BY <1>4, <1>6 DEF AllAudio
  <2>2. audio.heard \o Append(audio.q, b) = Append(audio.heard \o audio.q, b)
    <3>1. PICK h \in Seq(Blocks), w \in Seq(Blocks) : h = audio.heard /\ w = audio.q
      BY <1>1
    <3>2. Append(w, b) = w \o <<b>> /\ <<b>> \in Seq(Blocks) /\ h \o w \in Seq(Blocks)
      BY AppendIsConcat
    <3>3. h \o (w \o <<b>>) = (h \o w) \o <<b>>
      BY <3>2, ConcatAssociative
    <3>4. Append(h \o w, b) = (h \o w) \o <<b>>
      BY <3>2, AppendIsConcat
    <3> QED
      BY <3>1, <3>2, <3>3, <3>4
  <2> QED
    BY <1>7, <1>8, <2>1, <2>2 DEF AllAudio
<1>10. PICK n \in Nat : n = Len(all)
  OBVIOUS
<1>11. Len(more) = n + 1 /\ more[n + 1] = b /\ \A i \in 1 .. n : more[i] = all[i]
  BY <1>8, <1>10
<1>12. \A i \in 1 .. n : /\ all[i] \in Blocks /\ all[i][1] \in Clips /\ all[i][1] \in Fds /\ all[i][2] \in Nat
                         /\ all[i][2] < fpos[all[i][1]]
  BY <1>7, <1>10, FmvAssumption DEF AudioGood, Blocks
<1>13. \A i \in 1 .. n : all[i][2] < fpos'[all[i][1]] /\ (all[i][1] = f => all[i][2] < p)
  <2>1. ASSUME NEW i \in 1 .. n
        PROVE  all[i][2] < fpos'[all[i][1]] /\ (all[i][1] = f => all[i][2] < p)
    <3>1. CASE all[i][1] = f
      BY <1>12, <3>1
    <3>2. CASE all[i][1] # f
      BY <1>12, <3>2
    <3> QED
      BY <3>1, <3>2
  <2> QED
    BY <2>1
<1>14. ASSUME NEW i \in 1 .. n + 1
       PROVE  more[i][2] < fpos'[more[i][1]]
  <2>1. CASE i = n + 1
    BY <1>2, <1>11, <2>1
  <2>2. CASE i # n + 1
    <3>1. i \in 1 .. n
      BY <2>2
    <3> QED
      BY <1>11, <1>13, <3>1
  <2> QED
    BY <2>1, <2>2
<1>15. ASSUME NEW i \in 1 .. n + 1, NEW j \in 1 .. n + 1, i < j, more[i][1] = more[j][1]
       PROVE  more[i][2] < more[j][2]
  <2>1. i \in 1 .. n /\ more[i] = all[i]
    BY <1>11, <1>15
  <2>2. CASE j = n + 1
    BY <1>2, <1>11, <1>13, <1>15, <2>1, <2>2
  <2>3. CASE j # n + 1
    <3>1. j \in 1 .. n
      BY <2>3
    <3>2. more[j] = all[j]
      BY <1>11, <3>1
    <3>3. all[i][2] < all[j][2]
      BY <1>7, <1>10, <1>15, <2>1, <3>1, <3>2 DEF AudioGood
    <3> QED
      BY <2>1, <3>2, <3>3
  <2> QED
    BY <2>2, <2>3
<1> QED
  BY <1>6, <1>9, <1>11, <1>14, <1>15 DEF AudioGood

LEMMA FmvParts ==
    ASSUME FmvInv
    PROVE  /\ player \in PlayerRec /\ kernel \in KernelRec /\ audio \in AudioRec
           /\ worker \in {"tick", "fmv", "guest"}
           /\ ArbInv /\ guest.h = NoHandle /\ PlayerGood /\ AudioGood
           /\ worker # "tick" => tick.at = MaxStreams
           /\ slots \in [Handles -> SlotRec] /\ fpos \in [Fds -> Nat]
  BY DEF FmvInv, FmvTypes, ArbInv, ArbTypes

LEMMA FmvTickInv == ASSUME FmvInv, WorkerTick PROVE FmvInv'
<1>1. /\ stream_arbiter_tick /\ fmv_video_fill /\ player' = player /\ kernel' = kernel
      /\ worker' = IF tick'.at = MaxStreams THEN "fmv" ELSE "tick"
  BY DEF WorkerTick
<1>2. ArbInv' /\ SameOwners /\ Keeps
  BY <1>1, FmvParts, TickInv
<1>3. guest' = guest
  BY <1>1 DEF stream_arbiter_tick, TickBegin, TickSkip, TickFill, TickPush, TickLatch
<1>4. PlayerGood'
  <2> SUFFICES ASSUME player.active PROVE PlayerGood'
    BY <1>1 DEF PlayerGood
  <2>1. PICK h \in Handles : h = player.h
    BY FmvParts DEF PlayerGood
  <2>2. slots[h].in_use /\ slots[h].fd = player.fd /\ ~player.stopPending
    BY <2>1, FmvParts DEF PlayerGood
  <2>3. player.kicked => player.cur = NextUp(h) - 1
    BY <2>1, FmvParts DEF PlayerGood
  <2>4. player.state = "eof" => slots[h].latched /\ slots[h].ring = <<>> /\ player.cur = FileLen[player.fd] - 1
    BY <2>1, FmvParts DEF PlayerGood
  <2>5. /\ kernel.pc \in {"donePop", "doneEof", "doneEmpty"} => player.kicked
        /\ kernel.pc = "doneEmpty" => slots[h].latched
    BY <2>1, FmvParts DEF PlayerGood
  <2>6. slots'[h].in_use /\ slots'[h].fd = player.fd /\ NextUp(h)' = NextUp(h)
    BY <1>2, <2>2 DEF SameOwners, Keeps
  <2>7. slots[h].latched => slots'[h].latched /\ slots'[h].ring = slots[h].ring
    BY <1>2, <2>2 DEF Keeps
  <2> QED
    BY <1>1, <2>1, <2>2, <2>3, <2>4, <2>5, <2>6, <2>7 DEF PlayerGood, NextUp, Taken
<1>5. AudioGood' /\ audio' \in AudioRec
  <2>1. CASE fpos' = fpos /\ (tick'.scratch = <<>> \/ tick.scratch # <<>>)
    <3>1. audio' = audio
      BY <1>1, <2>1 DEF fmv_video_fill
    <3> QED
      BY <2>1, <3>1, FmvParts, SameAudio
  <2>2. ASSUME NEW f \in Fds, NEW p \in Nat, slots[At].fd = f, fpos[f] = p, tick'.scratch = <<p>>,
               fpos'[f] = p + 1, \A g \in Fds : g # f => fpos'[g] = fpos[g]
        PROVE  AudioGood' /\ audio' \in AudioRec
    <3>1. CASE audio' = audio
      <4>1. \A g \in Fds : fpos[g] \in Nat /\ fpos'[g] \in Nat /\ fpos[g] <= fpos'[g]
        <5>1. \A g \in Fds : fpos[g] \in Nat
          BY FmvParts
        <5>2. fpos[f] <= fpos'[f] /\ fpos'[f] \in Nat
          BY <2>2
        <5> QED
          BY <2>2, <5>1, <5>2
      <4>2. audio.q \in Seq(Blocks) /\ audio.heard \in Seq(Blocks)
        BY FmvParts, AudioFields
      <4>3. PICK all \in Seq(Blocks) : all = AllAudio
        <5>1. audio.heard \o audio.q \in Seq(Blocks)
          BY <4>2
        <5> QED
          BY <5>1 DEF AllAudio
      <4>4. \A i \in 1 .. Len(all) : all[i][1] \in Fds /\ all[i][2] \in Nat
        <5>1. \A i \in 1 .. Len(all) : all[i] \in Blocks
          OBVIOUS
        <5> QED
          BY <5>1, FmvAssumption DEF Blocks
      <4>5. \A i \in 1 .. Len(all) : all[i][2] < fpos'[all[i][1]]
        <5>1. \A i \in 1 .. Len(all) : all[i][2] < fpos[all[i][1]]
          BY <4>3, FmvParts DEF AudioGood
        <5> QED
          BY <4>1, <4>4, <5>1
      <4>6. AllAudio' = all
        BY <3>1, <4>3 DEF AllAudio
      <4> QED
        BY <3>1, <4>3, <4>5, <4>6, FmvParts DEF AudioGood
    <3>2. CASE audio' # audio
      <4>1. f \in Clips /\ audio' = [audio EXCEPT !.q = Append(@, <<f, p>>)]
        BY <1>1, <2>2, <3>2 DEF fmv_video_fill
      <4> QED
        BY <2>2, <4>1, FmvParts, AppendBlock
    <3> QED
      BY <3>1, <3>2
  <2> QED
    BY <1>1, <2>1, <2>2, FmvParts, TickReads
<1>6. worker' \in {"tick", "fmv", "guest"} /\ (worker' # "tick" => tick'.at = MaxStreams)
  BY <1>1
<1> QED
  BY <1>1, <1>2, <1>3, <1>4, <1>5, <1>6, FmvParts DEF FmvInv, FmvTypes

\* A step of the player that leaves the table and the files alone.
LEMMA FmvSameArbiter ==
    ASSUME FmvInv, UNCHANGED arbiter, PlayerGood', AudioGood',
           player' \in PlayerRec, kernel' \in KernelRec, audio' \in AudioRec,
           worker' \in {"tick", "fmv", "guest"}, worker' # "tick" => worker # "tick"
    PROVE  FmvInv'
<1>1. UNCHANGED <<slots, fpos, rotation, tick>> /\ guest' = guest
  BY DEF arbiter
<1>2. ArbInv'
  BY <1>1, FmvParts, SameArbiter
<1> QED
  BY <1>1, <1>2, FmvParts DEF FmvInv, FmvTypes

LEMMA FinalizeInv == ASSUME FmvInv, fmv_player_tick PROVE FmvInv'
<1>1. /\ worker = "fmv" /\ worker' = "guest" /\ tick.at = MaxStreams /\ kernel' = kernel
      /\ UNCHANGED <<fpos, rotation, tick, guest>>
  BY FmvParts DEF fmv_player_tick
<1>2. CASE player.stopPending
  <2>1. /\ slots' = stream_arbiter_unregister(slots, player.h)
        /\ audio' = [audio EXCEPT !.open = FALSE]
        /\ player' = [Finalized(player) EXCEPT !.stopPending = FALSE]
    BY <1>2 DEF fmv_player_tick, fmv_player_finalize
  <2>2. ArbInv'
    BY <1>1, <2>1, FmvParts, ReleaseInv
  <2>3. ~player.active
    BY <1>2, FmvParts DEF PlayerGood
  <2>4. player' \in PlayerRec
    <3>1. PICK p \in PlayerRec : p = player
      BY FmvParts
    <3>2. PICK a \in BOOLEAN : a = p.active
      BY DEF PlayerRec
    <3>3. PICK c \in Int, n \in Int : c = p.cur /\ n = p.plays
      BY DEF PlayerRec
    <3>4. player' = [active |-> a, state |-> "idle", h |-> NoHandle, fd |-> NoFd, kicked |-> FALSE, sf |-> 0,
                     cur |-> c, started |-> FALSE, preroll |-> 0, voice |-> FALSE, stopPending |-> FALSE,
                     plays |-> n]
      BY <2>1, <3>1, <3>2, <3>3 DEF Finalized, PlayerRec
    <3> QED
      BY <3>4 DEF PlayerRec
  <2>5. player'.active = player.active
    BY <2>1, FmvParts DEF Finalized, PlayerRec
  <2>6. audio' \in AudioRec /\ audio'.q = audio.q /\ audio'.heard = audio.heard
    BY <2>1, FmvParts DEF AudioRec
  <2>7. AudioGood'
    <3>1. AllAudio' = AllAudio
      BY <2>6 DEF AllAudio
    <3> QED
      BY <1>1, <3>1, FmvParts DEF AudioGood
  <2>8. PlayerGood'
    BY <2>3, <2>5 DEF PlayerGood
  <2> QED
    BY <1>1, <2>2, <2>4, <2>6, <2>7, <2>8, FmvParts DEF FmvInv, FmvTypes
<1>3. CASE ~player.stopPending
  <2>1. UNCHANGED <<slots, audio, player>>
    BY <1>3 DEF fmv_player_tick
  <2>2. UNCHANGED arbiter /\ kernel'.pc = kernel.pc
    BY <1>1, <2>1 DEF arbiter
  <2>3. PlayerGood'
    <3>1. /\ player.active /\ kernel'.pc \in {"donePop", "doneEof", "doneEmpty"} => player.kicked
          /\ player.active /\ kernel'.pc = "doneEmpty" => slots[player.h].latched
      BY <2>2, FmvParts DEF PlayerGood
    <3> QED
      BY <1>1, <2>1, <3>1, FmvParts, SamePlayer
  <2>4. AudioGood'
    BY <1>1, <2>1, FmvParts, SameAudio
  <2> QED
    BY <1>1, <2>1, <2>2, <2>3, <2>4, FmvParts, FmvSameArbiter
<1> QED
  BY <1>2, <1>3

LEMMA StartInv == ASSUME Settled, FmvInv, NEW fd \in Clips, fmv_player_start(fd) PROVE FmvInv'
<1> DEFINE t == IF player.active THEN stream_arbiter_unregister(slots, player.h) ELSE slots
           free == {h \in Handles : ~t[h].in_use}
           h0 == CHOOSE h \in free : \A k \in free : h <= k
<1>1. /\ worker = "guest" /\ worker' = worker /\ tick.at = MaxStreams
      /\ kernel.pc = "idle" /\ kernel' = kernel
      /\ \A k \in Handles : slots[k].in_use => slots[k].fd # fd
      /\ fpos' = [fpos EXCEPT ![fd] = 0]
      /\ audio' = [q |-> <<>>, heard |-> <<>>, open |-> FALSE]
      /\ UNCHANGED <<rotation, tick, guest>>
  BY FmvParts DEF fmv_player_start, CanFinalize
<1>2. /\ free # {} /\ slots' = [t EXCEPT ![h0] = [Unused EXCEPT !.in_use = TRUE, !.fd = fd]]
      /\ player' = [Finalized(player) EXCEPT !.active = TRUE, !.state = "playing", !.h = h0, !.fd = fd,
                                !.cur = NoFrame, !.stopPending = FALSE, !.plays = @ + 1]
  BY DEF fmv_player_start
<1>3. PICK h \in Handles : h = h0
  <2>1. free \in SUBSET Handles
    OBVIOUS
  <2> HIDE DEF free
  <2>2. h0 \in free
    BY <1>2, <2>1, LowestOf
  <2> QED
    BY <2>1, <2>2
<1>4. /\ t \in [Handles -> SlotRec]
      /\ \A k \in Handles : t[k] = slots[k] \/ t[k] = Unused
  BY FmvParts, UnusedSlot DEF stream_arbiter_unregister
<1> HIDE DEF h0, free, t
<1>5. PICK f \in Fds : f = fd
  BY FmvAssumption
<1>6. PICK r \in SlotRec : /\ r = [Unused EXCEPT !.in_use = TRUE, !.fd = f] /\ r.ring = <<>> /\ r.fd = f
                           /\ r.in_use = TRUE /\ r.eof = FALSE /\ r.latched = FALSE
  BY NewSlot
<1>7. slots' = [t EXCEPT ![h] = r]
  BY <1>2, <1>3, <1>5, <1>6
<1>8. /\ slots' \in [Handles -> SlotRec] /\ slots'[h] = r
      /\ \A k \in Handles : k # h => slots'[k] = slots[k] \/ slots'[k] = Unused
  BY <1>4, <1>7
<1>9. /\ slots'[h].in_use = TRUE /\ slots'[h].fd = f /\ slots'[h].ring = <<>>
      /\ slots'[h].eof = FALSE /\ slots'[h].latched = FALSE
  BY <1>6, <1>8
<1>10. fpos' \in [Fds -> Nat] /\ fpos'[f] = 0 /\ \A g \in Fds : g # f => fpos'[g] = fpos[g]
  BY <1>1, <1>5, FmvParts
<1>11. \A k \in Handles : k # h /\ slots[k].in_use => slots[k].fd # f
  BY <1>1, <1>5
<1>12. ArbInv' /\ slots'[h].in_use /\ slots'[h].fd = f
  <2>1. UNCHANGED <<rotation, tick>> /\ tick.at = MaxStreams /\ ArbInv
    BY <1>1, FmvParts
  <2>2. fpos'[f] = fpos[f] \/ fpos'[f] = 0
    BY <1>10
  <2> QED
    BY <1>8, <1>9, <1>10, <1>11, <2>1, <2>2, OwnersInv
<1>13. player' \in PlayerRec
  <2>1. PICK p \in PlayerRec : p = player
    BY FmvParts
  <2>2. PICK n \in Int : n = p.plays + 1
    BY DEF PlayerRec
  <2>3. player' = [active |-> TRUE, state |-> "playing", h |-> h, fd |-> f, kicked |-> FALSE, sf |-> 0,
                   cur |-> NoFrame, started |-> FALSE, preroll |-> 0, voice |-> FALSE, stopPending |-> FALSE,
                   plays |-> n]
    BY <1>2, <1>3, <1>5, <2>1, <2>2 DEF Finalized, PlayerRec
  <2> QED
    BY <2>3 DEF PlayerRec, NoFrame
<1>14. player'.h = h /\ player'.fd = f /\ player'.state = "playing"
  BY <1>2, <1>3, <1>5, FmvParts DEF Finalized, PlayerRec
<1>15. player'.kicked = FALSE /\ player'.stopPending = FALSE
  BY <1>2, FmvParts DEF Finalized, PlayerRec
<1>16. PlayerGood'
  BY <1>1, <1>12, <1>14, <1>15 DEF PlayerGood
<1>17. <<>> \in Seq(Blocks)
  OBVIOUS
<1>18. audio' \in AudioRec /\ Len(AllAudio') = 0
  BY <1>1, <1>17 DEF AudioRec, AllAudio
<1>19. AudioGood'
  BY <1>18 DEF AudioGood
<1> QED
  BY <1>1, <1>12, <1>13, <1>16, <1>18, <1>19, FmvParts DEF FmvInv, FmvTypes

LEMMA HookType ==
    ASSUME kernel \in KernelRec, NEW p \in HookPcs, kernel' = [kernel EXCEPT !.pc = p]
    PROVE  kernel' \in KernelRec /\ kernel'.pc = p
  BY DEF KernelRec

LEMMA ReturnType ==
    ASSUME NEW b \in BOOLEAN, kernel' = [pc |-> "idle", ready |-> b, avail |-> 0]
    PROVE  kernel' \in KernelRec /\ kernel'.pc = "idle"
<1>1. "idle" \in HookPcs
  BY DEF HookPcs
<1> QED
  BY <1>1 DEF KernelRec

\* A hook goes on or returns, the player as it was or with new counters.
LEMMA HookInv ==
    ASSUME FmvInv, UNCHANGED <<arbiter, worker>>, kernel' \in KernelRec, audio' \in AudioRec,
           audio'.q = audio.q, audio'.heard = audio.heard,
           player' \in PlayerRec,
           player'.active = player.active, player'.state = player.state, player'.h = player.h,
           player'.fd = player.fd, player'.kicked = player.kicked, player'.cur = player.cur,
           player'.stopPending = player.stopPending,
           player.active /\ kernel'.pc \in {"donePop", "doneEof", "doneEmpty"} => player.kicked,
           player.active /\ kernel'.pc = "doneEmpty" => slots[player.h].latched
    PROVE  FmvInv'
<1>1. UNCHANGED <<slots, fpos, rotation, tick>> /\ UNCHANGED arbiter /\ worker' = worker
  BY DEF arbiter
<1>2. PlayerGood'
  BY <1>1, FmvParts, SamePlayer
<1>3. AllAudio' = AllAudio
  BY DEF AllAudio
<1>4. AudioGood'
  BY <1>1, <1>3, FmvParts DEF AudioGood
<1> QED
  BY <1>1, <1>2, <1>4, FmvParts, FmvSameArbiter

\* As HookInv where the player is not touched at all.
LEMMA KernelInv ==
    ASSUME FmvInv, UNCHANGED <<arbiter, worker, player, audio>>, kernel' \in KernelRec,
           player.active /\ kernel'.pc \in {"donePop", "doneEof", "doneEmpty"} => player.kicked,
           player.active /\ kernel'.pc = "doneEmpty" => slots[player.h].latched
    PROVE  FmvInv'
<1>1. player' = player /\ audio' = audio /\ player \in PlayerRec /\ audio \in AudioRec
  BY FmvParts
<1> QED
  BY <1>1, HookInv

LEMMA HereFacts ==
    ASSUME FmvInv, player.active
    PROVE  /\ player.h \in Handles /\ slots[player.h].in_use /\ slot_for(player.h)
           /\ kernel.pc \in {"donePop", "doneEof", "doneEmpty"} => player.kicked
           /\ kernel.pc = "doneEmpty" => slots[player.h].latched
  BY FmvParts DEF PlayerGood, slot_for

\* The popped element is shown: it is the one after the last shown.
LEMMA PromoteInv ==
    ASSUME FmvInv, slot_for(player.h), slots[player.h].ring # <<>>, Popped(player.h), player' = promote_current,
           UNCHANGED <<fpos, rotation, tick, guest, worker, audio>>,
           kernel' \in KernelRec, kernel'.pc = "idle"
    PROVE  FmvInv'
<1>1. PICK h \in Handles : h = player.h
  BY DEF slot_for
<1>2. /\ slots[h].in_use /\ slots[h].ring # <<>>
      /\ slots' = [slots EXCEPT ![h].ring = Tail(@)]
  BY <1>1 DEF slot_for, Popped
<1>3. /\ ArbInv' /\ SameOwners
      /\ Head(slots[h].ring) = NextUp(h) /\ NextUp(h) \in Nat /\ NextUp(h)' = NextUp(h) + 1
  BY <1>2, FmvParts, PopInv
<1>4. PICK n \in Nat : n = NextUp(h)
  BY <1>3
<1>5. player' = [player EXCEPT !.cur = n, !.sf = 0, !.kicked = TRUE]
  BY <1>1, <1>3, <1>4 DEF promote_current
<1>6. player' \in PlayerRec /\ player'.cur = n
  <2>1. player' \in PlayerRec
    <3>1. PICK p \in PlayerRec : p = player
      BY FmvParts
    <3>2. n \in Int /\ 0 \in Int /\ TRUE \in BOOLEAN
      OBVIOUS
    <3>3. [p EXCEPT !.cur = n] \in PlayerRec
      BY <3>2 DEF PlayerRec
    <3>4. PICK p2 \in PlayerRec : p2 = [p EXCEPT !.cur = n]
      BY <3>3
    <3>5. [p2 EXCEPT !.sf = 0] \in PlayerRec
      BY <3>2 DEF PlayerRec
    <3>6. PICK p3 \in PlayerRec : p3 = [p2 EXCEPT !.sf = 0]
      BY <3>5
    <3>7. [p3 EXCEPT !.kicked = TRUE] \in PlayerRec
      BY <3>2 DEF PlayerRec
    <3>8. player' = [p3 EXCEPT !.kicked = TRUE]
      BY <1>5, <3>1, <3>4, <3>6
    <3> QED
      BY <3>7, <3>8
  <2>2. player'.cur = n
    BY <1>5, FmvParts DEF PlayerRec
  <2> QED
    BY <2>1, <2>2
<1>7. player'.h = player.h /\ player'.fd = player.fd /\ player'.state = player.state
  BY <1>5, FmvParts DEF PlayerRec
<1>8. player'.active = player.active /\ player'.stopPending = player.stopPending
  BY <1>5, FmvParts DEF PlayerRec
<1>9. PlayerGood'
  <2> SUFFICES ASSUME player.active PROVE PlayerGood'
    BY <1>8 DEF PlayerGood
  <2>1. slots[h].fd = player.fd /\ ~player.stopPending /\ player.state # "eof"
    BY <1>1, <1>2, FmvParts DEF PlayerGood
  <2>2. slots'[h].in_use /\ slots'[h].fd = player.fd
    BY <1>2, <1>3, <2>1 DEF SameOwners
  <2>3. n = NextUp(h)' - 1
    BY <1>3, <1>4
  <2> QED
    BY <1>1, <1>6, <1>7, <1>8, <2>1, <2>2, <2>3 DEF PlayerGood, NextUp, Taken
<1>10. AudioGood'
  BY FmvParts, SameAudio
<1>11. audio' = audio /\ worker' = worker /\ tick' = tick /\ guest' = guest
  OBVIOUS
<1> QED
  BY <1>3, <1>6, <1>9, <1>10, <1>11, FmvParts DEF FmvInv, FmvTypes

LEMMA StopInv == ASSUME FmvInv, fmv_player_stop PROVE FmvInv'
<1>1. /\ player' = [player EXCEPT !.active = FALSE, !.stopPending = TRUE]
      /\ kernel' = [kernel EXCEPT !.ready = FALSE]
      /\ UNCHANGED arbiter /\ worker' = worker /\ audio' = audio
  BY DEF fmv_player_stop
<1>2. player' \in PlayerRec
  BY <1>1, FmvParts DEF PlayerRec
<1>3. player'.active = FALSE
  BY <1>1, FmvParts DEF PlayerRec
<1>4. kernel' \in KernelRec
  BY <1>1, FmvParts DEF KernelRec
<1>5. PlayerGood'
  BY <1>3 DEF PlayerGood
<1>6. AudioGood'
  BY <1>1, FmvParts, SameAudio DEF arbiter
<1> QED
  BY <1>1, <1>2, <1>4, <1>5, <1>6, FmvParts, FmvSameArbiter

LEMMA YieldInv == ASSUME FmvInv, GuestYields PROVE FmvInv'
<1>1. UNCHANGED <<slots, fpos, rotation, tick>> /\ UNCHANGED <<arbiter, player, kernel, audio>> /\ worker' = "tick"
  BY DEF GuestYields, arbiter
<1>2. PlayerGood'
  <2>1. /\ player.active /\ kernel'.pc \in {"donePop", "doneEof", "doneEmpty"} => player.kicked
        /\ player.active /\ kernel'.pc = "doneEmpty" => slots[player.h].latched
    BY <1>1, HereFacts
  <2>2. player' = player
    BY <1>1
  <2> QED
    BY <1>1, <2>1, <2>2, FmvParts, SamePlayer
<1>3. AudioGood'
  BY <1>1, FmvParts, SameAudio
<1> QED
  BY <1>1, <1>2, <1>3, FmvParts, FmvSameArbiter

LEMMA ReadInv == ASSUME FmvInv, ReadReady PROVE FmvInv'
<1>1. /\ UNCHANGED <<arbiter, worker, player, audio>> /\ kernel' = [kernel EXCEPT !.pc = "ready"]
      /\ "ready" \in HookPcs
  BY DEF ReadReady, HookPcs
<1>2. kernel' \in KernelRec /\ kernel'.pc = "ready"
  BY <1>1, FmvParts, HookType
<1> QED
  BY <1>1, <1>2, KernelInv

LEMMA DoneInv == ASSUME FmvInv, FrameDone PROVE FmvInv'
<1>1. UNCHANGED <<arbiter, worker, audio>> /\ kernel.pc = "idle"
  BY DEF FrameDone
<1>2. CASE ~player.kicked /\ kernel' = [kernel EXCEPT !.ready = FALSE] /\ player' = player
  <2>1. kernel' \in KernelRec /\ kernel'.pc = "idle"
    BY <1>1, <1>2, FmvParts DEF KernelRec
  <2> QED
    BY <1>1, <1>2, <2>1, KernelInv
<1>3. CASE player' = [player EXCEPT !.sf = @ + 1] /\ kernel' = kernel
  <2>1. player' \in PlayerRec
    <3>1. PICK n \in Int : n = player.sf + 1
      BY FmvParts DEF PlayerRec
    <3>2. player' = [player EXCEPT !.sf = n]
      BY <1>3, <3>1
    <3> QED
      BY <3>2, FmvParts DEF PlayerRec
  <2>2. player'.state = player.state /\ player'.h = player.h /\ player'.fd = player.fd /\ player'.cur = player.cur
    BY <1>3, FmvParts DEF PlayerRec
  <2>3. /\ player'.active = player.active /\ player'.kicked = player.kicked
        /\ player'.stopPending = player.stopPending
    BY <1>3, FmvParts DEF PlayerRec
  <2>4. kernel' \in KernelRec /\ kernel'.pc = "idle" /\ audio' = audio /\ audio' \in AudioRec
    BY <1>1, <1>3, FmvParts
  <2> QED
    BY <1>1, <2>1, <2>2, <2>3, <2>4, HookInv
<1>4. CASE player.kicked /\ Hook("idle", "donePop") /\ player' = player
  <2>1. kernel' = [kernel EXCEPT !.pc = "donePop"] /\ "donePop" \in HookPcs
    BY <1>4 DEF Hook, HookPcs
  <2>2. kernel' \in KernelRec /\ kernel'.pc = "donePop"
    BY <2>1, FmvParts, HookType
  <2> QED
    BY <1>1, <1>4, <2>2, KernelInv
<1> QED
  BY <1>2, <1>3, <1>4 DEF FrameDone

LEMMA VoiceInv == ASSUME FmvInv, VoiceRead PROVE FmvInv'
<1>1. /\ audio.q # <<>> /\ audio' = [audio EXCEPT !.q = Tail(@), !.heard = <<Head(audio.q)>>]
      /\ UNCHANGED arbiter /\ player' = player /\ kernel' = kernel /\ worker' = worker
  BY DEF VoiceRead
<1>2. PICK q \in Seq(Blocks) : q = audio.q
  BY FmvParts, AudioFields
<1>3. PICK h \in Seq(Blocks) : h = audio.heard
  BY FmvParts, AudioFields
<1>4. q # <<>> /\ Head(q) \in Blocks /\ Tail(q) \in Seq(Blocks)
  BY <1>1, <1>2
<1>5. PICK t \in Seq(Blocks) : t = Tail(q)
  BY <1>4
<1>6. PICK s \in Seq(Blocks) : s = <<Head(q)>>
  <2>1. <<Head(q)>> \in Seq(Blocks)
    BY <1>4
  <2> QED
    BY <2>1
<1>7. audio' = [audio EXCEPT !.q = t, !.heard = s]
  BY <1>1, <1>2, <1>5, <1>6
<1>8. audio' \in AudioRec /\ audio'.q = t /\ audio'.heard = s
  BY <1>7, FmvParts DEF AudioRec
<1>9. s \o t = q
  BY <1>4, <1>5, <1>6
<1>10. AllAudio' = q /\ AllAudio = h \o q
  BY <1>2, <1>3, <1>8, <1>9 DEF AllAudio
<1>11. PICK m \in Nat, n \in Nat : m = Len(h) /\ n = Len(q)
  OBVIOUS
<1>12. Len(h \o q) = m + n /\ \A i \in 1 .. n : q[i] = (h \o q)[m + i]
  BY <1>11
<1>13. AudioGood'
  <2>1. \A i \in 1 .. n : q[i][2] < fpos[q[i][1]]
    <3>1. ASSUME NEW i \in 1 .. n
          PROVE  q[i][2] < fpos[q[i][1]]
      <4>1. m + i \in 1 .. m + n
        OBVIOUS
      <4> QED
        BY <1>10, <1>12, <4>1, FmvParts DEF AudioGood
    <3> QED
      BY <3>1
  <2>2. ASSUME NEW i \in 1 .. n, NEW j \in 1 .. n, i < j, q[i][1] = q[j][1]
        PROVE  q[i][2] < q[j][2]
    <3>1. m + i \in 1 .. m + n /\ m + j \in 1 .. m + n /\ m + i < m + j
      BY <2>2
    <3>2. PICK all \in Seq(Blocks) : all = h \o q
      <4>1. h \o q \in Seq(Blocks)
        OBVIOUS
      <4> QED
        BY <4>1
    <3>3. all[m + i] = q[i] /\ all[m + j] = q[j] /\ Len(all) = m + n
      BY <1>12, <3>2
    <3>4. \A a, b \in 1 .. Len(all) : a < b /\ all[a][1] = all[b][1] => all[a][2] < all[b][2]
      BY <1>10, <3>2, FmvParts DEF AudioGood
    <3>5. all[m + i][2] < all[m + j][2]
      BY <2>2, <3>1, <3>3, <3>4
    <3> QED
      BY <3>3, <3>5
  <2>3. fpos' = fpos
    BY <1>1 DEF arbiter
  <2> QED
    BY <1>10, <1>11, <2>1, <2>2, <2>3 DEF AudioGood
<1>14. PlayerGood'
  <2>1. /\ player.active /\ kernel'.pc \in {"donePop", "doneEof", "doneEmpty"} => player.kicked
        /\ player.active /\ kernel'.pc = "doneEmpty" => slots[player.h].latched
    BY <1>1, HereFacts
  <2>2. UNCHANGED <<slots, fpos, rotation, tick>>
    BY <1>1 DEF arbiter
  <2> QED
    BY <1>1, <2>1, <2>2, FmvParts, SamePlayer
<1> QED
  BY <1>1, <1>8, <1>13, <1>14, FmvParts, FmvSameArbiter

LEMMA ReturnInv ==
    ASSUME FmvInv, NEW from, NEW b \in BOOLEAN, Return(from, b), UNCHANGED <<arbiter, worker, player, audio>>
    PROVE  FmvInv'
<1>1. kernel' = [pc |-> "idle", ready |-> b, avail |-> 0]
  BY DEF Return
<1>2. kernel' \in KernelRec /\ kernel'.pc = "idle"
  BY <1>1, ReturnType
<1> QED
  BY <1>2, KernelInv

LEMMA SubFrameSet ==
    ASSUME NEW p \in PlayerRec, NEW n \in Int, player' = [p EXCEPT !.sf = n]
    PROVE  /\ player' \in PlayerRec
           /\ player'.active = p.active /\ player'.state = p.state /\ player'.h = p.h /\ player'.fd = p.fd
           /\ player'.kicked = p.kicked /\ player'.cur = p.cur /\ player'.stopPending = p.stopPending
<1>1. player' \in PlayerRec
  BY DEF PlayerRec
<1>2. player'.state = p.state /\ player'.h = p.h /\ player'.fd = p.fd /\ player'.cur = p.cur
  BY DEF PlayerRec
<1>3. player'.active = p.active /\ player'.kicked = p.kicked /\ player'.stopPending = p.stopPending
  BY DEF PlayerRec
<1> QED
  BY <1>1, <1>2, <1>3

LEMMA PrerollSet ==
    ASSUME NEW p \in PlayerRec, NEW n \in Int, player' = [p EXCEPT !.preroll = n]
    PROVE  /\ player' \in PlayerRec
           /\ player'.active = p.active /\ player'.state = p.state /\ player'.h = p.h /\ player'.fd = p.fd
           /\ player'.kicked = p.kicked /\ player'.cur = p.cur /\ player'.stopPending = p.stopPending
<1>1. player' \in PlayerRec
  BY DEF PlayerRec
<1>2. player'.state = p.state /\ player'.h = p.h /\ player'.fd = p.fd /\ player'.cur = p.cur
  BY DEF PlayerRec
<1>3. player'.active = p.active /\ player'.kicked = p.kicked /\ player'.stopPending = p.stopPending
  BY DEF PlayerRec
<1> QED
  BY <1>1, <1>2, <1>3

LEMMA StartedSet ==
    ASSUME NEW p \in PlayerRec, NEW n \in Int, NEW b \in BOOLEAN,
           player' = [p EXCEPT !.started = TRUE, !.voice = b, !.preroll = n]
    PROVE  /\ player' \in PlayerRec
           /\ player'.active = p.active /\ player'.state = p.state /\ player'.h = p.h /\ player'.fd = p.fd
           /\ player'.kicked = p.kicked /\ player'.cur = p.cur /\ player'.stopPending = p.stopPending
<1>1. player' \in PlayerRec
  <2>1. [p EXCEPT !.started = TRUE] \in PlayerRec
    BY DEF PlayerRec
  <2>2. PICK p2 \in PlayerRec : p2 = [p EXCEPT !.started = TRUE]
    BY <2>1
  <2>3. [p2 EXCEPT !.voice = b] \in PlayerRec
    BY DEF PlayerRec
  <2>4. PICK p3 \in PlayerRec : p3 = [p2 EXCEPT !.voice = b]
    BY <2>3
  <2>5. [p3 EXCEPT !.preroll = n] \in PlayerRec
    BY DEF PlayerRec
  <2>6. player' = [p3 EXCEPT !.preroll = n]
    BY <2>2, <2>4
  <2> QED
    BY <2>5, <2>6
<1>2. player'.state = p.state /\ player'.h = p.h /\ player'.fd = p.fd /\ player'.cur = p.cur
  BY DEF PlayerRec
<1>3. player'.active = p.active /\ player'.kicked = p.kicked /\ player'.stopPending = p.stopPending
  BY DEF PlayerRec
<1> QED
  BY <1>1, <1>2, <1>3

LEMMA ReadyInv == ASSUME FmvInv, ReadyPreroll PROVE FmvInv'
<1>1. UNCHANGED <<arbiter, worker>>
  BY DEF ReadyPreroll
<1>2. PICK p \in PlayerRec : p = player
  BY FmvParts
<1>3. ASSUME NEW b \in BOOLEAN, Return("ready", b), UNCHANGED <<player, audio>>
      PROVE  FmvInv'
  BY <1>1, <1>3, ReturnInv
<1>4. ASSUME Return("ready", FALSE)
      PROVE  kernel' \in KernelRec /\ kernel'.pc = "idle"
  BY <1>4, ReturnType DEF Return
<1>5. ASSUME NEW b \in BOOLEAN, Return("ready", FALSE), audio' = [audio EXCEPT !.open = b],
             player' = [player EXCEPT !.started = TRUE, !.voice = b, !.preroll = IF b THEN Preroll ELSE 0]
      PROVE  FmvInv'
  <2>1. PICK n \in Int : n = IF b THEN Preroll ELSE 0
    BY FmvAssumption
  <2>2. player' = [p EXCEPT !.started = TRUE, !.voice = b, !.preroll = n]
    BY <1>2, <1>5, <2>1
  <2>3. /\ player' \in PlayerRec
        /\ player'.active = p.active /\ player'.state = p.state /\ player'.h = p.h /\ player'.fd = p.fd
        /\ player'.kicked = p.kicked /\ player'.cur = p.cur /\ player'.stopPending = p.stopPending
    BY <2>2, StartedSet
  <2>4. audio' \in AudioRec /\ audio'.q = audio.q /\ audio'.heard = audio.heard
    BY <1>5, FmvParts DEF AudioRec
  <2> QED
    BY <1>1, <1>2, <1>4, <1>5, <2>3, <2>4, HookInv
<1>6. ASSUME Return("ready", FALSE), player' = [player EXCEPT !.preroll = @ - 1], audio' = audio
      PROVE  FmvInv'
  <2>1. PICK n \in Int : n = p.preroll - 1
    BY DEF PlayerRec
  <2>2. player' = [p EXCEPT !.preroll = n]
    BY <1>2, <1>6, <2>1
  <2>3. /\ player' \in PlayerRec
        /\ player'.active = p.active /\ player'.state = p.state /\ player'.h = p.h /\ player'.fd = p.fd
        /\ player'.kicked = p.kicked /\ player'.cur = p.cur /\ player'.stopPending = p.stopPending
    BY <2>2, PrerollSet
  <2>4. audio' \in AudioRec /\ audio'.q = audio.q /\ audio'.heard = audio.heard
    BY <1>6, FmvParts
  <2> QED
    BY <1>1, <1>2, <1>4, <1>6, <2>3, <2>4, HookInv
<1> QED
  BY <1>3, <1>5, <1>6 DEF ReadyPreroll

LEMMA KickInv == ASSUME FmvInv, KickAvail \/ KickEof \/ KickEmpty PROVE FmvInv'
<1>1. UNCHANGED <<arbiter, worker, player, audio>>
  BY DEF KickAvail, KickEof, KickEmpty
<1>2. "kickEof" \in HookPcs /\ "kickPop" \in HookPcs /\ "kickEmpty" \in HookPcs
  BY DEF HookPcs
<1>3. CASE KickAvail
  <2>1. PICK a \in Nat : a = chunks_available(player.h)
    BY FmvParts, SlotFields DEF chunks_available, slot_for
  <2>2. PICK p \in {"kickEof", "kickPop"} : kernel' = [kernel EXCEPT !.pc = p, !.avail = a]
    BY <1>3, <2>1 DEF KickAvail
  <2>3. kernel' \in KernelRec /\ kernel'.pc = p
    BY <1>2, <2>2, FmvParts DEF KernelRec
  <2> QED
    BY <1>1, <2>2, <2>3, KernelInv
<1>4. ASSUME NEW from, NEW to \in {"kickPop", "kickEmpty"}, Hook(from, to)
      PROVE  FmvInv'
  <2>1. kernel' = [kernel EXCEPT !.pc = to] /\ to \in HookPcs
    BY <1>2, <1>4 DEF Hook
  <2>2. kernel' \in KernelRec /\ kernel'.pc = to
    BY <2>1, FmvParts, HookType
  <2> QED
    BY <1>1, <2>2, KernelInv
<1>5. ASSUME NEW from, Return(from, FALSE)
      PROVE  FmvInv'
  BY <1>1, <1>5, ReturnInv
<1> QED
  BY <1>3, <1>4, <1>5 DEF KickEof, KickEmpty

LEMMA KickPopInv == ASSUME FmvInv, KickPop PROVE FmvInv'
<1>1. UNCHANGED <<fpos, rotation, tick, guest, worker, audio>>
  BY DEF KickPop
<1>2. CASE slot_for(player.h) /\ slots[player.h].ring # <<>>
  <2>1. Popped(player.h) /\ player' = promote_current /\ Return("kickPop", TRUE)
    BY <1>2 DEF KickPop
  <2>2. kernel' \in KernelRec /\ kernel'.pc = "idle"
    BY <2>1, ReturnType DEF Return
  <2> QED
    BY <1>1, <1>2, <2>1, <2>2, PromoteInv
<1>3. CASE ~(slot_for(player.h) /\ slots[player.h].ring # <<>>)
  <2>1. UNCHANGED <<slots, player>> /\ Return("kickPop", FALSE)
    BY <1>3 DEF KickPop
  <2>2. UNCHANGED <<arbiter, worker, player, audio>>
    BY <1>1, <2>1 DEF arbiter
  <2> QED
    BY <2>1, <2>2, ReturnInv
<1> QED
  BY <1>2, <1>3

LEMMA DonePopInv == ASSUME FmvInv, DonePop PROVE FmvInv'
<1>1. UNCHANGED <<fpos, rotation, tick, guest, worker, audio>>
  BY DEF DonePop
<1>2. CASE slot_for(player.h) /\ slots[player.h].ring # <<>>
  <2>1. Popped(player.h) /\ player' = promote_current /\ Return("donePop", TRUE)
    BY <1>2 DEF DonePop
  <2>2. kernel' \in KernelRec /\ kernel'.pc = "idle"
    BY <2>1, ReturnType DEF Return
  <2> QED
    BY <1>1, <1>2, <2>1, <2>2, PromoteInv
<1>3. CASE ~(slot_for(player.h) /\ slots[player.h].ring # <<>>)
  <2>1. UNCHANGED <<slots, player>> /\ Hook("donePop", "doneEof")
    BY <1>3 DEF DonePop
  <2>2. UNCHANGED <<arbiter, worker, player, audio>>
    BY <1>1, <2>1 DEF arbiter
  <2>3. kernel.pc = "donePop" /\ kernel' = [kernel EXCEPT !.pc = "doneEof"] /\ "doneEof" \in HookPcs
    BY <2>1 DEF Hook, HookPcs
  <2>4. kernel' \in KernelRec /\ kernel'.pc = "doneEof"
    BY <2>3, FmvParts, HookType
  <2> QED
    BY <2>2, <2>3, <2>4, HereFacts, KernelInv
<1> QED
  BY <1>2, <1>3

LEMMA RepromoteInv ==
    ASSUME FmvInv, NEW pc, Repromote(pc), UNCHANGED <<arbiter, worker, audio>>
    PROVE  FmvInv'
<1>1. PICK p \in PlayerRec : p = player
  BY FmvParts
<1>2. /\ player' \in PlayerRec
      /\ player'.active = p.active /\ player'.state = p.state /\ player'.h = p.h /\ player'.fd = p.fd
      /\ player'.kicked = p.kicked /\ player'.cur = p.cur /\ player'.stopPending = p.stopPending
  BY <1>1, SubFrameSet DEF Repromote
<1>3. kernel' \in KernelRec /\ kernel'.pc = "idle"
  BY ReturnType DEF Repromote, Return
<1>4. audio' = audio /\ audio' \in AudioRec
  BY FmvParts
<1> QED
  BY <1>1, <1>2, <1>3, <1>4, HookInv

LEMMA DoneEofInv == ASSUME FmvInv, DoneEof PROVE FmvInv'
<1>1. UNCHANGED <<arbiter, worker, audio>>
  BY DEF DoneEof
<1>2. CASE is_eof_latched(player.h) /\ Hook("doneEof", "doneEmpty") /\ player' = player
  <2>1. kernel.pc = "doneEof" /\ kernel' = [kernel EXCEPT !.pc = "doneEmpty"] /\ "doneEmpty" \in HookPcs
    BY <1>2 DEF Hook, HookPcs
  <2>2. kernel' \in KernelRec /\ kernel'.pc = "doneEmpty"
    BY <2>1, FmvParts, HookType
  <2>3. player.active => player.kicked /\ slots[player.h].latched
    BY <1>2, <2>1, HereFacts DEF is_eof_latched
  <2> QED
    BY <1>1, <1>2, <2>2, <2>3, KernelInv
<1>3. CASE Repromote("doneEof")
  BY <1>1, <1>3, RepromoteInv
<1> QED
  BY <1>2, <1>3 DEF DoneEof

\* The player says that its clip is over only when the last frame has been shown.
LEMMA DoneEmptyInv == ASSUME FmvInv, DoneEmpty PROVE FmvInv'
<1>1. UNCHANGED <<arbiter, worker, audio>> /\ kernel.pc = "doneEmpty"
  BY DEF DoneEmpty
<1>2. CASE ~is_eof_empty(player.h)
  <2>1. Repromote("doneEmpty")
    BY <1>2 DEF DoneEmpty
  <2> QED
    BY <1>1, <2>1, RepromoteInv
<1>3. CASE is_eof_empty(player.h)
  <2>1. player' = [player EXCEPT !.state = "eof"] /\ Return("doneEmpty", FALSE)
    BY <1>3 DEF DoneEmpty
  <2>2. kernel' \in KernelRec /\ kernel'.pc = "idle"
    BY <2>1, ReturnType DEF Return
  <2>3. player' \in PlayerRec
    BY <2>1, FmvParts DEF PlayerRec
  <2>4. player'.state = "eof" /\ player'.h = player.h /\ player'.fd = player.fd /\ player'.cur = player.cur
    BY <2>1, FmvParts DEF PlayerRec
  <2>5. /\ player'.active = player.active /\ player'.kicked = player.kicked
        /\ player'.stopPending = player.stopPending
    BY <2>1, FmvParts DEF PlayerRec
  <2>6. UNCHANGED <<slots, fpos, rotation, tick>> /\ worker' = worker /\ audio' = audio
    BY <1>1 DEF arbiter
  <2>7. PlayerGood'
    <3> SUFFICES ASSUME player.active PROVE PlayerGood'
      BY <2>5 DEF PlayerGood
    <3>1. PICK h \in Handles : h = player.h
      BY HereFacts
    <3>2. slots[h].in_use /\ slots[h].latched /\ slots[h].ring = <<>> /\ player.kicked
      BY <1>1, <1>3, <3>1, HereFacts DEF is_eof_empty
    <3>3. slots[h].fd = player.fd /\ ~player.stopPending /\ player.cur = NextUp(h) - 1
      BY <3>1, <3>2, FmvParts DEF PlayerGood
    <3>4. Good(slots[h], fpos[slots[h].fd], Taken(h)) /\ slots[h].fd \in Fds
      BY <3>2, FmvParts DEF ArbInv, SlotsGood
    <3>5. fpos[slots[h].fd] = FileLen[slots[h].fd] /\ Taken(h) = 0
      BY <3>2, <3>4 DEF Good
    <3>6. Len(slots[h].ring) = 0 /\ FileLen[player.fd] \in Nat
      BY <3>2, <3>3, <3>4, StreamAssumption DEF Fds
    <3>7. NextUp(h) = FileLen[player.fd]
      BY <3>3, <3>5, <3>6 DEF NextUp, Lead
    <3>8. NextUp(h)' = NextUp(h)
      BY <2>6, FmvParts, SameArbiter
    <3> QED
      BY <2>2, <2>4, <2>5, <2>6, <3>1, <3>2, <3>3, <3>7, <3>8 DEF PlayerGood, NextUp, Taken
  <2>8. AudioGood'
    BY <2>6, FmvParts, SameAudio
  <2> QED
    BY <1>1, <2>2, <2>3, <2>6, <2>7, <2>8, FmvParts, FmvSameArbiter
<1> QED
  BY <1>2, <1>3

LEMMA FmvNextInv == ASSUME Settled, FmvInv, [FmvNext]_fmvvars PROVE FmvInv'
<1>1. ASSUME NEW fd \in Clips, fmv_player_start(fd)
      PROVE  FmvInv'
  BY <1>1, StartInv
<1>2. CASE UNCHANGED fmvvars
  <2>1. UNCHANGED <<arbiter, worker, player, audio>> /\ kernel' = kernel
    BY <1>2 DEF fmvvars, arbiter
  <2> QED
    BY <2>1, FmvParts, HereFacts, KernelInv
<1>3. CASE HookStep
  BY <1>3, ReadyInv, KickInv, KickPopInv, DonePopInv, DoneEofInv, DoneEmptyInv DEF HookStep
<1> QED
  BY <1>1, <1>2, <1>3, FmvTickInv, FinalizeInv, YieldInv, StopInv, ReadInv, DoneInv, VoiceInv DEF FmvNext

\* What is on screen, in the ring and in the producer's hand, as the stretch of the file it is.
LEMMA ShownRuns ==
    ASSUME NEW cur \in Int, NEW s \in Seq(Nat), RunsFrom(s, cur + 1)
    PROVE  /\ <<cur>> \o s \o <<>> = Run(cur, cur + Len(s))
           /\ \A m \in Nat : m = cur + 1 + Len(s) => <<cur>> \o s \o <<m>> = Run(cur, m)
<1>1. Len(s) \in Nat /\ s \in Seq(Int) /\ <<cur>> \in Seq(Int) /\ <<>> \in Seq(Int)
  OBVIOUS
<1>2. PICK t \in Seq(Int) : t = <<cur>> \o s
  <2>1. <<cur>> \o s \in Seq(Int)
    BY <1>1
  <2> QED
    BY <2>1
<1>3. Len(t) = 1 + Len(s) /\ t[1] = cur /\ \A i \in 2 .. Len(s) + 1 : t[i] = s[i - 1]
  BY <1>1, <1>2
<1>4. RunsFrom(t, cur)
  <2>1. PICK n \in Nat : n = Len(s)
    BY <1>1
  <2>2. \A k \in 1 .. n : s[k] = cur + k
    <3>1. \A k \in 1 .. n : s[k] = (cur + 1) + k - 1
      BY <2>1 DEF RunsFrom
    <3> QED
      BY <3>1
  <2>3. ASSUME NEW i \in 1 .. n + 1
        PROVE  t[i] = cur + i - 1
    <3>1. CASE i = 1
      BY <1>3, <3>1
    <3>2. CASE i # 1
      <4>1. i \in 2 .. n + 1 /\ i - 1 \in 1 .. n
        BY <3>2
      <4>2. t[i] = s[i - 1] /\ s[i - 1] = cur + (i - 1)
        BY <1>3, <2>1, <2>2, <4>1
      <4> QED
        BY <4>2
    <3> QED
      BY <3>1, <3>2
  <2>4. Len(t) = n + 1
    BY <1>3, <2>1
  <2> QED
    BY <2>3, <2>4 DEF RunsFrom
<1>5. t \o <<>> = t
  BY ConcatEmptySeq
<1>6. <<cur>> \o s \o <<>> = Run(cur, cur + Len(s))
  <2>1. t = Run(cur, cur + Len(t) - 1)
    BY <1>4, RunsAreRun
  <2>2. cur + Len(t) - 1 = cur + Len(s)
    BY <1>1, <1>3
  <2> QED
    BY <1>2, <1>5, <2>1, <2>2
<1>7. ASSUME NEW m \in Nat, m = cur + 1 + Len(s)
      PROVE  <<cur>> \o s \o <<m>> = Run(cur, m)
  <2>1. PICK u \in Seq(Int) : u = t \o <<m>>
    <3>1. t \o <<m>> \in Seq(Int)
      OBVIOUS
    <3> QED
      BY <3>1
  <2>2. Len(u) = Len(t) + 1 /\ u[Len(t) + 1] = m /\ \A i \in 1 .. Len(t) : u[i] = t[i]
    BY <2>1
  <2>3. RunsFrom(u, cur)
    <3>1. PICK n \in Nat : n = Len(t)
      OBVIOUS
    <3>2. m = cur + (n + 1) - 1 /\ Len(u) = n + 1
      BY <1>1, <1>3, <1>7, <2>2, <3>1
    <3>3. ASSUME NEW i \in 1 .. n + 1
          PROVE  u[i] = cur + i - 1
      <4>1. CASE i = n + 1
        BY <2>2, <3>1, <3>2, <4>1
      <4>2. CASE i # n + 1
        <5>1. i \in 1 .. n
          BY <4>2
        <5> QED
          BY <1>4, <2>2, <3>1, <5>1 DEF RunsFrom
      <4> QED
        BY <4>1, <4>2
    <3> QED
      BY <3>2, <3>3 DEF RunsFrom
  <2>4. u = Run(cur, cur + Len(u) - 1)
    BY <2>3, RunsAreRun
  <2>5. cur + Len(u) - 1 = m
    BY <1>1, <1>3, <1>7, <2>2
  <2> QED
    BY <1>2, <2>1, <2>4, <2>5
<1> QED
  BY <1>6, <1>7

LEMMA FmvInvExact == FmvInv => ClipExact
<1> SUFFICES ASSUME FmvInv PROVE ClipExact
  OBVIOUS
<1>1. ASSUME player.active, player.kicked, slot_for(player.h)
      PROVE  <<player.cur>> \o slots[player.h].ring \o Held(player.h) = Run(player.cur, fpos[player.fd] - 1)
  <2>1. PICK h \in Handles : h = player.h
    BY <1>1, HereFacts
  <2>2. /\ slots[h].in_use /\ slots[h].fd = player.fd /\ player.cur = NextUp(h) - 1
    BY <1>1, <2>1, FmvParts DEF PlayerGood
  <2>3. PICK s \in SlotRec : s = slots[h]
    BY FmvParts
  <2>4. s.ring \in Seq(Nat) /\ Len(s.ring) \in Nat
    BY SlotFields
  <2>5. Good(s, fpos[s.fd], Taken(h)) /\ s.fd \in Fds
    BY <2>2, <2>3, FmvParts DEF ArbInv, SlotsGood
  <2>6. PICK p \in Nat : p = fpos[s.fd]
    BY <2>5, FmvParts
  <2>7. PICK n \in Nat : n = NextUp(h) /\ n = p - Len(s.ring) - Taken(h) /\ RunsFrom(s.ring, n)
    BY <2>3, <2>5, <2>6 DEF Good, NextUp, Lead
  <2>8. PICK c \in Int : c = player.cur /\ c + 1 = n
    BY <2>2, <2>7
  <2>9. RunsFrom(s.ring, c + 1)
    BY <2>7, <2>8
  <2>10. CASE tick.scratch # <<>> /\ At = h
    <3>1. tick.at < MaxStreams /\ tick.scratch = <<p - 1>> /\ Taken(h) = 1
      BY <2>3, <2>6, <2>10, FmvParts DEF ArbInv, TickGood, Taken
    <3>2. Held(h) = <<p - 1>>
      BY <2>2, <2>10, <3>1 DEF Held
    <3>3. p - 1 = c + 1 + Len(s.ring) /\ p - 1 \in Nat
      BY <2>4, <2>7, <2>8, <3>1
    <3>4. <<c>> \o s.ring \o <<p - 1>> = Run(c, p - 1)
      <4>1. PICK m \in Nat : m = p - 1
        BY <3>3
      <4>2. m = c + 1 + Len(s.ring)
        BY <3>3, <4>1
      <4>3. <<c>> \o s.ring \o <<m>> = Run(c, m)
        BY <2>4, <2>9, <4>2, ShownRuns
      <4> QED
        BY <4>1, <4>3
    <3> QED
      BY <2>1, <2>2, <2>3, <2>6, <2>8, <3>2, <3>4
  <2>11. CASE ~(tick.scratch # <<>> /\ At = h)
    <3>1. Held(h) = <<>> /\ Taken(h) = 0
      BY <2>11 DEF Held, Taken
    <3>2. <<c>> \o s.ring \o <<>> = Run(c, c + Len(s.ring))
      BY <2>4, <2>9, ShownRuns
    <3>3. c + Len(s.ring) = p - 1
      BY <2>4, <2>7, <2>8, <3>1
    <3> QED
      BY <2>1, <2>2, <2>3, <2>6, <2>8, <3>1, <3>2, <3>3
  <2> QED
    BY <2>10, <2>11
<1>2. player.active /\ player.state = "eof" => player.cur = FileLen[player.fd] - 1
  BY FmvParts DEF PlayerGood
<1>3. LET all == audio.heard \o audio.q
      IN \A i, j \in 1 .. Len(all) : i < j /\ all[i][1] = all[j][1] => all[i][2] < all[j][2]
  BY FmvParts DEF AudioGood, AllAudio
<1> QED
  BY <1>1, <1>2, <1>3 DEF ClipExact

-----------------------------------------------------------------------------
\* What h_stream_consume hands a guest is a stretch of its file, in order and without a gap, and
\* it answers "end" only when the file has been popped whole (stream_arbiter_tick, spsc_ring_pop).
THEOREM StreamsAreExact == stream_arbiter_init /\ [][StreamNext]_arbiter => []GuestStreamExact
  BY StreamInitInv, StreamNextInv, StreamInvExact, PTL

\* The frame on show, the ring behind it and the one in the tick's hand are a stretch of the
\* clip, a player that has ended shows the last frame, and a clip's audio blocks are pushed in
\* order (fmv_player.c), if a teardown or a start finds no hook in flight.
THEOREM ClipsAreExact == ASSUME Settled PROVE FmvInit /\ [][FmvNext]_fmvvars => []ClipExact
<1>1. FmvInv /\ [FmvNext]_fmvvars => FmvInv'
  BY FmvNextInv
<1> QED
  BY <1>1, FmvInitInv, FmvInvExact, PTL


-----------------------------------------------------------------------------
(* The worker. *)

Types ==
    /\ g_started \in BOOLEAN /\ g_stop \in BOOLEAN /\ evtOpen \in BOOLEAN
    /\ g_pending_vblanks \in Nat /\ g_evt \in Nat
    /\ asked \in Nat /\ ticked \in Nat /\ lateTicks \in Nat
    /\ workerPc \in {"none", "top", "wait", "woken", "drain", "take", "tick", "ticked"}
    /\ embedderPc \in {"idle", "add", "post", "stopPost", "join", "close"}
    /\ emulatorPc \in {"idle", "add", "post"}

\* A worker runs between a start and the join of the stop that follows it.
Running ==
    /\ workerPc # "none" => g_started /\ evtOpen
    /\ embedderPc # "idle" => g_started
    /\ embedderPc = "close" => workerPc = "none"
    /\ embedderPc \in {"stopPost", "join", "close"} => g_stop

\* The vblank that was taken and whose tick is still to run.
InHand == IF workerPc = "tick" THEN 1 ELSE 0

Counted ==
    /\ ticked + g_pending_vblanks + InHand <= asked
    /\ workerPc = "take" => g_pending_vblanks > 0

\* After a tick that began late the worker only leaves.
Late == lateTicks = 0 \/ (lateTicks = 1 /\ g_stop /\ workerPc \in {"ticked", "top", "none"})

Heard ==
    /\ workerPc = "wait" /\ g_stop => g_evt > 0 \/ embedderPc = "stopPost"
    /\ workerPc \in {"top", "wait"} /\ ~g_stop /\ g_pending_vblanks > 0 =>
          g_evt > 0 \/ embedderPc = "post" \/ emulatorPc = "post"

WorkerInv == Types /\ Running /\ Counted /\ Late /\ Heard

-----------------------------------------------------------------------------
LEMMA WorkerInitInv == WorkerInit => WorkerInv
<1> SUFFICES ASSUME WorkerInit PROVE WorkerInv
  OBVIOUS
<1>1. ~g_started /\ ~g_stop /\ ~evtOpen
  BY DEF WorkerInit
<1>2. /\ g_started \in BOOLEAN /\ g_stop \in BOOLEAN /\ evtOpen \in BOOLEAN
  BY DEF WorkerInit
<1>3. /\ g_pending_vblanks = 0 /\ g_evt = 0 /\ asked = 0 /\ ticked = 0 /\ lateTicks = 0
      /\ workerPc = "none" /\ embedderPc = "idle" /\ emulatorPc = "idle"
  BY DEF WorkerInit
<1> QED
  BY <1>1, <1>2, <1>3 DEF WorkerInv, Types, Running, Counted, InHand, Late, Heard

\* Raising the wake object raises it.
LEMMA PostedFacts == ASSUME g_evt \in Nat PROVE Posted \in Nat /\ Posted > 0
  BY DEF Posted

LEMMA EmbedderInv == ASSUME WorkerInv, Embedder PROVE WorkerInv'
<1> USE DEF WorkerInv, Types, Running, Counted, InHand, Late, Heard
<1>1. CASE mgapi_worker_start
  <2>1. /\ embedderPc = "idle" /\ ~g_started /\ ~g_stop'
        /\ embedderPc' = embedderPc /\ emulatorPc' = emulatorPc
    BY <1>1 DEF mgapi_worker_start
  <2>2. g_stop' \in BOOLEAN
    BY <1>1 DEF mgapi_worker_start
  <2>3. g_pending_vblanks' = 0 /\ asked' = 0 /\ ticked' = 0 /\ lateTicks' = 0
    BY <1>1 DEF mgapi_worker_start
  <2>4. \/ g_started' /\ evtOpen' /\ g_evt' = 0 /\ workerPc' = "top"
        \/ UNCHANGED <<g_started, evtOpen, g_evt, workerPc>>
    BY <1>1 DEF mgapi_worker_start
  <2>5. g_started' \in BOOLEAN /\ evtOpen' \in BOOLEAN
    BY <1>1 DEF mgapi_worker_start
  <2> QED
    BY <2>1, <2>2, <2>3, <2>4, <2>5
<1>2. CASE mgapi_worker_signal
  BY <1>2 DEF mgapi_worker_signal, ghosts
<1>3. CASE SignalAdd
  BY <1>3 DEF SignalAdd
<1>4. CASE SignalPost
  BY <1>4, PostedFacts DEF SignalPost, atomics, ghosts
<1>5. CASE mgapi_worker_stop
  BY <1>5 DEF mgapi_worker_stop, ghosts
<1>6. CASE StopPost
  BY <1>6, PostedFacts DEF StopPost, atomics, ghosts
<1>7. CASE StopJoin
  BY <1>7 DEF StopJoin, atomics, ghosts
<1>8. CASE StopClose
  BY <1>8 DEF StopClose, atomics, ghosts
<1> QED
  BY <1>1, <1>2, <1>3, <1>4, <1>5, <1>6, <1>7, <1>8 DEF Embedder

LEMMA EmulatorInv == ASSUME WorkerInv, Emulator PROVE WorkerInv'
<1> USE DEF WorkerInv, Types, Running, Counted, InHand, Late, Heard
<1>1. CASE mgapi_worker_wake
  BY <1>1 DEF mgapi_worker_wake, atomics, ghosts
<1>2. CASE WakeAdd
  BY <1>2 DEF WakeAdd
<1>3. CASE WakePost
  BY <1>3, PostedFacts DEF WakePost, atomics, ghosts
<1> QED
  BY <1>1, <1>2, <1>3 DEF Emulator

LEMMA EntryInv == ASSUME WorkerInv, worker_entry PROVE WorkerInv'
<1> USE DEF WorkerInv, Types, Running, Counted, InHand, Late, Heard
<1>1. CASE Top
  BY <1>1 DEF Top, atomics, ghosts
<1>2. CASE WaitEvent
  BY <1>2 DEF WaitEvent, Waited, atomics, ghosts
<1>3. CASE Woken
  BY <1>3 DEF Woken, atomics, ghosts
<1>4. CASE DrainLoad
  BY <1>4 DEF DrainLoad, atomics, ghosts
<1>5. CASE DrainTake
  BY <1>5 DEF DrainTake, ghosts
<1>6. CASE DrainTick
  BY <1>6 DEF DrainTick, atomics
<1>7. CASE DrainNext
  BY <1>7 DEF DrainNext, atomics, ghosts
<1> QED
  BY <1>1, <1>2, <1>3, <1>4, <1>5, <1>6, <1>7 DEF worker_entry, worker_drain

LEMMA WorkerNextInv == WorkerInv /\ [WorkerNext]_workervars => WorkerInv'
<1>1. ASSUME WorkerInv, UNCHANGED workervars PROVE WorkerInv'
  BY <1>1 DEF workervars, atomics, ghosts, WorkerInv, Types, Running, Counted, InHand, Late, Heard
<1> QED
  BY <1>1, EmbedderInv, EmulatorInv, EntryInv DEF WorkerNext

LEMMA WorkerInvExact == WorkerInv => TicksExact /\ NothingSleptThrough
<1>1. WorkerInv => TicksExact
  BY DEF WorkerInv, Types, Counted, InHand, Late, TicksExact
<1>2. WorkerInv => NothingSleptThrough
  BY DEF WorkerInv, Types, Running, Heard, NothingSleptThrough
<1> QED
  BY <1>1, <1>2

\* Where the three threads are, and what they have counted, fit together in every state.
THEOREM WorkerInvariance == WorkerSpec => []WorkerInv
  BY WorkerInitInv, WorkerNextInv, PTL DEF WorkerSpec

\* worker_drain runs no tick that was not asked for, and at most one begins after
\* mgapi_worker_stop has set the flag.
THEOREM TicksAreExact == WorkerSpec => []TicksExact
  BY WorkerInvExact, WorkerInvariance, PTL

\* worker_entry never waits for a post that has already been consumed: the safety half of
\* EveryVblankRuns and StopReturns.
THEOREM NothingIsSleptThrough == WorkerSpec => []NothingSleptThrough
  BY WorkerInvExact, WorkerInvariance, PTL

-----------------------------------------------------------------------------
(* The run: one part moves, the others are where they began. *)

ThreadsInv ==
    /\ part = "stream" => StreamInv
    /\ part = "fmv" => FmvInv
    /\ part # "stream" => guest.h = NoHandle
    /\ part # "fmv" => ~player.active /\ audio.heard \o audio.q = <<>>
    /\ PreInv /\ WorkerInv

LEMMA ThreadsInitInv == Init => ThreadsInv
<1> SUFFICES ASSUME Init PROVE ThreadsInv
  OBVIOUS
<1>1. FmvInit /\ PreInit /\ WorkerInit
  BY DEF Init
<1>2. StreamInv /\ FmvInv /\ guest.h = NoHandle
  BY <1>1, StreamInitInv, FmvInitInv, ArbInitInv DEF FmvInit
<1>3. ~player.active
  BY <1>1 DEF FmvInit, Stopped
<1>4. audio.heard \o audio.q = <<>>
  BY <1>1 DEF FmvInit
<1> QED
  BY <1>1, <1>2, <1>3, <1>4, PreInitInv, WorkerInitInv DEF ThreadsInv

LEMMA ThreadsNextInv == ASSUME Settled, ThreadsInv, [Next]_vars PROVE ThreadsInv'
<1>1. CASE Stream(StreamNext)
  <2>1. StreamNext /\ part = "stream" /\ part' = part /\ UNCHANGED <<playervars, prevars, workervars>>
    BY <1>1 DEF Stream
  <2>2. StreamInv'
    BY <2>1, StreamNextInv DEF ThreadsInv
  <2>3. PreInv' /\ WorkerInv'
    BY <2>1, PreNextInv, WorkerNextInv DEF ThreadsInv
  <2>4. player' = player /\ audio' = audio
    BY <2>1 DEF playervars
  <2> QED
    BY <2>1, <2>2, <2>3, <2>4 DEF ThreadsInv
<1>2. CASE Player(FmvNext)
  <2>1. FmvNext /\ part = "fmv" /\ part' = part /\ UNCHANGED <<prevars, workervars>>
    BY <1>2 DEF Player
  <2>2. FmvInv'
    BY <2>1, FmvNextInv DEF ThreadsInv
  <2>3. PreInv' /\ WorkerInv'
    BY <2>1, PreNextInv, WorkerNextInv DEF ThreadsInv
  <2>4. guest'.h = NoHandle
    BY <2>2 DEF FmvInv
  <2> QED
    BY <2>1, <2>2, <2>3, <2>4 DEF ThreadsInv
<1>3. ASSUME UNCHANGED fmvvars, part' = part, PreInv', WorkerInv'
      PROVE  ThreadsInv'
  <2>1. UNCHANGED arbiter /\ player' = player /\ audio' = audio /\ guest' = guest
    BY <1>3 DEF fmvvars, arbiter
  <2>2. part = "stream" => StreamInv'
    BY <2>1, StreamNextInv DEF ThreadsInv
  <2>3. part = "fmv" => FmvInv'
    BY <1>3, FmvNextInv DEF ThreadsInv
  <2> QED
    BY <1>3, <2>1, <2>2, <2>3 DEF ThreadsInv
<1>4. CASE Tasks(PreNext)
  <2>1. PreNext /\ part' = part /\ UNCHANGED <<fmvvars, workervars>>
    BY <1>4 DEF Tasks
  <2> QED
    BY <1>3, <2>1, PreNextInv, WorkerNextInv DEF ThreadsInv
<1>5. CASE Vblank(WorkerNext)
  <2>1. WorkerNext /\ part' = part /\ UNCHANGED <<fmvvars, prevars>>
    BY <1>5 DEF Vblank
  <2> QED
    BY <1>3, <2>1, PreNextInv, WorkerNextInv DEF ThreadsInv
<1>6. CASE UNCHANGED vars
  <2>1. UNCHANGED fmvvars /\ part' = part /\ UNCHANGED <<prevars, workervars>>
    BY <1>6 DEF vars
  <2> QED
    BY <1>3, <2>1, PreNextInv, WorkerNextInv DEF ThreadsInv
<1> QED
  BY <1>1, <1>2, <1>4, <1>5, <1>6 DEF Next

LEMMA ThreadsInvExact == ThreadsInv => StreamsExact
<1> SUFFICES ASSUME ThreadsInv PROVE StreamsExact
  OBVIOUS
<1>1. GuestStreamExact
  BY StreamInvExact DEF ThreadsInv, GuestStreamExact
<1>2. ClipExact
  <2>1. ASSUME ~player.active, audio.heard \o audio.q = <<>>
        PROVE  ClipExact
    <3>1. Len(audio.heard \o audio.q) = 0
      BY <2>1
    <3>2. LET all == audio.heard \o audio.q
          IN \A i, j \in 1 .. Len(all) : i < j /\ all[i][1] = all[j][1] => all[i][2] < all[j][2]
      <4> DEFINE all == audio.heard \o audio.q
      <4>1. \A i \in 1 .. Len(all) : FALSE
        BY <3>1
      <4> HIDE DEF all
      <4>2. \A i, j \in 1 .. Len(all) : i < j /\ all[i][1] = all[j][1] => all[i][2] < all[j][2]
        BY <4>1
      <4> QED
        BY <4>2 DEF all
    <3>3. /\ player.active /\ player.kicked /\ slot_for(player.h) =>
               LET all == <<player.cur>> \o slots[player.h].ring \o Held(player.h)
               IN all = Run(player.cur, fpos[player.fd] - 1)
          /\ player.active /\ player.state = "eof" => player.cur = FileLen[player.fd] - 1
      BY <2>1
    <3> QED
      BY <3>2, <3>3 DEF ClipExact
  <2> QED
    BY <2>1, FmvInvExact DEF ThreadsInv
<1>3. TicksExact /\ NothingSleptThrough
  BY WorkerInvExact DEF ThreadsInv
<1> QED
  BY <1>1, <1>2, <1>3, PreInvComplete DEF ThreadsInv, StreamsExact

\* The stream's elements, the clip's frames and audio, the worker's ticks and waits and the end of
\* the pre-emptive scheduler are exact in every state, for any files, slots, ring depths, plays,
\* tasks and vblanks, if a teardown or a start finds no hook in flight (Settled).
THEOREM StreamsStayExact == ASSUME Settled PROVE Spec => []StreamsExact
<1>1. ThreadsInv /\ [Next]_vars => ThreadsInv'
  BY ThreadsNextInv
<1> QED
  BY <1>1, ThreadsInitInv, ThreadsInvExact, PTL DEF Spec
=============================================================================
