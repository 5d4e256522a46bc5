------------------------ MODULE ServiceChannelProofs ------------------------
(***************************************************************************)
(* The channel's safety for every ring depth, sequence-number width and    *)
(* choice of timed sides: until the sequence number wraps, a call that     *)
(* succeeds got the answer to its own request, and a load that succeeds    *)
(* made an object out of the data that very load staged.                   *)
(*                                                                         *)
(* Neither is inductive.  AnswerIsOwn needs that numbers and calls agree   *)
(* everywhere a message can be (Numbered).  SuccessIsOwnData needs that    *)
(* the channel keeps requests in order (InOrder), for then an answer to    *)
(* the newest call is the last message in flight, and nothing can touch    *)
(* the object after the caller was told of it.                             *)
(*                                                                         *)
(* After them, the loader of VMs: what a load that fails gives back, for   *)
(* every image, number of blocks and way of failing.                       *)
(***************************************************************************)
EXTENDS StagedLoad, VmLoad, WellFoundedInduction, NaturalsInduction, TLAPS

\* The messages a ring holds, and that they are there oldest first.
Held(s) == {s[i] : i \in 1 .. Len(s)}
Rising(s) == \A i, j \in 1 .. Len(s) : i < j => s[i].call < s[j].call

\* The provider has taken pmsg and has not answered it yet.
Busy == ppc \in {"handle", "respond", "toBackoff", "backoff"}

\* channel_request_call is running; its request is not in the ring yet.
InCall == rpc \notin {"idle", "asyncNotify"}
Posting == rpc = "post" \/ (rpc \in {"toWait", "wait"} /\ retry = "post")

\* Every message was numbered, and the request of a call is the newest.
Known ==
    /\ \A m \in Held(req) \cup Held(resp) : m.call \in 1 .. calls
    /\ Busy => pmsg.call \in 1 .. calls
    /\ InCall => rmsg.call = calls /\ calls >= 1

\* Oldest first: answered, in hand, waiting, about to be posted.
InOrder ==
    /\ Rising(resp) /\ Rising(req)
    /\ \A a \in Held(resp), b \in Held(req) : a.call < b.call
    /\ Busy => /\ \A a \in Held(resp) : a.call < pmsg.call
               /\ \A b \in Held(req) : pmsg.call < b.call
    /\ Posting => /\ \A m \in Held(req) \cup Held(resp) : m.call < calls
                  /\ Busy => pmsg.call < calls

\* Before the wrap the sequence number is the number of the call.
Numbered ==
    /\ next_seq = IF calls = SeqMod - 1 THEN 0 ELSE calls + 1
    /\ \A m \in Held(req) \cup Held(resp) : m.seq = m.call
    /\ Busy => pmsg.seq = pmsg.call
    /\ InCall => rmsg.seq = rmsg.call

ChannelInv ==
    /\ TypeOK
    /\ Known
    /\ calls < MaxCalls => InOrder
    /\ calls < SeqMod => Numbered
    /\ AnswerIsOwn

-----------------------------------------------------------------------------
\* A push adds one message, and keeps the order if it is the newest.
LEMMA PushFacts ==
    ASSUME NEW s \in Seq(Msg), NEW m \in Msg
    PROVE  /\ Append(s, m) \in Seq(Msg) /\ Len(s) \in Nat
           /\ Len(Append(s, m)) = Len(s) + 1
           /\ Held(Append(s, m)) = Held(s) \cup {m}
           /\ Rising(s) /\ (\A a \in Held(s) : a.call < m.call)
                => Rising(Append(s, m))
<1> DEFINE t == Append(s, m)
<1>1. /\ t \in Seq(Msg) /\ Len(s) \in Nat /\ Len(t) = Len(s) + 1
      /\ \A i \in 1 .. Len(s) : t[i] = s[i]
      /\ t[Len(s) + 1] = m
  OBVIOUS
<1> HIDE DEF t
<1>2. Held(t) = Held(s) \cup {m}
  <2>1. ASSUME NEW a \in Held(t) PROVE a \in Held(s) \cup {m}
    <3>1. PICK i \in 1 .. Len(t) : a = t[i]
      BY DEF Held
    <3>2. CASE i = Len(s) + 1
      BY <1>1, <3>1, <3>2
    <3>3. CASE i \in 1 .. Len(s)
      BY <1>1, <3>1, <3>3 DEF Held
    <3> QED
      BY <1>1, <3>2, <3>3
  <2>2. ASSUME NEW a \in Held(s) PROVE a \in Held(t)
    <3>1. PICK i \in 1 .. Len(s) : a = s[i]
      BY DEF Held
    <3>2. i \in 1 .. Len(t) /\ a = t[i]
      BY <1>1, <3>1
    <3> QED
      BY <3>2 DEF Held
  <2>3. m \in Held(t)
    <3>1. Len(s) + 1 \in 1 .. Len(t)
      BY <1>1
    <3> QED
      BY <1>1, <3>1 DEF Held
  <2> QED
    BY <2>1, <2>2, <2>3
<1>3. ASSUME Rising(s), \A a \in Held(s) : a.call < m.call,
             NEW i \in 1 .. Len(t), NEW j \in 1 .. Len(t), i < j
      PROVE  t[i].call < t[j].call
  <2>1. i \in 1 .. Len(s) /\ t[i] = s[i] /\ s[i] \in Held(s)
    BY <1>1, <1>3 DEF Held
  <2>2. CASE j \in 1 .. Len(s)
    BY <1>1, <1>3, <2>1, <2>2 DEF Rising
  <2>3. CASE j = Len(s) + 1
    BY <1>1, <1>3, <2>1, <2>3
  <2> QED
    BY <1>1, <2>2, <2>3
<1>4. Rising(s) /\ (\A a \in Held(s) : a.call < m.call) => Rising(t)
  BY <1>3 DEF Rising
<1> QED
  BY <1>1, <1>2, <1>4 DEF t

\* A pop takes the oldest message and leaves the others as they were.
LEMMA PopFacts ==
    ASSUME NEW s \in Seq(Msg), s # <<>>
    PROVE  /\ Tail(s) \in Seq(Msg) /\ Len(s) \in Nat
           /\ Len(Tail(s)) = Len(s) - 1
           /\ Head(s) \in Held(s) /\ Head(s) \in Msg
           /\ Held(Tail(s)) \subseteq Held(s)
           /\ Rising(s) => /\ Rising(Tail(s))
                           /\ \A a \in Held(Tail(s)) : Head(s).call < a.call
<1> DEFINE t == Tail(s)
<1>1. /\ t \in Seq(Msg) /\ Len(s) \in Nat /\ Len(t) = Len(s) - 1
      /\ \A i \in 1 .. Len(t) : t[i] = s[i + 1]
      /\ Head(s) = s[1] /\ 1 \in 1 .. Len(s) /\ Head(s) \in Msg
  OBVIOUS
<1> HIDE DEF t
<1>2. ASSUME NEW i \in 1 .. Len(t) PROVE i + 1 \in 1 .. Len(s) /\ t[i] = s[i + 1]
  BY <1>1
<1>3. Head(s) \in Held(s) /\ Held(t) \subseteq Held(s)
  BY <1>1, <1>2 DEF Held
<1>4. ASSUME Rising(s) PROVE Rising(t)
  <2>1. ASSUME NEW i \in 1 .. Len(t), NEW j \in 1 .. Len(t), i < j
        PROVE  t[i].call < t[j].call
    <3>1. i + 1 < j + 1
      BY <2>1
    <3> QED
      BY <1>2, <1>4, <3>1 DEF Rising
  <2> QED
    BY <2>1 DEF Rising
<1>5. ASSUME Rising(s), NEW a \in Held(t) PROVE Head(s).call < a.call
  <2>1. PICK i \in 1 .. Len(t) : a = t[i]
    BY DEF Held
  <2>2. 1 < i + 1 /\ i + 1 \in 1 .. Len(s) /\ a = s[i + 1]
    BY <1>2, <2>1
  <2> QED
    BY <1>1, <1>5, <2>2 DEF Rising
<1> QED
  BY <1>1, <1>3, <1>4, <1>5 DEF t

LEMMA ChannelInit == Init => ChannelInv
<1> SUFFICES ASSUME Init PROVE ChannelInv
  OBVIOUS
<1>1. Held(req) = {} /\ Held(resp) = {} /\ Rising(req) /\ Rising(resp)
  BY DEF Init, Held, Rising
<1> QED
  BY <1>1, SeqAssumption, BoundAssumption, DepthAssumption
  DEF Init, ChannelInv, TypeOK, Known, InOrder, Numbered, AnswerIsOwn, Busy,
      InCall, Posting, Msg, NoMsg, Party

\* service_channel_next_seq: a number is handed out and, until the wrap, it
\* is the number of the call.
LEMMA AllocateFacts ==
    ASSUME TypeOK, AllocateSeq
    PROVE  /\ FreshSeq \in 1 .. SeqMod - 1
           /\ next_seq' \in 0 .. SeqMod - 1
           /\ calls' \in 1 .. MaxCalls /\ calls <= calls'
           /\ calls' < MaxCalls => calls' = calls + 1
           /\ calls' < SeqMod /\ Numbered =>
                /\ FreshSeq = calls'
                /\ next_seq' = IF calls' = SeqMod - 1 THEN 0 ELSE calls' + 1
<1>1. next_seq \in 0 .. SeqMod - 1 /\ calls \in 0 .. MaxCalls
  BY DEF TypeOK
<1>2. FreshSeq \in 1 .. SeqMod - 1
  BY <1>1, SeqAssumption DEF FreshSeq
<1>3. next_seq' = IF FreshSeq = SeqMod - 1 THEN 0 ELSE FreshSeq + 1
  BY <1>2, SeqAssumption DEF AllocateSeq
<1> QED
  BY <1>1, <1>2, <1>3, SeqAssumption, BoundAssumption
  DEF AllocateSeq, Numbered, FreshSeq

\* The requester's own steps.
LEMMA RequesterStepInv ==
    ASSUME ChannelInv, RequesterStep
    PROVE  ChannelInv'
<1> USE SeqAssumption, BoundAssumption, DepthAssumption
    DEF ring, rvars, pvars, Busy, InCall, Posting
<1> TypeOK /\ Known /\ AnswerIsOwn
  BY DEF ChannelInv
<1>1. CASE CallPost /\ Len(req) < Depth
  <2>1. /\ rpc = "post" /\ rpc' = "notify" /\ Len(req) < Depth
        /\ UNCHANGED <<resp, notified, next_seq, calls, rmsg, retry, result, ppc, pmsg>>
        /\ req' = Append(req, rmsg) /\ req \in Seq(Msg) /\ rmsg \in Msg
    BY <1>1 DEF CallPost, TypeOK
  <2>2. TypeOK'
    BY <2>1, PushFacts DEF TypeOK
  <2>3. Known'
    BY <2>1, PushFacts DEF TypeOK, Known
  <2>4. calls < MaxCalls => InOrder'
    BY <2>1, PushFacts DEF TypeOK, Known, InOrder, ChannelInv
  <2>5. calls < SeqMod => Numbered'
    BY <2>1, PushFacts DEF TypeOK, Numbered, ChannelInv
  <2>6. AnswerIsOwn'
    BY <2>1 DEF TypeOK, AnswerIsOwn
  <2> QED
    BY <2>1, <2>2, <2>3, <2>4, <2>5, <2>6 DEF ChannelInv
<1>0. CASE CallPost /\ ~(Len(req) < Depth)
  BY <1>0 DEF CallPost, ChannelInv, TypeOK, Known, InOrder, Numbered, AnswerIsOwn
<1>2. CASE CallNotify
  BY <1>2 DEF CallNotify, Notify, Party, ChannelInv, TypeOK, Known, InOrder, Numbered, AnswerIsOwn
<1>3. CASE CallMatch
  <2>1. /\ rpc = "poll" /\ rpc' = "idle" /\ resp # <<>> /\ Head(resp).seq = rmsg.seq
        /\ resp' = Tail(resp) /\ resp \in Seq(Msg) /\ Head(resp) \in Msg
        /\ result' = [ok |-> TRUE, call |-> Head(resp).call, own |-> rmsg.call]
        /\ UNCHANGED <<req, notified, next_seq, calls, rmsg, retry, ppc, pmsg>>
    BY <1>3 DEF CallMatch, Return, TypeOK
  <2>0. Head(resp) \in Msg /\ rmsg \in Msg
    BY <2>1 DEF TypeOK
  <2>9. result' \in [ok : BOOLEAN, call : 0 .. MaxCalls, own : 0 .. MaxCalls]
    BY <2>1, <2>0 DEF Msg
  <2>2. TypeOK'
    BY <2>1, <2>9, PopFacts DEF TypeOK
  <2>3. Known'
    BY <2>1, PopFacts DEF TypeOK, Known
  <2>4. calls < MaxCalls => InOrder'
    BY <2>1, PopFacts DEF TypeOK, Known, InOrder, ChannelInv
  <2>5. calls < SeqMod => Numbered'
    BY <2>1, PopFacts DEF TypeOK, Numbered, ChannelInv
  <2>6. AnswerIsOwn'
    BY <2>1, PopFacts DEF TypeOK, Numbered, ChannelInv, AnswerIsOwn
  <2> QED
    BY <2>1, <2>2, <2>3, <2>4, <2>5, <2>6 DEF ChannelInv
<1>4. CASE CallStray
  <2>1. /\ resp # <<>> /\ resp' = Tail(resp) /\ resp \in Seq(Msg)
        /\ UNCHANGED <<req, notified, next_seq, calls, rpc, rmsg, retry, result, ppc, pmsg>>
    BY <1>4 DEF CallStray, TypeOK
  <2>2. TypeOK'
    BY <2>1, PopFacts DEF TypeOK
  <2>3. Known'
    BY <2>1, PopFacts DEF TypeOK, Known
  <2>4. calls < MaxCalls => InOrder'
    BY <2>1, PopFacts DEF TypeOK, Known, InOrder, ChannelInv
  <2>5. calls < SeqMod => Numbered'
    BY <2>1, PopFacts DEF TypeOK, Numbered, ChannelInv
  <2>6. AnswerIsOwn'
    BY <2>1 DEF TypeOK, AnswerIsOwn
  <2> QED
    BY <2>1, <2>2, <2>3, <2>4, <2>5, <2>6 DEF ChannelInv
<1>5. CASE CallEmpty
  BY <1>5 DEF CallEmpty, ChannelInv, TypeOK, Known, InOrder, Numbered, AnswerIsOwn
<1>6. CASE CallWait
  BY <1>6 DEF CallWait, WaitEnter, Party, ChannelInv, TypeOK, Known, InOrder, Numbered, AnswerIsOwn
<1>7. CASE CallWoken
  BY <1>7 DEF CallWoken, WaitWoken, ChannelInv, TypeOK, Known, InOrder, Numbered, AnswerIsOwn
<1>8. CASE CallTimeout
  BY <1>8 DEF CallTimeout, WaitTimeout, Return, Msg, ChannelInv, TypeOK, Known, InOrder, Numbered, AnswerIsOwn
<1>9. CASE AsyncNotify
  BY <1>9 DEF AsyncNotify, Notify, Party, ChannelInv, TypeOK, Known, InOrder, Numbered, AnswerIsOwn
<1> QED
  BY <1>0, <1>1, <1>2, <1>3, <1>4, <1>5, <1>6, <1>7, <1>8, <1>9 DEF RequesterStep

\* What the guest starts: a call, a post, or draining one answer.
LEMMA RequesterChoiceInv ==
    ASSUME ChannelInv, RequesterChoice
    PROVE  ChannelInv'
<1> USE SeqAssumption, BoundAssumption, DepthAssumption
    DEF ring, rvars, pvars, Busy, InCall, Posting
<1> TypeOK /\ Known /\ AnswerIsOwn
  BY DEF ChannelInv
<1>1. CASE CallStart
  <2>1. /\ AllocateSeq /\ rpc = "idle" /\ rpc' = "post"
        /\ rmsg' = [seq |-> FreshSeq, expects |-> TRUE, call |-> calls']
        /\ rmsg'.seq = FreshSeq /\ rmsg'.call = calls'
        /\ UNCHANGED <<req, resp, notified, retry, result, ppc, pmsg>>
    BY <1>1 DEF CallStart
  <2>2. TypeOK'
    BY <2>1, AllocateFacts DEF TypeOK, Msg
  <2>3. Known'
    BY <2>1, AllocateFacts DEF TypeOK, Known
  <2>4. calls' < MaxCalls => InOrder'
    BY <2>1, AllocateFacts DEF TypeOK, Known, InOrder, ChannelInv
  <2>5. calls' < SeqMod => Numbered'
    BY <2>1, AllocateFacts DEF TypeOK, Numbered, ChannelInv
  <2>6. AnswerIsOwn'
    BY <2>1, AllocateFacts DEF TypeOK, AnswerIsOwn
  <2> QED
    BY <2>1, AllocateFacts, <2>2, <2>3, <2>4, <2>5, <2>6 DEF ChannelInv
<1>2. CASE AsyncDrain
  <2>1. /\ resp # <<>> /\ resp' = Tail(resp) /\ resp \in Seq(Msg)
        /\ UNCHANGED <<req, notified, next_seq, calls, rpc, rmsg, retry, result, ppc, pmsg>>
    BY <1>2 DEF AsyncDrain, TypeOK
  <2>2. TypeOK'
    BY <2>1, PopFacts DEF TypeOK
  <2>3. Known'
    BY <2>1, PopFacts DEF TypeOK, Known
  <2>4. calls < MaxCalls => InOrder'
    BY <2>1, PopFacts DEF TypeOK, Known, InOrder, ChannelInv
  <2>5. calls < SeqMod => Numbered'
    BY <2>1, PopFacts DEF TypeOK, Numbered, ChannelInv
  <2>6. AnswerIsOwn'
    BY <2>1 DEF TypeOK, AnswerIsOwn
  <2> QED
    BY <2>1, <2>2, <2>3, <2>4, <2>5, <2>6 DEF ChannelInv
<1>3. ASSUME NEW expects \in BOOLEAN, AsyncPost(expects)
      PROVE  ChannelInv'
  <2> DEFINE m == [seq |-> FreshSeq, expects |-> expects, call |-> calls']
  <2>0. AllocateSeq /\ m \in Msg
    BY <1>3, AllocateFacts DEF AsyncPost, Msg
  <2>1. /\ rpc = "idle" /\ rpc' = "asyncNotify" /\ Len(req) < Depth
        /\ req' = Append(req, m) /\ req \in Seq(Msg) /\ AllocateSeq
        /\ m \in Msg /\ m.seq = FreshSeq /\ m.call = calls'
        /\ UNCHANGED <<resp, notified, rmsg, retry, result, ppc, pmsg>>
    BY <1>3, <2>0 DEF AsyncPost, TypeOK
  <2> HIDE DEF m
  <2>2. /\ Held(req') = Held(req) \cup {m}
        /\ Rising(req) /\ (\A a \in Held(req) : a.call < m.call) => Rising(req')
    BY <2>1, PushFacts
  <2>3. TypeOK'
    BY <2>1, AllocateFacts, PushFacts DEF TypeOK
  <2>4. Known'
    BY <2>1, <2>2, AllocateFacts DEF TypeOK, Known
  <2>5. ASSUME calls' < MaxCalls PROVE InOrder'
    <3>1. calls \in Nat /\ calls' = calls + 1 /\ calls < MaxCalls /\ InOrder
      BY <2>1, <2>5, AllocateFacts DEF TypeOK, ChannelInv
    <3>2. /\ rpc = "idle" /\ rpc' = "asyncNotify" /\ m.call = calls + 1
          /\ UNCHANGED <<resp, ppc, pmsg>>
      BY <2>1, <3>1
    <3> QED
      BY <2>2, <3>1, <3>2 DEF Known, InOrder
  <2>6. calls' < SeqMod => Numbered'
    BY <2>1, <2>2, AllocateFacts DEF TypeOK, Numbered, ChannelInv
  <2>7. AnswerIsOwn'
    BY <2>1, AllocateFacts DEF TypeOK, AnswerIsOwn
  <2> QED
    BY <2>1, <2>3, <2>4, <2>5, <2>6, <2>7 DEF ChannelInv
<1> QED
  BY <1>1, <1>2, <1>3 DEF RequesterChoice

\* The provider's loop.
LEMMA ProviderStepInv ==
    ASSUME ChannelInv, ProviderStep
    PROVE  ChannelInv'
<1> USE SeqAssumption, BoundAssumption, DepthAssumption
    DEF ring, rvars, pvars, Busy, InCall, Posting
<1> TypeOK /\ Known /\ AnswerIsOwn
  BY DEF ChannelInv
<1>1. CASE ProviderPoll /\ req # <<>>
  <2>1. /\ ppc = "poll" /\ ppc' = "handle" /\ req # <<>>
        /\ req' = Tail(req) /\ req \in Seq(Msg) /\ pmsg' = Head(req)
        /\ UNCHANGED <<resp, notified, next_seq, calls, rpc, rmsg, retry, result>>
    BY <1>1 DEF ProviderPoll, TypeOK
  <2>2. TypeOK'
    BY <2>1, PopFacts DEF TypeOK
  <2>3. Known'
    BY <2>1, PopFacts DEF TypeOK, Known
  <2>4. calls < MaxCalls => InOrder'
    BY <2>1, PopFacts DEF TypeOK, Known, InOrder, ChannelInv
  <2>5. calls < SeqMod => Numbered'
    BY <2>1, PopFacts DEF TypeOK, Numbered, ChannelInv
  <2>6. AnswerIsOwn'
    BY <2>1 DEF TypeOK, AnswerIsOwn
  <2> QED
    BY <2>1, <2>2, <2>3, <2>4, <2>5, <2>6 DEF ChannelInv
<1>0. CASE ProviderPoll /\ req = <<>>
  BY <1>0 DEF ProviderPoll, ChannelInv, TypeOK, Known, InOrder, Numbered, AnswerIsOwn
<1>2. CASE ProviderHandle
  BY <1>2 DEF ProviderHandle, ChannelInv, TypeOK, Known, InOrder, Numbered, AnswerIsOwn
<1>3. CASE ProviderRespond /\ Len(resp) < Depth
  <2>1. /\ ppc = "respond" /\ ppc' = "notify" /\ Len(resp) < Depth
        /\ resp' = Append(resp, pmsg) /\ resp \in Seq(Msg) /\ pmsg \in Msg
        /\ UNCHANGED <<req, notified, next_seq, calls, rpc, rmsg, retry, result, pmsg>>
    BY <1>3 DEF ProviderRespond, TypeOK
  <2>2. /\ Held(resp') = Held(resp) \cup {pmsg}
        /\ Rising(resp) /\ (\A a \in Held(resp) : a.call < pmsg.call) => Rising(resp')
    BY <2>1, PushFacts
  <2>3. TypeOK'
    BY <2>1, PushFacts DEF TypeOK
  <2>4. Known'
    BY <2>1, <2>2 DEF Known
  <2>5. ASSUME calls < MaxCalls PROVE InOrder'
    <3>1. InOrder
      BY <2>5 DEF ChannelInv
    <3>2. /\ ppc = "respond" /\ ppc' = "notify"
          /\ UNCHANGED <<req, calls, rpc, retry, pmsg>>
      BY <2>1
    <3> QED
      BY <2>2, <3>1, <3>2 DEF InOrder
  <2>6. calls < SeqMod => Numbered'
    BY <2>1, <2>2 DEF Numbered, ChannelInv
  <2>7. AnswerIsOwn'
    BY <2>1 DEF AnswerIsOwn
  <2> QED
    BY <2>1, <2>3, <2>4, <2>5, <2>6, <2>7 DEF ChannelInv
<1>7. CASE ProviderRespond /\ ~(Len(resp) < Depth)
  BY <1>7 DEF ProviderRespond, ChannelInv, TypeOK, Known, InOrder, Numbered, AnswerIsOwn
<1>4. CASE ProviderNotify
  BY <1>4 DEF ProviderNotify, Notify, Party, ChannelInv, TypeOK, Known, InOrder, Numbered, AnswerIsOwn
<1>5. CASE ProviderWait
  BY <1>5 DEF ProviderWait, WaitEnter, Party, ChannelInv, TypeOK, Known, InOrder, Numbered, AnswerIsOwn
<1>6. CASE ProviderWaitOver
  BY <1>6 DEF ProviderWaitOver, WaitWoken, WaitTimeout, ChannelInv, TypeOK, Known, InOrder, Numbered, AnswerIsOwn
<1> QED
  BY <1>0, <1>1, <1>2, <1>3, <1>4, <1>5, <1>6, <1>7 DEF ProviderStep

LEMMA ChannelNext == ChannelInv /\ [Next]_vars => ChannelInv'
<1>1. ASSUME ChannelInv, UNCHANGED vars
      PROVE  ChannelInv'
  BY <1>1 DEF vars, ring, rvars, pvars, ChannelInv, TypeOK, Known, InOrder,
              Numbered, AnswerIsOwn, Busy, InCall, Posting
<1> QED
  BY <1>1, RequesterStepInv, RequesterChoiceInv, ProviderStepInv DEF Next
\* The history of a call: who asks, who is answered and what the caller is told agree.
THEOREM ChannelInvariance == Spec => []ChannelInv
  BY ChannelInit, ChannelNext, PTL DEF Spec

\* TypeOK, for every depth, width and choice of timed sides: the ring bounds and the reserved
\* sequence number 0 of service_channel_next_seq included.
THEOREM ChannelTypeCorrect == Spec => []TypeOK
<1>1. ChannelInv => TypeOK
  BY DEF ChannelInv
<1> QED
  BY <1>1, ChannelInvariance, PTL

\* AnswerIsOwn: a call that succeeds got the provider's answer to that very call, not a late
\* answer to one that timed out, until the sequence number wraps (service_channel.c:98).
THEOREM AnswerIsAlwaysOwn == Spec => []AnswerIsOwn
<1>1. ChannelInv => AnswerIsOwn
  BY DEF ChannelInv
<1> QED
  BY <1>1, ChannelInvariance, PTL

\* RequestsInOrder: requests waiting, in hand and answered are distinct calls, oldest first.
THEOREM RequestsStayInOrder == Spec => []RequestsInOrder
<1>1. ChannelInv => RequestsInOrder
  <2> SUFFICES ASSUME ChannelInv, calls < MaxCalls,
                      NEW i \in 1 .. Len(InFlight), NEW j \in 1 .. Len(InFlight), i < j
               PROVE  InFlight[i].call < InFlight[j].call
    BY DEF RequestsInOrder
  <2> DEFINE mid == IF Busy THEN <<pmsg>> ELSE <<>>
  <2>1. /\ resp \in Seq(Msg) /\ req \in Seq(Msg) /\ pmsg \in Msg /\ mid \in Seq(Msg)
        /\ InFlight = (resp \o mid) \o req
        /\ Len(mid) \in {0, 1} /\ (Len(mid) = 1 => Busy /\ mid[1] = pmsg)
    BY DEF ChannelInv, TypeOK, InFlight, Busy
  <2>2. InOrder
    BY DEF ChannelInv
  <2> HIDE DEF mid
  <2> DEFINE r == Len(resp)
             rm == r + Len(mid)
  <2>3. /\ r \in Nat /\ rm \in {r, r + 1} /\ Len(req) \in Nat
        /\ rm = r + 1 => Busy /\ mid[1] = pmsg
        /\ Len(InFlight) = rm + Len(req)
        /\ \A k \in 1 .. Len(InFlight) :
              InFlight[k] = IF k <= r THEN resp[k]
                            ELSE IF k <= rm THEN mid[k - r] ELSE req[k - rm]
    <3>0. /\ r \in Nat /\ rm \in {r, r + 1} /\ Len(req) \in Nat
          /\ rm = r + 1 => Len(mid) = 1
      <4>1. r \in Nat /\ Len(req) \in Nat /\ Len(mid) \in {0, 1}
        BY <2>1
      <4>2. \A a \in Nat, b \in {0, 1} : a + b \in {a, a + 1} /\ (a + b = a + 1 => b = 1)
        OBVIOUS
      <4> QED
        BY <4>1, <4>2, Zenon
    <3>1. rm = r + 1 => Busy /\ mid[1] = pmsg
      BY <2>1, <3>0, Zenon
    <3>2. /\ Len(resp \o mid) = rm /\ resp \o mid \in Seq(Msg)
          /\ \A k \in 1 .. rm : (resp \o mid)[k] = IF k <= r THEN resp[k] ELSE mid[k - r]
      BY <2>1
    <3>3. /\ Len(InFlight) = rm + Len(req)
          /\ \A k \in 1 .. Len(InFlight) :
                InFlight[k] = IF k <= rm THEN (resp \o mid)[k] ELSE req[k - rm]
      BY <2>1, <3>2
    <3> HIDE DEF r, rm
    <3>4. ASSUME NEW k \in 1 .. Len(InFlight)
          PROVE  InFlight[k] = IF k <= r THEN resp[k]
                               ELSE IF k <= rm THEN mid[k - r] ELSE req[k - rm]
      <4>1. k <= rm => k \in 1 .. rm
        BY <3>0, <3>3
      <4>2. k <= r => k <= rm
        BY <3>0, <3>3
      <4> QED
        BY <3>2, <3>3, <4>1, <4>2
    <3> QED
      BY <3>0, <3>1, <3>3, <3>4
  <2> HIDE DEF r, rm
  <2>4. ASSUME NEW k \in 1 .. Len(InFlight), k <= r
        PROVE  k \in 1 .. Len(resp) /\ InFlight[k] = resp[k] /\ resp[k] \in Held(resp)
    BY <2>3, <2>4 DEF Held, r
  <2>5. ASSUME NEW k \in 1 .. Len(InFlight), r < k, k <= rm
        PROVE  k = r + 1 /\ Busy /\ InFlight[k] = pmsg
    BY <2>3, <2>5
  <2>6. ASSUME NEW k \in 1 .. Len(InFlight), rm < k
        PROVE  /\ k - rm \in 1 .. Len(req)
               /\ InFlight[k] = req[k - rm] /\ req[k - rm] \in Held(req)
    <3>1. k - rm \in 1 .. Len(req) /\ ~(k <= r) /\ ~(k <= rm)
      BY <2>3, <2>6
    <3> QED
      BY <2>3, <2>6, <3>1 DEF Held
  <2>7. CASE j <= r
    BY <2>2, <2>3, <2>4, <2>7 DEF InOrder, Rising
  <2>8. CASE r < j /\ j <= rm
    <3>1. i <= r
      BY <2>3, <2>5, <2>8
    <3> QED
      BY <2>2, <2>4, <2>5, <2>8, <3>1 DEF InOrder
  <2>9. CASE rm < j
    <3>1. CASE i <= r
      BY <2>2, <2>4, <2>6, <2>9, <3>1 DEF InOrder
    <3>2. CASE r < i /\ i <= rm
      BY <2>2, <2>5, <2>6, <2>9, <3>2 DEF InOrder
    <3>3. CASE rm < i
      <4>1. i - rm < j - rm
        BY <2>3
      <4> QED
        BY <2>2, <2>6, <2>9, <3>3, <4>1 DEF InOrder, Rising
    <3> QED
      BY <2>3, <3>1, <3>2, <3>3
  <2> QED
    BY <2>3, <2>7, <2>8, <2>9
<1> QED
  BY <1>1, ChannelInvariance, PTL

-----------------------------------------------------------------------------
\* A load's exchange uses the channel: LoadStart is a call, LoadHandle the handling of one.
LEMMA StagedStep == [StagedNext]_svars => [Next]_vars
  BY DEF StagedNext, LoadStart, LoadHandle, OtherStep, ProviderOther, svars, Next,
         RequesterChoice, ProviderStep

\* The messages the service has handled and the requester has not seen yet.
Handled == Held(resp) \cup (IF ppc \in {"respond", "toBackoff", "backoff"} THEN {pmsg} ELSE {})

\* Until the numbers wrap: what is staged is the running call's, so is what a handled load
\* of it made, and nothing in flight can touch the object a caller was told of.
Exchange ==
    /\ \A c \in 1 .. MaxCalls : c > calls => object[c] = NotALoad
    /\ InCall /\ object[calls] # NotALoad => staging = calls
    /\ \A m \in Handled : InCall /\ m.call = calls => object[calls] \in {NotALoad, calls}
    /\ result.ok => /\ result.own \in 1 .. calls
                    /\ InCall => result.own < calls
                    /\ Busy => pmsg.call # result.own
                    /\ \A m \in Held(req) : m.call # result.own

StagedInv ==
    /\ ChannelInv
    /\ staging \in 0 .. MaxCalls
    /\ object \in [1 .. MaxCalls -> -1 .. MaxCalls]
    /\ calls < SeqMod => Exchange
    /\ SuccessIsOwnData

LEMMA StagedInitInv == StagedInit => StagedInv
<1> SUFFICES ASSUME StagedInit PROVE StagedInv
  OBVIOUS
<1>1. ChannelInv
  BY ChannelInit DEF StagedInit
<1>2. Handled = {} /\ Held(req) = {} /\ calls = 0 /\ ~InCall /\ ~Busy /\ ~result.ok
  BY DEF StagedInit, Init, Held, Handled, InCall, Busy
<1> QED
  BY <1>1, <1>2, BoundAssumption, SeqAssumption
  DEF StagedInit, StagedInv, Exchange, SuccessIsOwnData, NotALoad

\* What every step may use while the numbers have not wrapped.
LEMMA BeforeTheWrap ==
    ASSUME StagedInv, calls < SeqMod
    PROVE  /\ Known /\ InOrder /\ Numbered /\ Exchange /\ TypeOK
           /\ calls \in Nat /\ calls < MaxCalls
           /\ 1 .. calls \subseteq 1 .. MaxCalls
  BY BoundAssumption, SeqAssumption DEF StagedInv, ChannelInv, TypeOK

LEMMA LoadStartInv ==
    ASSUME StagedInv, LoadStart, ChannelInv'
    PROVE  StagedInv'
<1>1. /\ AllocateSeq /\ rpc = "idle" /\ rpc' = "post"
      /\ UNCHANGED <<req, resp, result, ppc, pmsg>>
      /\ staging' = calls' /\ object' = [object EXCEPT ![calls'] = 0]
  BY DEF LoadStart, CallStart, pvars, ring
<1>2. calls' \in 1 .. MaxCalls /\ calls <= calls' /\ (calls' < MaxCalls => calls' = calls + 1)
  BY <1>1, AllocateFacts DEF StagedInv, ChannelInv
<1>3. staging' \in 0 .. MaxCalls /\ object' \in [1 .. MaxCalls -> -1 .. MaxCalls]
  BY <1>1, <1>2, BoundAssumption DEF StagedInv
<1>4. ASSUME calls' < SeqMod PROVE Exchange' /\ SuccessIsOwnData'
  <2>1. /\ Known /\ Exchange /\ calls \in Nat /\ calls' = calls + 1 /\ SuccessIsOwnData
        /\ calls < SeqMod /\ 1 .. calls \subseteq 1 .. MaxCalls
    BY <1>2, <1>4, BeforeTheWrap, SeqAssumption, BoundAssumption
    DEF StagedInv, ChannelInv, TypeOK
  <2>2. \A c \in 1 .. MaxCalls : object'[c] = IF c = calls' THEN 0 ELSE object[c]
    BY <1>1, <1>2 DEF StagedInv
  <2>3. \A m \in Handled' : m.call < calls'
    BY <1>1, <2>1 DEF Known, Handled, Busy
  <2>4. Exchange'
    BY <1>1, <1>2, <2>1, <2>2, <2>3 DEF Exchange, InCall, Busy, Known
  <2>5. SuccessIsOwnData'
    BY <1>1, <1>2, <2>1, <2>2 DEF SuccessIsOwnData, Exchange
  <2> QED
    BY <2>4, <2>5
<1> QED
  BY <1>3, <1>4 DEF StagedInv, SuccessIsOwnData

LEMMA LoadHandleInv ==
    ASSUME StagedInv, LoadHandle, ChannelInv'
    PROVE  StagedInv'
<1>1. /\ ppc = "handle" /\ ppc' \in {"respond", "poll"}
      /\ UNCHANGED <<req, resp, calls, rpc, result, pmsg, staging>>
      /\ object' = IF object[pmsg.call] = NotALoad THEN object
                   ELSE [object EXCEPT ![pmsg.call] = staging]
  BY DEF LoadHandle, ProviderHandle, rvars, ring
<1>2. object' \in [1 .. MaxCalls -> -1 .. MaxCalls]
  <2>1. staging \in -1 .. MaxCalls /\ object \in [1 .. MaxCalls -> -1 .. MaxCalls]
    BY BoundAssumption DEF StagedInv
  <2> QED
    BY <1>1, <2>1
<1>3. ASSUME calls < SeqMod PROVE Exchange' /\ SuccessIsOwnData'
  <2>1. /\ Known /\ InOrder /\ Exchange /\ calls \in Nat /\ SuccessIsOwnData
        /\ pmsg.call \in 1 .. calls /\ pmsg.call \in 1 .. MaxCalls
        /\ 1 .. calls \subseteq 1 .. MaxCalls
    BY <1>1, <1>3, BeforeTheWrap DEF StagedInv, Known, Busy
  <2>2. \A c \in 1 .. MaxCalls :
            object'[c] = IF c = pmsg.call /\ object[c] # NotALoad THEN staging ELSE object[c]
    BY <1>1, <2>1 DEF StagedInv
  <2>3. /\ \A m \in Handled' : m \in Held(resp) \/ m = pmsg
        /\ \A m \in Held(resp) : m \in Handled /\ m.call < pmsg.call
    BY <1>1, <2>1 DEF Handled, InOrder, Busy
  <2>4. InCall' = InCall /\ (InCall => calls \in 1 .. MaxCalls)
    BY <1>1, <2>1 DEF InCall, Known
  <2>5. /\ \A c \in 1 .. MaxCalls : c > calls => object'[c] = NotALoad
        /\ InCall /\ object'[calls] # NotALoad => staging = calls
    BY <2>1, <2>2, <2>4 DEF Exchange
  <2>6. \A m \in Handled' : InCall /\ m.call = calls => object'[calls] \in {NotALoad, calls}
    BY <2>1, <2>2, <2>3, <2>4 DEF Exchange
  <2>7. Exchange'
    BY <1>1, <2>1, <2>4, <2>5, <2>6 DEF Exchange, Busy
  <2>8. SuccessIsOwnData'
    BY <1>1, <2>1, <2>2 DEF SuccessIsOwnData, Exchange, Busy
  <2> QED
    BY <2>7, <2>8
<1> QED
  BY <1>1, <1>2, <1>3 DEF StagedInv, SuccessIsOwnData

\* Everything else leaves the staging buffer and the objects alone.
LEMMA OtherStepInv ==
    ASSUME StagedInv, OtherStep, ChannelInv'
    PROVE  StagedInv'
<1>1. UNCHANGED <<staging, object>>
  BY DEF OtherStep
<1>2. calls \in Nat /\ calls' \in Nat /\ calls <= calls'
  <2>1. TypeOK /\ calls \in Nat /\ calls' \in Nat
    BY BoundAssumption DEF StagedInv, ChannelInv, TypeOK
  <2>2. UNCHANGED calls \/ AllocateSeq
    BY DEF OtherStep, RequesterStep, RequesterChoice, ProviderOther, CallPost, CallNotify,
           CallMatch, CallStray, CallEmpty, CallWait, CallWoken, CallTimeout, AsyncNotify,
           CallStart, AsyncDrain, AsyncPost, ProviderPoll, ProviderRespond, ProviderNotify,
           ProviderWait, ProviderWaitOver, rvars
  <2> QED
    BY <2>1, <2>2, AllocateFacts
<1> SUFFICES ASSUME calls' < SeqMod PROVE Exchange' /\ SuccessIsOwnData'
  BY <1>1 DEF StagedInv, SuccessIsOwnData
<1>3. /\ Known /\ InOrder /\ Numbered /\ Exchange /\ TypeOK /\ SuccessIsOwnData
      /\ calls < SeqMod /\ 1 .. calls \subseteq 1 .. MaxCalls
  BY <1>2, BeforeTheWrap, SeqAssumption DEF StagedInv
<1> USE DEF rvars, pvars, ring
<1>4. CASE CallPost
  <2>1. /\ InCall /\ InCall' /\ UNCHANGED <<resp, calls, result, ppc, pmsg>>
        /\ Held(req') \subseteq Held(req) \cup {rmsg}
    BY <1>3, <1>4, PushFacts DEF CallPost, InCall, TypeOK
  <2> QED
    BY <1>1, <1>2, <1>3, <2>1 DEF Exchange, SuccessIsOwnData, Handled, Busy, Known
<1>5. CASE CallNotify \/ CallEmpty \/ CallWait \/ CallWoken
  <2>1. InCall /\ InCall' /\ UNCHANGED <<req, resp, calls, result, ppc, pmsg>>
    BY <1>3, <1>5 DEF CallNotify, CallEmpty, CallWait, CallWoken, InCall, TypeOK
  <2> QED
    BY <1>1, <1>3, <2>1 DEF Exchange, SuccessIsOwnData, Handled, Busy
<1>6. CASE CallMatch
  <2>1. /\ InCall /\ ~InCall' /\ UNCHANGED <<req, calls, ppc, pmsg>>
        /\ result'.ok /\ result'.own = rmsg.call /\ Head(resp).seq = rmsg.seq
        /\ Head(resp) \in Held(resp) /\ resp # <<>>
    BY <1>3, <1>6, PopFacts DEF CallMatch, Return, InCall, TypeOK
  <2>2. rmsg.call = calls /\ Head(resp).call = calls /\ calls \in 1 .. calls
    BY <1>2, <1>3, <2>1 DEF Known, Numbered
  <2>3. /\ \A m \in Held(req) : m.call # calls
        /\ Busy => pmsg.call # calls
    BY <1>2, <1>3, <2>1, <2>2 DEF InOrder, Known
  <2>4. object[calls] \in {NotALoad, calls}
    BY <1>3, <2>1, <2>2 DEF Exchange, Handled
  <2> QED
    BY <1>1, <1>2, <1>3, <2>1, <2>2, <2>3, <2>4 DEF Exchange, SuccessIsOwnData, Busy
<1>7. CASE CallStray \/ AsyncDrain
  <2>1. /\ UNCHANGED <<req, calls, rpc, result, ppc, pmsg>>
        /\ Held(resp') \subseteq Held(resp)
    BY <1>3, <1>7, PopFacts DEF CallStray, AsyncDrain, TypeOK
  <2> QED
    BY <1>1, <1>3, <2>1 DEF Exchange, SuccessIsOwnData, Handled, Busy, InCall
<1>8. CASE CallTimeout
  <2>1. ~InCall' /\ ~result'.ok /\ UNCHANGED calls
    BY <1>8 DEF CallTimeout, Return, InCall
  <2> QED
    BY <1>1, <1>3, <2>1 DEF Exchange, SuccessIsOwnData
<1>9. CASE AsyncNotify
  <2>1. ~InCall' /\ UNCHANGED <<req, calls, result, ppc, pmsg>>
    BY <1>9 DEF AsyncNotify, InCall
  <2> QED
    BY <1>1, <1>3, <2>1 DEF Exchange, SuccessIsOwnData, Busy
<1>10. CASE CallStart
  <2>1. /\ AllocateSeq /\ InCall' /\ UNCHANGED <<req, resp, result, ppc, pmsg>>
    BY <1>10 DEF CallStart, InCall
  <2>2. calls' = calls + 1 /\ calls' \in 1 .. MaxCalls
    BY <1>2, <1>3, <2>1, AllocateFacts, BoundAssumption, SeqAssumption
  <2>3. object[calls'] = NotALoad
    BY <1>2, <1>3, <2>2 DEF Exchange
  <2> QED
    BY <1>1, <1>2, <1>3, <2>1, <2>2, <2>3 DEF Exchange, SuccessIsOwnData, Busy
<1>11. ASSUME NEW expects \in BOOLEAN, AsyncPost(expects)
       PROVE  Exchange' /\ SuccessIsOwnData'
  <2> DEFINE m == [seq |-> FreshSeq, expects |-> expects, call |-> calls']
  <2>1. /\ AllocateSeq /\ ~InCall' /\ UNCHANGED <<resp, result, ppc, pmsg>>
        /\ req' = Append(req, m) /\ m.call = calls'
    BY <1>11 DEF AsyncPost, InCall
  <2>2. m \in Msg /\ calls' = calls + 1
    BY <1>2, <1>3, <2>1, AllocateFacts, BoundAssumption, SeqAssumption DEF Msg
  <2> HIDE DEF m
  <2>3. Held(req') = Held(req) \cup {m}
    BY <1>3, <2>1, <2>2, PushFacts DEF TypeOK
  <2> QED
    BY <1>1, <1>2, <1>3, <2>1, <2>2, <2>3 DEF Exchange, SuccessIsOwnData, Busy
<1>12. CASE ProviderPoll
  <2>1. /\ UNCHANGED <<resp, calls, rpc, result>> /\ ppc = "poll"
        /\ \/ ppc' = "toIdle" /\ UNCHANGED <<req, pmsg>>
           \/ ppc' = "handle" /\ pmsg' \in Held(req) /\ Held(req') \subseteq Held(req)
    BY <1>3, <1>12, PopFacts DEF ProviderPoll, TypeOK
  <2> QED
    BY <1>1, <1>3, <2>1 DEF Exchange, SuccessIsOwnData, Handled, Busy, InCall
<1>13. CASE ProviderRespond
  <2>1. /\ UNCHANGED <<req, calls, rpc, result, pmsg>> /\ ppc = "respond"
        /\ ppc' \in {"notify", "toBackoff"}
        /\ Held(resp') \subseteq Held(resp) \cup {pmsg}
    BY <1>3, <1>13, PushFacts DEF ProviderRespond, TypeOK
  <2> QED
    BY <1>1, <1>3, <2>1 DEF Exchange, SuccessIsOwnData, Handled, Busy, InCall
<1>14. CASE ProviderNotify \/ ProviderWait \/ ProviderWaitOver
  <2>1. /\ UNCHANGED <<req, resp, calls, rpc, result, pmsg>>
        /\ Busy' => Busy
        /\ Handled' = Handled
    BY <1>14 DEF ProviderNotify, ProviderWait, ProviderWaitOver, Busy, Handled
  <2> QED
    BY <1>1, <1>3, <2>1 DEF Exchange, SuccessIsOwnData, InCall
<1> QED
  BY <1>4, <1>5, <1>6, <1>7, <1>8, <1>9, <1>10, <1>11, <1>12, <1>13, <1>14
  DEF OtherStep, RequesterStep, RequesterChoice, ProviderOther

LEMMA StagedNextInv == StagedInv /\ [StagedNext]_svars => StagedInv'
<1> SUFFICES ASSUME StagedInv, [StagedNext]_svars PROVE StagedInv'
  OBVIOUS
<1>1. ChannelInv'
  BY ChannelNext, StagedStep DEF StagedInv
<1>2. CASE UNCHANGED svars
  BY <1>1, <1>2 DEF svars, vars, ring, rvars, pvars, StagedInv, Exchange, SuccessIsOwnData,
     Handled, Busy, InCall
<1> QED
  BY <1>1, <1>2, LoadStartInv, LoadHandleInv, OtherStepInv DEF StagedNext

\* The exchange of a load, for every depth, width and choice of timed sides.
THEOREM StagedInvariance == StagedSpec => []StagedInv
  BY StagedInitInv, StagedNextInv, PTL DEF StagedSpec

\* The exchange around the channel is one of the channel's behaviours: LoadStart and
\* LoadHandle are steps of its requester and of its provider, the rest leaves it alone.
THEOREM StagedUsesChannel == StagedSpec => Init /\ [][Next]_vars
<1>1. StagedInit => Init
  BY DEF StagedInit
<1> QED
  BY <1>1, StagedStep, PTL DEF StagedSpec

\* SuccessIsOwnData: a load the guest is told succeeded is the load of its own PCM.
THEOREM LoadsKeepTheirData == StagedSpec => []SuccessIsOwnData
<1>1. StagedInv => SuccessIsOwnData
  BY DEF StagedInv
<1> QED
  BY <1>1, StagedInvariance, PTL

\* AnswerIsOwn, of the channel as the audio bridge drives it.
THEOREM LoadIsAnsweredOwn == StagedSpec => []AnswerIsOwn
<1>1. StagedInv => AnswerIsOwn
  BY DEF StagedInv, ChannelInv
<1> QED
  BY <1>1, StagedInvariance, PTL

-----------------------------------------------------------------------------
(***************************************************************************)
(* Loading a VM.  A load is followed as it goes: the blocks it has taken   *)
(* so far are those the regions filled in so far stand on, and none of     *)
(* them was in use before.  For images with one segment per region that is *)
(* exact, so the unwinding of a failed load and a later unload, which see  *)
(* only the regions, give everything back.                                 *)
(***************************************************************************)
Region == [base : Blk \cup {0, InElf}, len : Nat, seg : Nat, at : Nat, writable : BOOLEAN]
LoadedVm == [cpu : Blk, mbox : Blk, regions : [RamRegions -> Region], img : Images]
Backing == [{"code", "rodata"} -> BOOLEAN]

\* s is the state of a load: its blocks, its regions and its result.
IsLoad(s) ==
    /\ s = [used |-> s.used, regions |-> s.regions, res |-> s.res]
    /\ s.used \in SUBSET Blk /\ s.regions \in [RamRegions -> Region]

\* The blocks under the regions of a load.
Got(s) == {s.regions[r].base : r \in RamRegions} \cap Blk

\* A load that began with the blocks of used in use.
Taking(s, used) ==
    /\ IsLoad(s)
    /\ used \subseteq s.used /\ Got(s) \subseteq s.used
    /\ Got(s) \cap used = {}

\* Region x is put in place of region r, together with its block.
Put(s, r, x) == [s EXCEPT !.used = @ \cup ({x.base} \cap Blk), !.regions[r] = x]

\* The region holds header i of its image.
HoldsSegment(r, p, i) == r.seg = i /\ r.at = p.at /\ p.memsz <= r.len /\ r.writable = (p.region = "data")

\* After n headers of an image with one segment per region.
Exactly(s, used, img, n) ==
    /\ s.used = used \cup Got(s)
    /\ \A r \in RamRegions : \/ s.regions[r] = NoRegion
                             \/ \E j \in 1 .. n : Loadable(img.ph[j]) /\ img.ph[j].region = r
    /\ s.res = "ok" => \A j \in 1 .. n : Loadable(img.ph[j]) =>
                           HoldsSegment(s.regions[img.ph[j].region], img.ph[j], j)
    /\ s.regions["data"] = NoRegion \/ s.regions["data"].len # 0

\* A non-empty set of naturals has a least element.
LEMMA LeastNat ==
    ASSUME NEW S \in SUBSET Nat, S # {}
    PROVE  \E m \in S : \A k \in S : m <= k
<1> DEFINE Before == {ss \in Nat \X Nat : ss[1] < ss[2]}
<1>1. IsWellFoundedOn(Before, Nat)
  BY NatLessThanWellFounded DEF OpToRel
<1> HIDE DEF Before
<1>2. PICK m \in S : \A k \in S : ~(<<k, m>> \in Before)
  BY <1>1, WFMin
<1>3. ASSUME NEW k \in S
      PROVE  m <= k
  <2>1. <<k, m>> \in Nat \X Nat /\ ~(<<k, m>> \in Before)
    BY <1>2
  <2> QED
    BY <2>1 DEF Before
<1> QED
  BY <1>3

LEMMA LeastIsMember ==
    ASSUME NEW S \in SUBSET Nat, S # {}
    PROVE  Min(S) \in S
  BY LeastNat DEF Min

\* Induction over the naturals, about a set.
LEMMA SetOfAllNats ==
    ASSUME NEW Good \in SUBSET Nat, 0 \in Good, \A n \in Good : n + 1 \in Good
    PROVE  Good = Nat
<1> SUFFICES ASSUME Nat \ Good # {} PROVE FALSE
  OBVIOUS
<1>1. PICK m \in Nat \ Good : \A k \in Nat \ Good : m <= k
  BY LeastNat, Nat \ Good \in SUBSET Nat
<1>2. m # 0 /\ m - 1 \in Nat /\ m - 1 + 1 = m /\ ~(m <= m - 1)
  BY <1>1
<1>3. m - 1 \in Good
  BY <1>1, <1>2
<1> QED
  BY <1>1, <1>2, <1>3

\* slab_alloc gives null or a block that was free.
LEMMA AllocFacts ==
    ASSUME NEW used, slab_alloc(used) # 0
    PROVE  slab_alloc(used) \in Blk \ used
<1>1. CASE Blk \subseteq used
  BY <1>1 DEF slab_alloc
<1>2. CASE ~(Blk \subseteq used)
  <2>1. Blk \ used \in SUBSET Nat /\ Blk \ used # {}
    BY <1>2, BlkAssumption
  <2> QED
    BY <1>2, <2>1, LeastIsMember DEF slab_alloc
<1> QED
  BY <1>1, <1>2

\* An image that validates has no header that does not.
LEMMA ValidHeaders ==
    ASSUME NEW img \in Images, Validate(img) = "ok"
    PROVE  \A i \in DOMAIN img.ph : CheckPhdr(img.ph[i]) = "ok"
<1> DEFINE h == {i \in DOMAIN HeaderChecks : HeaderChecks[i] \in img.bad}
           bad == {i \in DOMAIN img.ph : CheckPhdr(img.ph[i]) # "ok"}
<1>1. img.ph \in Seq(Phdr) /\ bad \in SUBSET Nat
  BY ImageAssumption
<1>2. CASE h # {}
  <2>1. DOMAIN HeaderChecks = 1 .. 13 /\ h \in SUBSET Nat
    BY DEF HeaderChecks
  <2>2. PICK i \in 1 .. 13 : i = Min(h)
    BY <1>2, <2>1, LeastIsMember
  <2>3. HeaderChecks[i] # "ok"
    BY DEF HeaderChecks
  <2>4. Validate(img) = HeaderChecks[i]
    BY <1>2, <2>2 DEF Validate
  <2> QED
    BY <2>3, <2>4
<1>3. CASE h = {} /\ bad # {}
  <2>1. PICK i \in bad : i = Min(bad)
    BY <1>1, <1>3, LeastIsMember
  <2>2. Validate(img) = CheckPhdr(img.ph[i])
    BY <1>3, <2>1 DEF Validate
  <2> QED
    BY <2>1, <2>2
<1> QED
  BY <1>2, <1>3

\* A loadable header that validates is of one of the three regions, and a read-only
\* one has no more memory than file.
LEMMA HeaderFacts ==
    ASSUME NEW p \in Phdr, Loadable(p), CheckPhdr(p) = "ok"
    PROVE  /\ p.region \in RamRegions
           /\ p.region # "data" => p.memsz <= p.filesz
<1>1. p.type = "load" /\ p.type # "dynamic" /\ p.type # "interp"
  BY DEF Loadable
<1>2. validate_pt_load(p) = "ok"
  <2>1. CASE p.filesz > 0 /\ ~p.infile
    BY <1>1, <2>1 DEF CheckPhdr
  <2>2. CASE ~(p.filesz > 0 /\ ~p.infile)
    BY <1>1, <2>2 DEF CheckPhdr
  <2> QED
    BY <2>1, <2>2
<1>3. p.region \in RamRegions \cup {"shared"} /\ p.memsz \in Nat /\ p.filesz \in Nat
  BY DEF Phdr
<1>4. p.region # "shared"
  BY <1>2 DEF validate_pt_load
<1>5. CASE p.region # "data"
  <2>1. p.region \in {"code", "rodata"}
    BY <1>3, <1>4, <1>5 DEF RamRegions
  <2>2. CASE p.memsz > p.filesz
    <3>1. p.memsz > RegionCap \/ p.at > RegionCap - p.memsz => validate_pt_load(p) # "ok"
      BY <1>4 DEF validate_pt_load
    <3>2. ~(p.memsz < p.filesz)
      BY <1>3, <2>2
    <3> DEFINE far == p.memsz > RegionCap \/ p.at > RegionCap - p.memsz
               less == p.memsz < p.filesz
               more == p.memsz > p.filesz
    <3>3. ~far /\ ~less /\ more /\ p.region # "shared"
      BY <1>2, <1>4, <2>2, <3>1, <3>2
    <3>4. validate_pt_load(p) =
             CASE p.region = "shared" -> "out_of_range"
               [] p.region # "shared" /\ far -> "too_large"
               [] less -> "out_of_range"
               [] p.region \in {"code", "rodata"} /\ p.writable -> "region_mismatch"
               [] p.region \in {"code", "rodata"} /\ more -> "bss_in_ro"
               [] OTHER -> "ok"
      BY DEF validate_pt_load
    <3> HIDE DEF far, less, more
    <3> QED
      BY <1>2, <2>1, <3>3, <3>4
  <2> QED
    BY <1>3, <2>1, <2>2
<1> QED
  BY <1>3, <1>4, <1>5

\* What apply_pt_load refuses with.
Refusals == {"invalid_arg", "data_size_too_small", "out_of_ram"}

\* What one header does: nothing but fail, or put a region in place whose block, if it
\* has one, was free.
LEMMA OneHeader ==
    ASSUME NEW s, IsLoad(s), NEW p \in Phdr, Loadable(p), CheckPhdr(p) = "ok",
           NEW i \in Nat, NEW xip \in Backing
    PROVE  \/ \E e \in Refusals : apply_pt_load(s, p, i, xip) = [s EXCEPT !.res = e]
           \/ \E x \in Region : /\ apply_pt_load(s, p, i, xip) = Put(s, p.region, x)
                                /\ x.base \notin s.used
                                /\ x.seg = i /\ x.at = 0 /\ p.memsz <= x.len
                                /\ x.writable = (p.region = "data")
                                /\ p.region = "data" => x.len # 0
<1> DEFINE b == slab_alloc(s.used)
           ro == p.region \in {"code", "rodata"}
           t == apply_pt_load(s, p, i, xip)
           odd == ~p.even
<1>1. /\ p.region \in RamRegions
      /\ p.region # "data" => p.memsz <= p.filesz
      /\ p.memsz \in Nat /\ p.filesz \in Nat /\ p.even \in BOOLEAN /\ DataSize \in Nat \ {0}
      /\ s.used \in SUBSET Blk
      /\ ro <=> p.region # "data"
  BY HeaderFacts, DataSizeAssumption DEF Phdr, IsLoad, RamRegions
<1>2. InElf \notin Blk /\ 0 \notin Blk
  BY BlkAssumption DEF InElf
<1>3. CASE ro /\ xip[p.region] /\ odd /\ p.region = "code"
  <2>1. t = [s EXCEPT !.res = "invalid_arg"]
    BY <1>3 DEF apply_pt_load
  <2> QED
    BY <2>1 DEF Refusals
<1>4. CASE ro /\ xip[p.region] /\ ~(odd /\ p.region = "code")
  <2> DEFINE x == Filled(InElf, p, i)
  <2>1. p.even \/ p.region = "rodata"
    BY <1>1, <1>4 DEF RamRegions
  <2>2. t = [s EXCEPT !.regions[p.region] = x]
    BY <1>4, <2>1 DEF apply_pt_load
  <2>3. x = [base |-> InElf, len |-> p.filesz, seg |-> i, at |-> 0, writable |-> FALSE]
    BY <1>1, <1>4 DEF Filled
  <2> HIDE DEF x
  <2>4. s.used \cup ({x.base} \cap Blk) = s.used
    BY <1>2, <2>3
  <2>5. t = Put(s, p.region, x)
    BY <2>2, <2>4 DEF Put, IsLoad
  <2>6. x.base \notin s.used /\ x.seg = i /\ x.at = 0 /\ p.memsz <= x.len
    BY <1>1, <1>2, <1>4, <2>3
  <2>7. x \in Region
    BY <1>1, <2>3 DEF Region
  <2>8. x.writable = FALSE /\ p.region # "data"
    BY <1>1, <1>4, <2>3
  <2>9. x.writable = (p.region = "data")
    BY <2>8, Zenon
  <2> HIDE DEF t
  <2> QED
    BY <2>5, <2>6, <2>7, <2>8, <2>9, Zenon DEF t
<1>5. CASE ~ro /\ DataSize < p.memsz
  <2>1. t = [s EXCEPT !.res = "data_size_too_small"]
    BY <1>5 DEF apply_pt_load
  <2> QED
    BY <2>1 DEF Refusals
<1>6. CASE ~(ro /\ xip[p.region]) /\ ~(~ro /\ DataSize < p.memsz)
  <2>1. t = IF b = 0 THEN [s EXCEPT !.res = "out_of_ram"]
            ELSE [s EXCEPT !.used = @ \cup {b}, !.regions[p.region] = Filled(b, p, i)]
    BY <1>6 DEF apply_pt_load
  <2>2. CASE b = 0
    <3>1. t = [s EXCEPT !.res = "out_of_ram"]
      BY <2>1, <2>2
    <3> QED
      BY <3>1 DEF Refusals
  <2>3. CASE b # 0
    <3> DEFINE x == Filled(b, p, i)
    <3>1. b \in Blk \ s.used
      BY <2>3, AllocFacts
    <3>2. t = [s EXCEPT !.used = @ \cup {b}, !.regions[p.region] = x]
      BY <2>1, <2>3
    <3>3. x = [base |-> b, len |-> IF p.region = "data" THEN DataSize ELSE p.filesz,
               seg |-> i, at |-> 0, writable |-> p.region = "data"]
      BY DEF Filled
    <3> HIDE DEF b, x, t
    <3>4. {x.base} \cap Blk = {b} /\ x.base \notin s.used
      BY <3>1, <3>3
    <3>5. t = Put(s, p.region, x)
      BY <3>2, <3>4 DEF Put
    <3>6. x.len = IF p.region = "data" THEN DataSize ELSE p.filesz
      BY <3>3
    <3>7. x.base = b /\ x.seg = i /\ x.at = 0 /\ p.memsz <= x.len /\ (p.region = "data" => x.len # 0)
      BY <1>1, <1>6, <3>3, <3>6
    <3>8. x.writable = (p.region = "data")
      BY <3>3, Zenon
    <3>9. x \in Region
      <4> DEFINE w == p.region = "data"
                 l == IF p.region = "data" THEN DataSize ELSE p.filesz
      <4>1. w \in BOOLEAN
        OBVIOUS
      <4>2. l \in Nat /\ b \in Blk
        BY <1>1, <3>1
      <4> HIDE DEF w, l
      <4>3. x = [base |-> b, len |-> l, seg |-> i, at |-> 0, writable |-> w]
        BY <3>3, Zenon DEF w, l
      <4> QED
        BY <4>1, <4>2, <4>3 DEF Region
    <3> QED
      BY <3>4, <3>5, <3>7, <3>8, <3>9, Zenon DEF t
  <2> QED
    BY <2>2, <2>3
<1> QED
  BY <1>3, <1>4, <1>5, <1>6

\* Putting a region in place of one that stood on no block takes exactly its block.
LEMMA PutFacts ==
    ASSUME NEW used, NEW s, Taking(s, used), NEW r \in RamRegions, NEW x \in Region,
           x.base \notin s.used
    PROVE  /\ Taking(Put(s, r, x), used)
           /\ Put(s, r, x).res = s.res
           /\ Put(s, r, x).regions[r] = x
           /\ \A q \in RamRegions \ {r} : Put(s, r, x).regions[q] = s.regions[q]
           /\ s.used = used \cup Got(s) /\ s.regions[r] = NoRegion
                => Put(s, r, x).used = used \cup Got(Put(s, r, x))
<1> DEFINE t == Put(s, r, x)
<1>1. IsLoad(s) /\ used \subseteq s.used /\ Got(s) \subseteq s.used /\ Got(s) \cap used = {}
  BY DEF Taking
<1>2. t = [used |-> s.used \cup ({x.base} \cap Blk), regions |-> [s.regions EXCEPT ![r] = x], res |-> s.res]
  <2> DEFINE u == s.used
             g == s.regions
             e == s.res
  <2>1. s = [used |-> u, regions |-> g, res |-> e]
    BY <1>1 DEF IsLoad
  <2>2. t = [s EXCEPT !.used = u \cup ({x.base} \cap Blk), !.regions = [g EXCEPT ![r] = x]]
    BY DEF Put
  <2> HIDE DEF u, g, e, t
  <2>3. t = [used |-> u \cup ({x.base} \cap Blk), regions |-> [g EXCEPT ![r] = x], res |-> e]
    BY <2>1, <2>2
  <2> QED
    BY <2>3 DEF u, g, e
<1> HIDE DEF t
<1>3. t.used = s.used \cup ({x.base} \cap Blk) /\ t.regions = [s.regions EXCEPT ![r] = x] /\ t.res = s.res
  BY <1>2
<1>4. IsLoad(t)
  BY <1>1, <1>2, <1>3 DEF IsLoad
<1>5. t.regions[r] = x /\ \A q \in RamRegions \ {r} : t.regions[q] = s.regions[q]
  BY <1>1, <1>3 DEF IsLoad
<1>6. Got(t) \subseteq Got(s) \cup ({x.base} \cap Blk)
  <2> SUFFICES ASSUME NEW b \in Got(t) PROVE b \in Got(s) \cup ({x.base} \cap Blk)
    OBVIOUS
  <2>1. PICK q \in RamRegions : b = t.regions[q].base
    BY DEF Got
  <2>2. b \in Blk
    BY DEF Got
  <2>3. CASE q = r
    BY <1>5, <2>1, <2>2, <2>3
  <2>4. CASE q # r
    BY <1>5, <2>1, <2>2, <2>4 DEF Got
  <2> QED
    BY <2>3, <2>4
<1>7. Taking(t, used)
  BY <1>1, <1>3, <1>4, <1>6 DEF Taking
<1>8. ASSUME s.used = used \cup Got(s), s.regions[r] = NoRegion
      PROVE  t.used = used \cup Got(t)
  <2>1. ASSUME NEW b \in Got(s) PROVE b \in Got(t)
    <3>1. PICK q \in RamRegions : b = s.regions[q].base
      BY DEF Got
    <3>2. b \in Blk /\ b # 0
      BY BlkAssumption DEF Got
    <3>3. q # r
      BY <1>8, <3>1, <3>2 DEF NoRegion
    <3> QED
      BY <1>5, <3>1, <3>2, <3>3 DEF Got
  <2>2. {x.base} \cap Blk \subseteq Got(t)
    BY <1>5 DEF Got
  <2>3. Got(t) \subseteq t.used /\ used \subseteq t.used
    BY <1>7 DEF Taking
  <2> QED
    BY <1>3, <1>8, <2>1, <2>2, <2>3
<1> QED
  BY <1>3, <1>5, <1>7, <1>8 DEF t

\* A failure changes the result only.
LEMMA FailFacts ==
    ASSUME NEW used, NEW s, Taking(s, used), NEW e, NEW t, t = [s EXCEPT !.res = e]
    PROVE  /\ Taking(t, used)
           /\ t.res = e /\ t.used = s.used /\ t.regions = s.regions
           /\ Got(t) = Got(s)
<1>1. IsLoad(s)
  BY DEF Taking
<1>2. t = [used |-> s.used, regions |-> s.regions, res |-> e]
  BY <1>1 DEF IsLoad
<1>3. t.used = s.used /\ t.regions = s.regions /\ t.res = e
  BY <1>2
<1>4. IsLoad(t) /\ Got(t) = Got(s)
  BY <1>1, <1>2, <1>3 DEF IsLoad, Got
<1> QED
  BY <1>3, <1>4 DEF Taking

\* The state after each header, as a function of how many were applied.
Follows(f, start, img, xip) ==
    /\ f[0] = start
    /\ \A i \in 1 .. Len(img.ph) : f[i] = Applying(f[i - 1], img, i, xip)
    /\ Applied(start, img, xip) = f[Len(img.ph)]

LEMMA HeadersFollow ==
    ASSUME NEW start, NEW img, img.ph \in Seq(Phdr), NEW xip
    PROVE  \E f : Follows(f, start, img, xip)
<1> DEFINE N == Len(img.ph)
           Upto(f, n) == f = [i \in 0 .. n |-> IF i = 0 THEN start ELSE Applying(f[i - 1], img, i, xip)]
           Good == {n \in Nat : \E f : Upto(f, n)}
<1>1. N \in Nat
  OBVIOUS
<1>2. 0 \in Good
  <2> DEFINE f0 == [i \in 0 .. 0 |-> start]
  <2>1. Upto(f0, 0)
    OBVIOUS
  <2> QED
    BY <2>1
<1>3. ASSUME NEW n \in Good PROVE n + 1 \in Good
  <2>1. PICK f : Upto(f, n)
    OBVIOUS
  <2> DEFINE g == [i \in 0 .. n + 1 |-> IF i = n + 1 THEN Applying(f[n], img, n + 1, xip) ELSE f[i]]
             h == [i \in 0 .. n + 1 |-> IF i = 0 THEN start ELSE Applying(g[i - 1], img, i, xip)]
  <2>2. \A i \in 0 .. n : f[i] = IF i = 0 THEN start ELSE Applying(f[i - 1], img, i, xip)
    BY <2>1
  <2>3. ASSUME NEW i \in 0 .. n + 1 PROVE g[i] = h[i]
    <3>1. CASE i = n + 1
      <4>1. i # 0 /\ n \in 0 .. n + 1 /\ n # n + 1 /\ i - 1 = n /\ n \in Nat
        BY <3>1
      <4>2. g[n] = f[n] /\ g[i] = Applying(f[n], img, n + 1, xip)
        BY <3>1, <4>1
      <4>3. h[i] = Applying(g[i - 1], img, i, xip)
        BY <4>1
      <4> QED
        BY <3>1, <4>1, <4>2, <4>3
    <3>2. CASE i \in 0 .. n /\ i = 0
      BY <2>2, <3>2
    <3>3. CASE i \in 0 .. n /\ i # 0
      <4>1. i - 1 \in 0 .. n + 1 /\ i - 1 # n + 1 /\ i # n + 1 /\ n \in Nat
        BY <3>3
      <4>2. g[i - 1] = f[i - 1] /\ g[i] = f[i]
        BY <4>1
      <4>3. h[i] = Applying(g[i - 1], img, i, xip)
        BY <3>3
      <4>4. f[i] = Applying(f[i - 1], img, i, xip)
        BY <2>2, <3>3
      <4> QED
        BY <4>2, <4>3, <4>4
    <3> QED
      BY <3>1, <3>2, <3>3
  <2>4. g = h
    <3> HIDE DEF h
    <3>1. h = [i \in 0 .. n + 1 |-> h[i]]
      BY DEF h
    <3>2. g = [i \in 0 .. n + 1 |-> g[i]]
      OBVIOUS
    <3> HIDE DEF g
    <3> QED
      BY <2>3, <3>1, <3>2
  <2>5. Upto(g, n + 1)
    <3> HIDE DEF g
    <3> QED
      BY <2>4
  <2>6. n + 1 \in Nat
    OBVIOUS
  <2> HIDE DEF g, Upto
  <2> QED
    BY <2>5, <2>6
<1>4. N \in Good
  <2>1. Good \in SUBSET Nat
    OBVIOUS
  <2> HIDE DEF Good
  <2>2. Good = Nat
    BY <1>2, <1>3, <2>1, SetOfAllNats
  <2> QED
    BY <1>1, <2>2
<1>5. PICK f : Upto(f, N)
  BY <1>4
<1> DEFINE a == CHOOSE g : g = [i \in 0 .. N |-> IF i = 0 THEN start ELSE Applying(g[i - 1], img, i, xip)]
<1>6. a = [i \in 0 .. N |-> IF i = 0 THEN start ELSE Applying(a[i - 1], img, i, xip)]
  BY <1>5
<1>7. Applied(start, img, xip) = a[N]
  BY DEF Applied
<1> HIDE DEF a
<1>8. a[0] = start /\ \A i \in 1 .. N : a[i] = Applying(a[i - 1], img, i, xip)
  <2>1. \A i \in 0 .. N : a[i] = IF i = 0 THEN start ELSE Applying(a[i - 1], img, i, xip)
    BY <1>6
  <2> QED
    BY <1>1, <2>1
<1> QED
  BY <1>7, <1>8 DEF Follows

\* One header keeps what is said of a load in progress.
LEMMA HeaderStep ==
    ASSUME NEW used, NEW img \in Images, NEW i \in 1 .. Len(img.ph), NEW xip \in Backing,
           NEW s, Taking(s, used), s.res = "ok" => Validate(img) = "ok"
    PROVE  /\ Taking(Applying(s, img, i, xip), used)
           /\ Applying(s, img, i, xip).res = "ok" => Validate(img) = "ok"
           /\ LinkedImages /\ Exactly(s, used, img, i - 1)
                => Exactly(Applying(s, img, i, xip), used, img, i)
<1> DEFINE t == Applying(s, img, i, xip)
           p == img.ph[i]
           Before == 1 .. i - 1
<1>1. /\ img.ph \in Seq(Phdr) /\ p \in Phdr /\ i \in DOMAIN img.ph /\ i \in Nat
      /\ 1 .. i = Before \cup {i} /\ i \notin Before /\ Before \subseteq DOMAIN img.ph
  BY ImageAssumption
<1>2. CASE s.res # "ok"
  <2>1. t = s
    BY <1>2 DEF Applying
  <2>2. Exactly(s, used, img, i - 1) => Exactly(s, used, img, i)
    BY <1>1, <1>2 DEF Exactly
  <2> QED
    BY <1>2, <2>1, <2>2
<1>3. CASE s.res = "ok" /\ ~Loadable(p)
  <2>1. t = s
    BY <1>3 DEF Applying, apply_pt_load
  <2>2. Exactly(s, used, img, i - 1) => Exactly(s, used, img, i)
    BY <1>1, <1>3 DEF Exactly
  <2> QED
    BY <1>3, <2>1, <2>2
<1>4. CASE s.res = "ok" /\ Loadable(p)
  <2>1. t = apply_pt_load(s, p, i, xip) /\ CheckPhdr(p) = "ok" /\ Validate(img) = "ok" /\ IsLoad(s)
    BY <1>1, <1>4, ValidHeaders DEF Applying, Taking
  <2>2. p.region \in RamRegions
    BY <1>1, <1>4, <2>1, HeaderFacts
  <2>3. ASSUME NEW e \in Refusals, t = [s EXCEPT !.res = e]
        PROVE  /\ Taking(t, used)
               /\ Exactly(s, used, img, i - 1) => Exactly(t, used, img, i)
    <3>1. Taking(t, used) /\ t.used = s.used /\ t.regions = s.regions /\ t.res # "ok" /\ Got(t) = Got(s)
      BY <2>3, FailFacts DEF Refusals
    <3> HIDE DEF t
    <3>2. ASSUME Exactly(s, used, img, i - 1) PROVE Exactly(t, used, img, i)
      <4>1. t.used = used \cup Got(t) /\ (t.regions["data"] = NoRegion \/ t.regions["data"].len # 0)
        BY <3>1, <3>2 DEF Exactly
      <4>2. \A r \in RamRegions : \/ t.regions[r] = NoRegion
                                  \/ \E j \in 1 .. i : Loadable(img.ph[j]) /\ img.ph[j].region = r
        BY <1>1, <3>1, <3>2 DEF Exactly
      <4> QED
        BY <3>1, <4>1, <4>2 DEF Exactly
    <3> QED
      BY <3>1, <3>2
  <2>4. ASSUME NEW x \in Region, t = Put(s, p.region, x), x.base \notin s.used,
               x.seg = i, x.at = 0, p.memsz <= x.len, x.writable = (p.region = "data"),
               p.region = "data" => x.len # 0
        PROVE  /\ Taking(t, used)
               /\ LinkedImages /\ Exactly(s, used, img, i - 1) => Exactly(t, used, img, i)
    <3>1. /\ Taking(t, used) /\ t.res = s.res /\ t.regions[p.region] = x
          /\ \A q \in RamRegions \ {p.region} : t.regions[q] = s.regions[q]
          /\ s.used = used \cup Got(s) /\ s.regions[p.region] = NoRegion => t.used = used \cup Got(t)
      BY <2>2, <2>4, PutFacts
    <3> HIDE DEF t
    <3>2. ASSUME LinkedImages, Exactly(s, used, img, i - 1) PROVE Exactly(t, used, img, i)
      <4>1. p.at = 0 /\ \A j \in Before : Loadable(img.ph[j]) => img.ph[j].region # p.region
        BY <1>1, <1>4, <2>1, <3>2 DEF LinkedImages
      <4>2. s.regions[p.region] = NoRegion
        BY <2>2, <3>2, <4>1 DEF Exactly
      <4>3. t.used = used \cup Got(t)
        BY <3>1, <3>2, <4>2 DEF Exactly
      <4>4. ASSUME NEW r \in RamRegions
            PROVE  \/ t.regions[r] = NoRegion
                   \/ \E j \in 1 .. i : Loadable(img.ph[j]) /\ img.ph[j].region = r
        <5>1. CASE r = p.region
          BY <1>1, <1>4, <5>1
        <5>2. CASE r # p.region
          BY <1>1, <3>1, <3>2, <5>2 DEF Exactly
        <5> QED
          BY <5>1, <5>2
      <4>5. ASSUME NEW j \in 1 .. i, Loadable(img.ph[j])
            PROVE  HoldsSegment(t.regions[img.ph[j].region], img.ph[j], j)
        <5>1. CASE j = i
          BY <2>4, <3>1, <4>1, <5>1 DEF HoldsSegment
        <5>2. CASE j \in Before
          <6>1. img.ph[j] \in Phdr /\ j \in DOMAIN img.ph
            BY <1>1, <5>2
          <6>2. img.ph[j].region \in RamRegions \ {p.region}
            BY <2>1, <4>1, <4>5, <5>2, <6>1, ValidHeaders, HeaderFacts
          <6>3. HoldsSegment(s.regions[img.ph[j].region], img.ph[j], j)
            BY <1>4, <3>2, <4>5, <5>2 DEF Exactly
          <6> QED
            BY <3>1, <6>2, <6>3
        <5> QED
          BY <1>1, <5>1, <5>2
      <4>6. t.regions["data"] = NoRegion \/ t.regions["data"].len # 0
        <5>1. CASE p.region = "data"
          BY <2>4, <3>1, <5>1
        <5>2. CASE p.region # "data"
          BY <3>1, <3>2, <5>2 DEF Exactly, RamRegions
        <5> QED
          BY <5>1, <5>2
      <4> QED
        BY <4>3, <4>4, <4>5, <4>6 DEF Exactly
    <3> QED
      BY <3>1, <3>2
  <2>5. \/ \E e \in Refusals : t = [s EXCEPT !.res = e]
        \/ \E x \in Region : /\ t = Put(s, p.region, x)
                             /\ x.base \notin s.used
                             /\ x.seg = i /\ x.at = 0 /\ p.memsz <= x.len
                             /\ x.writable = (p.region = "data")
                             /\ p.region = "data" => x.len # 0
    BY <1>1, <1>4, <2>1, OneHeader
  <2> HIDE DEF t, p
  <2>6. CASE \E e \in Refusals : t = [s EXCEPT !.res = e]
    BY <2>1, <2>3, <2>6 DEF t
  <2>7. CASE \E x \in Region : /\ t = Put(s, p.region, x)
                               /\ x.base \notin s.used
                               /\ x.seg = i /\ x.at = 0 /\ p.memsz <= x.len
                               /\ x.writable = (p.region = "data")
                               /\ p.region = "data" => x.len # 0
    BY <2>1, <2>4, <2>7 DEF t
  <2> QED
    BY <2>5, <2>6, <2>7
<1> QED
  BY <1>2, <1>3, <1>4

\* What a load, whichever way it ends, has taken.
Ended(s, used, img) ==
    /\ Taking(s, used)
    /\ s.res = "ok" => Validate(img) = "ok"
    /\ LinkedImages => /\ s.used = used \cup Got(s)
                       /\ s.res = "ok" => \A j \in 1 .. Len(img.ph) : Loadable(img.ph[j]) =>
                              HoldsSegment(s.regions[img.ph[j].region], img.ph[j], j)

\* At the end a stack is there: region 2 is given a block if it has none.
LEMMA DefaultStep ==
    ASSUME NEW used, NEW img \in Images, NEW s, Taking(s, used), s.res = "ok" => Validate(img) = "ok",
           LinkedImages => Exactly(s, used, img, Len(img.ph))
    PROVE  Ended(DefaultData(s), used, img)
<1> DEFINE t == DefaultData(s)
           b == slab_alloc(s.used)
           N == Len(img.ph)
<1>1. IsLoad(s) /\ "data" \in RamRegions /\ img.ph \in Seq(Phdr)
  BY ImageAssumption DEF Taking, RamRegions
<1>2. CASE s.res # "ok" \/ s.regions["data"].len # 0
  <2>1. t = s
    BY <1>2 DEF DefaultData
  <2> QED
    BY <2>1 DEF Ended, Exactly
<1>3. CASE s.res = "ok" /\ s.regions["data"].len = 0
  <2> DEFINE x == [base |-> b, len |-> DataSize, seg |-> 0, at |-> 0, writable |-> TRUE]
  <2>1. t = IF b = 0 THEN [s EXCEPT !.res = "out_of_ram"]
            ELSE [s EXCEPT !.used = @ \cup {b}, !.regions["data"] = x]
    BY <1>3 DEF DefaultData
  <2>2. CASE b = 0
    <3>1. t = [s EXCEPT !.res = "out_of_ram"]
      BY <2>1, <2>2
    <3> HIDE DEF t
    <3>2. Taking(t, used) /\ t.used = s.used /\ t.res = "out_of_ram" /\ Got(t) = Got(s)
      BY <3>1, FailFacts
    <3> QED
      BY <3>2 DEF Ended, Exactly, t
  <2>3. CASE b # 0
    <3>1. b \in Blk /\ b \notin s.used
      BY <2>3, AllocFacts
    <3>2. t = [s EXCEPT !.used = @ \cup {b}, !.regions["data"] = x]
      BY <2>1, <2>3
    <3>3. x = [base |-> b, len |-> DataSize, seg |-> 0, at |-> 0, writable |-> TRUE]
      OBVIOUS
    <3> HIDE DEF b, t, x
    <3>4. x \in Region /\ x.base \notin s.used /\ {x.base} \cap Blk = {b}
      BY <3>1, <3>3, DataSizeAssumption DEF Region
    <3>5. t = Put(s, "data", x)
      BY <3>2, <3>4 DEF Put
    <3>6. /\ Taking(t, used) /\ t.res = s.res
          /\ \A q \in RamRegions \ {"data"} : t.regions[q] = s.regions[q]
          /\ s.used = used \cup Got(s) /\ s.regions["data"] = NoRegion => t.used = used \cup Got(t)
      BY <1>1, <3>4, <3>5, PutFacts
    <3>7. ASSUME LinkedImages
          PROVE  /\ t.used = used \cup Got(t)
                 /\ \A j \in 1 .. N : Loadable(img.ph[j]) =>
                        HoldsSegment(t.regions[img.ph[j].region], img.ph[j], j)
      <4>1. Exactly(s, used, img, N) /\ s.regions["data"] = NoRegion
        BY <1>3, <3>7 DEF Exactly
      <4>2. ASSUME NEW j \in 1 .. N, Loadable(img.ph[j])
            PROVE  HoldsSegment(t.regions[img.ph[j].region], img.ph[j], j)
        <5>1. img.ph[j] \in Phdr /\ j \in DOMAIN img.ph /\ j \in Nat /\ j # 0
          BY <1>1
        <5>2. img.ph[j].region \in RamRegions
          BY <1>3, <4>2, <5>1, ValidHeaders, HeaderFacts
        <5>3. HoldsSegment(s.regions[img.ph[j].region], img.ph[j], j)
          BY <1>3, <4>1, <4>2 DEF Exactly
        <5>4. img.ph[j].region # "data"
          BY <4>1, <5>1, <5>3 DEF HoldsSegment, NoRegion
        <5> QED
          BY <3>6, <5>2, <5>3, <5>4
      <4> QED
        BY <3>6, <4>1, <4>2 DEF Exactly
    <3> QED
      BY <1>3, <3>6, <3>7 DEF Ended, t
  <2> QED
    BY <2>2, <2>3
<1> QED
  BY <1>2, <1>3

LEMMA LoadFacts ==
    ASSUME NEW used \in SUBSET Blk, NEW img \in Images, NEW xip \in Backing
    PROVE  Ended(vm_load(used, img, xip), used, img)
<1> DEFINE start == Start(used, img)
           N == Len(img.ph)
<1>1. img.ph \in Seq(Phdr) /\ N \in Nat
  BY ImageAssumption
<1>2. PICK f : Follows(f, start, img, xip)
  BY <1>1, HeadersFollow
<1> DEFINE Sound(n) == /\ Taking(f[n], used)
                       /\ f[n].res = "ok" => Validate(img) = "ok"
                       /\ LinkedImages => Exactly(f[n], used, img, n)
           Good == {n \in Nat : n <= N => Sound(n)}
<1>3. Sound(0)
  <2>1. f[0] = [used |-> used, regions |-> [r \in RamRegions |-> NoRegion], res |-> Validate(img)]
    BY <1>2 DEF Follows, Start
  <2> DEFINE s == f[0]
  <2>2. s.used = used /\ s.regions = [r \in RamRegions |-> NoRegion] /\ s.res = Validate(img)
    BY <2>1
  <2>3. NoRegion \in Region /\ NoRegion.base = 0 /\ 0 \notin Blk
    BY BlkAssumption DEF NoRegion, Region
  <2>4. IsLoad(s) /\ Got(s) = {}
    BY <2>1, <2>2, <2>3 DEF IsLoad, Got
  <2>5. "data" \in RamRegions
    BY DEF RamRegions
  <2> HIDE DEF s
  <2>6. Taking(s, used)
    BY <2>2, <2>4 DEF Taking
  <2>7. Exactly(s, used, img, 0)
    BY <2>2, <2>4, <2>5 DEF Exactly
  <2> QED
    BY <2>2, <2>6, <2>7 DEF s
<1>4. ASSUME NEW n \in Good PROVE n + 1 \in Good
  <2>1. CASE n + 1 <= N
    <3>1. n + 1 \in 1 .. N /\ n + 1 - 1 = n /\ n <= N /\ n \in Nat
      BY <1>1, <2>1
    <3>2. Sound(n)
      BY <3>1
    <3>3. f[n + 1] = Applying(f[n], img, n + 1, xip)
      BY <1>2, <3>1 DEF Follows
    <3>4. Sound(n + 1)
      <4> DEFINE i == n + 1
                 s == f[n]
      <4>1. i \in 1 .. N /\ i - 1 = n /\ Taking(s, used) /\ (s.res = "ok" => Validate(img) = "ok")
        BY <3>1, <3>2
      <4>2. /\ Taking(Applying(s, img, i, xip), used)
            /\ Applying(s, img, i, xip).res = "ok" => Validate(img) = "ok"
            /\ LinkedImages /\ Exactly(s, used, img, i - 1)
                 => Exactly(Applying(s, img, i, xip), used, img, i)
        <5> HIDE DEF i, s
        <5> QED
          BY <4>1, HeaderStep
      <4> QED
        BY <3>2, <3>3, <4>1, <4>2
    <3> HIDE DEF Sound
    <3> QED
      BY <3>1, <3>4
  <2> QED
    BY <2>1
<1>5. Sound(N)
  <2>1. Good \in SUBSET Nat /\ 0 \in Good
    BY <1>3
  <2> HIDE DEF Good
  <2>2. Good = Nat
    BY <1>4, <2>1, SetOfAllNats
  <2>3. N \in Good
    BY <1>1, <2>2
  <2> QED
    BY <1>1, <2>3 DEF Good
<1>6. Ended(DefaultData(f[N]), used, img)
  BY <1>5, DefaultStep
<1> QED
  BY <1>2, <1>6 DEF vm_load, Follows

\* The invariant, for any image; LoadExact is added to it for linked ones.
LoadInv ==
    /\ inuse \in SUBSET Blk
    /\ vms \in [Slots -> LoadedVm \cup {NoVm}]
    /\ NoBlockShared

\* The regions of a VM hold the segments of its image.
HoldsImage(vm) ==
    \A i \in DOMAIN vm.img.ph : Loadable(vm.img.ph[i]) =>
        HoldsSegment(vm.regions[vm.img.ph[i].region], vm.img.ph[i], i)

LEMMA ImageExactDef == LoadedImageExact <=> \A v \in Live : HoldsImage(vms[v])
  BY DEF LoadedImageExact, HoldsImage, HoldsSegment

\* A VM is entered, on blocks that were free.
LEMMA EnterVm ==
    ASSUME LoadInv, NEW v \in Slots \ Live, NEW w \in LoadedVm, inuse' \in SUBSET Blk,
           inuse \subseteq inuse', BlocksOf(w) \subseteq inuse', BlocksOf(w) \cap inuse = {},
           vms' = [vms EXCEPT ![v] = w]
    PROVE  /\ LoadInv'
           /\ LoadExact /\ inuse' = inuse \cup BlocksOf(w) /\ HoldsImage(w) => LoadExact'
<1>1. w # NoVm
  <2>1. w.cpu # 0
    BY BlkAssumption DEF LoadedVm
  <2>2. NoVm.cpu = 0
    BY DEF NoVm
  <2> QED
    BY <2>1, <2>2
<1>2. vms' \in [Slots -> LoadedVm \cup {NoVm}] /\ vms'[v] = w
      /\ \A u \in Slots \ {v} : vms'[u] = vms[u]
  BY DEF LoadInv
<1>3. Live' = Live \cup {v} /\ v \notin Live /\ \A u \in Live : vms'[u] = vms[u]
  BY <1>1, <1>2 DEF Live
<1>4. /\ \A u \in Live : BlocksOf(vms[u]) \subseteq inuse
      /\ \A u, x \in Live : u # x => BlocksOf(vms[u]) \cap BlocksOf(vms[x]) = {}
  BY DEF LoadInv, NoBlockShared
<1>5. \A u \in Live' : BlocksOf(vms'[u]) \subseteq inuse'
  BY <1>2, <1>3, <1>4
<1>6. ASSUME NEW u \in Live', NEW x \in Live', u # x
      PROVE  BlocksOf(vms'[u]) \cap BlocksOf(vms'[x]) = {}
  <2>1. CASE u = v
    BY <1>2, <1>3, <1>4, <1>6, <2>1
  <2>2. CASE x = v
    BY <1>2, <1>3, <1>4, <1>6, <2>2
  <2>3. CASE u # v /\ x # v
    BY <1>3, <1>4, <1>6, <2>3
  <2> QED
    BY <2>1, <2>2, <2>3
<1>7. NoBlockShared'
  BY <1>5, <1>6 DEF NoBlockShared
<1>8. ASSUME LoadExact, inuse' = inuse \cup BlocksOf(w), HoldsImage(w)
      PROVE  LoadExact'
  <2>1. inuse = UNION {BlocksOf(vms[u]) : u \in Live}
    BY <1>8 DEF LoadExact, LocalBlocksAccounted
  <2> DEFINE A == {BlocksOf(vms[u]) : u \in Live}
             B == {BlocksOf(vms'[u]) : u \in Live'}
  <2>2. B = A \cup {BlocksOf(w)}
    BY <1>2, <1>3
  <2>3. inuse' = UNION B
    BY <1>8, <2>1, <2>2
  <2>4. \A u \in Live : HoldsImage(vms[u])
    BY <1>8, ImageExactDef DEF LoadExact
  <2>5. \A u \in Live' : HoldsImage(vms'[u])
    BY <1>2, <1>3, <1>8, <2>4
  <2>6. LoadedImageExact'
    BY <2>5 DEF LoadedImageExact, HoldsImage, HoldsSegment
  <2> QED
    BY <1>6, <2>3, <2>6 DEF LoadExact, LocalBlocksAccounted
<1> QED
  BY <1>2, <1>7, <1>8 DEF LoadInv

\* An unload gives back what the VM's regions stand on, its cpu and its mailbox.
LEMMA LeaveVm ==
    ASSUME LoadInv, NEW v \in Slots, vm_system_unload_vm(v)
    PROVE  LoadInv' /\ (LoadExact => LoadExact')
<1>1. v \in Live /\ inuse' = inuse \ BlocksOf(vms[v]) /\ vms' = [vms EXCEPT ![v] = NoVm]
  BY DEF vm_system_unload_vm
<1>2. /\ inuse \in SUBSET Blk /\ vms \in [Slots -> LoadedVm \cup {NoVm}]
      /\ \A u \in Live : BlocksOf(vms[u]) \subseteq inuse
      /\ \A u, x \in Live : u # x => BlocksOf(vms[u]) \cap BlocksOf(vms[x]) = {}
  BY DEF LoadInv, NoBlockShared
<1>3. /\ inuse' \in SUBSET Blk /\ vms' \in [Slots -> LoadedVm \cup {NoVm}]
      /\ vms'[v] = NoVm /\ \A u \in Slots \ {v} : vms'[u] = vms[u]
  BY <1>1, <1>2
<1>4. Live' = Live \ {v} /\ \A u \in Live' : vms'[u] = vms[u] /\ u \in Live /\ u # v
  BY <1>1, <1>3 DEF Live
<1>5. \A u \in Live' : BlocksOf(vms'[u]) \subseteq inuse'
  BY <1>1, <1>2, <1>4
<1>6. \A u, x \in Live' : u # x => BlocksOf(vms'[u]) \cap BlocksOf(vms'[x]) = {}
  BY <1>2, <1>4
<1>7. ASSUME LoadExact
      PROVE  LoadExact'
  <2>1. inuse = UNION {BlocksOf(vms[u]) : u \in Live} /\ \A u \in Live : HoldsImage(vms[u])
    BY <1>7, ImageExactDef DEF LoadExact, LocalBlocksAccounted
  <2> DEFINE B == {BlocksOf(vms'[u]) : u \in Live'}
  <2>2. ASSUME NEW b \in inuse' PROVE b \in UNION B
    <3>1. b \in inuse /\ b \notin BlocksOf(vms[v])
      BY <1>1, <2>2
    <3>2. PICK u \in Live : b \in BlocksOf(vms[u])
      BY <2>1, <3>1
    <3>3. u \in Live'
      BY <1>4, <3>1, <3>2
    <3> QED
      BY <1>4, <3>2, <3>3
  <2>3. UNION B \subseteq inuse'
    BY <1>5
  <2>4. inuse' = UNION B
    BY <2>2, <2>3
  <2>5. LoadedImageExact'
    <3>1. \A u \in Live' : HoldsImage(vms'[u])
      BY <1>4, <2>1
    <3> QED
      BY <3>1 DEF LoadedImageExact, HoldsImage, HoldsSegment
  <2> QED
    BY <1>6, <2>4, <2>5 DEF LoadExact, LocalBlocksAccounted
<1> QED
  BY <1>3, <1>5, <1>6, <1>7 DEF LoadInv, NoBlockShared

\* Nothing taken, or everything given back.
LEMMA NothingLost ==
    ASSUME LoadInv, inuse \subseteq inuse', inuse' \in SUBSET Blk, UNCHANGED vms
    PROVE  LoadInv' /\ (LoadExact /\ inuse' = inuse => LoadExact')
<1>1. Live' = Live
  BY DEF Live
<1>2. NoBlockShared'
  BY <1>1 DEF LoadInv, NoBlockShared
<1>3. ASSUME LoadExact, inuse' = inuse
      PROVE  LoadExact'
  BY <1>1, <1>3 DEF LoadExact, LocalBlocksAccounted, LoadedImageExact
<1> QED
  BY <1>2, <1>3 DEF LoadInv

LEMMA LoadStep ==
    ASSUME LoadInv, NEW img \in Images, NEW xip \in Backing, vm_system_load_vm(img, xip)
    PROVE  LoadInv' /\ (LinkedImages /\ LoadExact => LoadExact')
<1> DEFINE cpu == slab_alloc(inuse)
           free == Slots \ Live
           mbox == slab_alloc(inuse \cup {cpu})
           used == inuse \cup {cpu, mbox}
           s == vm_load(used, img, xip)
           w == [cpu |-> cpu, mbox |-> mbox, regions |-> s.regions, img |-> img]
           u == [cpu |-> cpu, mbox |-> mbox, regions |-> s.regions]
           given == Blk \cap ({cpu, mbox} \cup Got(s))
<1>1. inuse \in SUBSET Blk
  BY DEF LoadInv
<1>2. CASE cpu = 0 \/ free = {} \/ mbox = 0
  <2>1. NoneLeft(img, "no_arena_space") \/ NoneLeft(img, "full")
    BY <1>2 DEF vm_system_load_vm
  <2>2. UNCHANGED <<inuse, vms>>
    BY <2>1 DEF NoneLeft
  <2> QED
    BY <1>1, <2>2, NothingLost
<1>3. CASE cpu # 0 /\ free # {} /\ mbox # 0
  <2>1. IF s.res = "ok"
        THEN /\ vms' = [vms EXCEPT ![Min(free)] = w]
             /\ inuse' = s.used
        ELSE /\ inuse' = Unwind(s, cpu, mbox)
             /\ UNCHANGED vms
    BY <1>3 DEF vm_system_load_vm
  <2>2. cpu \in Blk \ inuse /\ mbox \in Blk \ (inuse \cup {cpu})
    BY <1>3, AllocFacts
  <2>3. used \in SUBSET Blk
    BY <1>1, <2>2
  <2> HIDE DEF cpu, mbox
  <2>4. Ended(s, used, img)
    <3> HIDE DEF used
    <3> QED
      BY <2>3, LoadFacts
  <2> HIDE DEF s
  <2>5. /\ IsLoad(s) /\ used \subseteq s.used /\ Got(s) \subseteq s.used /\ Got(s) \cap used = {}
        /\ Got(s) \subseteq Blk
        /\ s.used \in SUBSET Blk /\ s.regions \in [RamRegions -> Region]
    BY <2>4 DEF Ended, Taking, IsLoad, Got
  <2>6. BlocksOf(w) = {cpu, mbox} \cup Got(s) /\ BlocksOf(u) = {cpu, mbox} \cup Got(s)
    <3>1. w.cpu = cpu /\ w.mbox = mbox /\ w.regions = s.regions
          /\ u.cpu = cpu /\ u.mbox = mbox /\ u.regions = s.regions
      OBVIOUS
    <3> HIDE DEF w, u
    <3> QED
      BY <2>2, <3>1 DEF BlocksOf, Got
  <2>7. CASE s.res = "ok"
    <3>1. Min(free) \in free
      BY <1>3, SlotsAssumption, LeastIsMember, free \in SUBSET Nat
    <3>2. w \in LoadedVm
      BY <2>2, <2>5 DEF LoadedVm
    <3>3. vms' = [vms EXCEPT ![Min(free)] = w] /\ inuse' = s.used
      BY <2>1, <2>7
    <3>4. w.img = img /\ w.regions = s.regions
      OBVIOUS
    <3> HIDE DEF w
    <3>5. /\ LoadInv'
          /\ LoadExact /\ inuse' = inuse \cup BlocksOf(w) /\ HoldsImage(w) => LoadExact'
      <4>1. PICK v \in free : v = Min(free)
        BY <3>1
      <4>2. /\ inuse' \in SUBSET Blk /\ inuse \subseteq inuse' /\ BlocksOf(w) \subseteq inuse'
            /\ BlocksOf(w) \cap inuse = {} /\ vms' = [vms EXCEPT ![v] = w]
        BY <1>1, <2>2, <2>5, <2>6, <3>3, <4>1
      <4> QED
        BY <3>2, <4>2, EnterVm
    <3>6. ASSUME LinkedImages
          PROVE  inuse' = inuse \cup BlocksOf(w) /\ HoldsImage(w)
      <4>1. inuse' = inuse \cup BlocksOf(w)
        BY <2>4, <2>6, <3>3, <3>6 DEF Ended
      <4>2. DOMAIN img.ph = 1 .. Len(img.ph)
        BY ImageAssumption
      <4>3. HoldsImage(w)
        BY <2>4, <2>7, <3>4, <3>6, <4>2 DEF Ended, HoldsImage
      <4> QED
        BY <4>1, <4>3
    <3> QED
      BY <3>5, <3>6
  <2>8. CASE s.res # "ok"
    <3>1. inuse' = s.used \ BlocksOf(u) /\ UNCHANGED vms
      BY <2>1, <2>8 DEF Unwind
    <3>2. inuse \subseteq inuse' /\ inuse' \in SUBSET Blk
      BY <1>1, <2>2, <2>5, <2>6, <3>1
    <3>3. LinkedImages => inuse' = inuse
      BY <1>1, <2>2, <2>4, <2>5, <2>6, <3>1 DEF Ended
    <3> QED
      BY <3>2, <3>3, <3>1, NothingLost
  <2> QED
    BY <2>7, <2>8
<1> QED
  BY <1>2, <1>3

LEMMA LoadNextInv ==
    ASSUME LoadInv, [LoadNext]_ldvars
    PROVE  LoadInv' /\ (LinkedImages /\ LoadExact => LoadExact')
<1>1. CASE LoadVm
  <2>1. PICK img \in Images, x \in BOOLEAN, y \in BOOLEAN :
            vm_system_load_vm(img, [r \in {"code", "rodata"} |-> IF r = "code" THEN x ELSE y])
    BY <1>1 DEF LoadVm
  <2> DEFINE xip == [r \in {"code", "rodata"} |-> IF r = "code" THEN x ELSE y]
  <2>2. xip \in Backing
    BY DEF Backing
  <2> HIDE DEF xip
  <2> QED
    BY <2>1, <2>2, LoadStep DEF xip
<1>2. CASE UnloadVm
  BY <1>2, LeaveVm DEF UnloadVm
<1>3. CASE UNCHANGED ldvars
  <2>1. inuse' = inuse /\ vms' = vms
    BY <1>3 DEF ldvars
  <2> QED
    BY <2>1, NothingLost DEF LoadInv
<1> QED
  BY <1>1, <1>2, <1>3 DEF LoadNext

LEMMA LoaderStart == LoadInit => LoadInv /\ LoadExact
<1> SUFFICES ASSUME LoadInit PROVE LoadInv /\ LoadExact
  OBVIOUS
<1>1. inuse = {} /\ vms = [v \in Slots |-> NoVm]
  BY DEF LoadInit
<1>2. Live = {}
  BY <1>1 DEF Live
<1>3. vms \in [Slots -> LoadedVm \cup {NoVm}]
  BY <1>1
<1> QED
  BY <1>1, <1>2, <1>3 DEF LoadInv, LoadExact, NoBlockShared, LocalBlocksAccounted, LoadedImageExact

\* Whatever the images, and wherever a load fails (apply_pt_load, vm_load and the
\* unwinding of vm_system_load_vm_with_mailbox): a block that a VM holds is in use, and
\* none belongs to two VMs.
THEOREM LoadsShareNothing == LoadSpec => []NoBlockShared
<1>1. LoadInit => LoadInv
  BY LoaderStart
<1>2. LoadInv /\ [LoadNext]_ldvars => LoadInv'
  BY LoadNextInv
<1>3. LoadInv => NoBlockShared
  BY DEF LoadInv
<1> QED
  BY <1>1, <1>2, <1>3, PTL DEF LoadSpec

\* For images as the linker script makes them: no block is leaked by a load that failed
\* or an unload, and what a loaded VM's regions hold is its image (vm_loader.c,
\* vm_system_load_vm_with_mailbox and vm_system_unload_vm).
THEOREM LoadsStayExact ==
    ASSUME LinkedImages
    PROVE  LoadSpec => []LoadExact
<1>1. LoadInit => LoadInv /\ LoadExact
  BY LoaderStart
<1>2. LoadInv /\ LoadExact /\ [LoadNext]_ldvars => (LoadInv /\ LoadExact)'
  BY LoadNextInv
<1> QED
  BY <1>1, <1>2, PTL DEF LoadSpec
=============================================================================
