--------------------------- MODULE ServiceChannel ---------------------------
(***************************************************************************)
(* vm/service_channel.c over the desktop transport vm/channel_thread.c:    *)
(* a requester (the VM side) and a provider (audio_service_run) joined by  *)
(* a request ring and a response ring, with one mutex and condition        *)
(* variable that both sides sleep on.                                      *)
(*                                                                         *)
(* The rings are the bounded FIFOs that SpscRing is proved to implement.   *)
(* The transport's 64-bit generation is only ever compared with the value  *)
(* sampled on entry to wait, so notified[p] stands for "the generation has *)
(* advanced since p entered wait".                                         *)
(***************************************************************************)
EXTENDS Naturals, Sequences

CONSTANTS
    Depth,      \* usable slots of each ring
    SeqMod,     \* 2^32 in the code: the width of the sequence number
    MaxCalls,   \* bound: the call counter saturates here
    Timed       \* the sides whose waits have a finite timeout

Party == {"requester", "provider"}

ASSUME DepthAssumption == Depth \in Nat \ {0}
ASSUME SeqAssumption == SeqMod \in Nat /\ SeqMod >= 3
ASSUME BoundAssumption == MaxCalls \in Nat /\ SeqMod <= MaxCalls
ASSUME TimedAssumption == Timed \subseteq Party

VARIABLES
    req,        \* the request ring
    resp,       \* the response ring
    next_seq,   \* requester-side sequence allocator
    calls,      \* history: how many sequence numbers were handed out
    notified,   \* per party: the generation moved since it entered wait
    rpc,        \* where the requester is in channel_request_call
    rmsg,       \* the request it is making
    retry,      \* what the requester goes back to when its wait is over
    result,     \* what the last channel_request_call returned
    ppc,        \* where the provider is in its service loop
    pmsg        \* the request it is handling

ring == <<req, resp>>
rvars == <<next_seq, calls, rpc, rmsg, retry, result>>
pvars == <<ppc, pmsg>>
vars == <<ring, notified, rvars, pvars>>

\* ChannelMsg: the sequence number, whether CHANNEL_FLAG_EXPECTS_RESPONSE is
\* set, and (history) which call it belongs to.
Msg == [seq : 0 .. SeqMod - 1, expects : BOOLEAN, call : 0 .. MaxCalls]
NoMsg == [seq |-> 0, expects |-> FALSE, call |-> 0]

Init ==                                      \* service_channel_init
    /\ req = <<>> /\ resp = <<>>
    /\ next_seq = 1
    /\ calls = 0
    /\ notified = [p \in Party |-> FALSE]
    /\ rpc = "idle" /\ rmsg = NoMsg /\ retry = "post"
    /\ result = [ok |-> FALSE, call |-> 0, own |-> 0]
    /\ ppc = "poll" /\ pmsg = NoMsg

-----------------------------------------------------------------------------
(* channel_thread.c *)

\* tt_notify: bump the generation and broadcast.
Notify == notified' = [p \in Party |-> TRUE]

\* tt_wait, entry: start_gen is sampled under the mutex.
WaitEnter(p) == notified' = [notified EXCEPT ![p] = FALSE]

\* tt_wait, return true: the generation moved.
WaitWoken(p) == notified[p] /\ UNCHANGED notified

\* Mutant: a finite timeout is treated like UINT32_MAX.
WaitTimeout_Never(p) == FALSE

\* tt_wait, return false: the timeout passed and the generation did not move.
WaitTimeout(p) == p \in Timed /\ ~notified[p] /\ UNCHANGED notified

-----------------------------------------------------------------------------
(* service_channel_next_seq *)

\* The number handed out: zero is skipped.
FreshSeq == IF next_seq = 0 THEN 1 ELSE next_seq

AllocateSeq ==
    /\ next_seq' = (FreshSeq + 1) % SeqMod
    /\ calls' = IF calls < MaxCalls THEN calls + 1 ELSE calls

-----------------------------------------------------------------------------
(* Requester *)

\* channel_request_call: stamp a fresh sequence number.
CallStart ==
    /\ rpc = "idle"
    /\ AllocateSeq
    /\ rmsg' = [seq |-> FreshSeq, expects |-> TRUE, call |-> calls']
    /\ rpc' = "post"
    /\ UNCHANGED <<ring, notified, retry, result, pvars>>

\* channel_request_post inside the call: push, or back off when full.
CallPost ==
    /\ rpc = "post"
    /\ IF Len(req) < Depth
       THEN /\ req' = Append(req, rmsg)
            /\ rpc' = "notify"
            /\ UNCHANGED retry
       ELSE /\ rpc' = "toWait"
            /\ retry' = "post"
            /\ UNCHANGED req
    /\ UNCHANGED <<resp, notified, next_seq, calls, rmsg, result, pvars>>

CallNotify ==
    /\ rpc = "notify"
    /\ Notify
    /\ rpc' = "poll"
    /\ UNCHANGED <<ring, next_seq, calls, rmsg, retry, result, pvars>>

Return(ok, call) ==
    /\ rpc' = "idle"
    /\ result' = [ok |-> ok, call |-> call, own |-> rmsg.call]

\* Mutant: the first response found is taken for ours.
CallMatch_AnySeq ==
    /\ rpc = "poll" /\ resp # <<>>
    /\ Return(TRUE, Head(resp).call)
    /\ resp' = Tail(resp)
    /\ UNCHANGED <<req, notified, next_seq, calls, rmsg, retry, pvars>>

\* The response with our sequence number ends the call.
CallMatch ==
    /\ rpc = "poll" /\ resp # <<>>
    /\ Head(resp).seq = rmsg.seq
    /\ Return(TRUE, Head(resp).call)
    /\ resp' = Tail(resp)
    /\ UNCHANGED <<req, notified, next_seq, calls, rmsg, retry, pvars>>

\* Any other response goes to the stray callback (or is dropped).
CallStray ==
    /\ rpc = "poll" /\ resp # <<>>
    /\ Head(resp).seq # rmsg.seq
    /\ resp' = Tail(resp)
    /\ UNCHANGED <<req, notified, rvars, pvars>>

CallEmpty ==
    /\ rpc = "poll" /\ resp = <<>>
    /\ rpc' = "toWait"
    /\ retry' = "poll"
    /\ UNCHANGED <<ring, notified, next_seq, calls, rmsg, result, pvars>>

CallWait ==
    /\ rpc = "toWait"
    /\ WaitEnter("requester")
    /\ rpc' = "wait"
    /\ UNCHANGED <<ring, next_seq, calls, rmsg, retry, result, pvars>>

CallWoken ==
    /\ rpc = "wait"
    /\ WaitWoken("requester")
    /\ rpc' = retry
    /\ UNCHANGED <<ring, next_seq, calls, rmsg, retry, result, pvars>>

CallTimeout ==
    /\ rpc = "wait"
    /\ WaitTimeout("requester")
    /\ Return(FALSE, 0)
    /\ UNCHANGED <<ring, next_seq, calls, rmsg, retry, pvars>>

\* channel_request_post on its own: a fire-and-forget or asynchronous post.
AsyncPost(expects) ==
    /\ rpc = "idle"
    /\ Len(req) < Depth
    /\ AllocateSeq
    /\ req' = Append(req, [seq |-> FreshSeq, expects |-> expects,
                           call |-> calls'])
    /\ rpc' = "asyncNotify"
    /\ UNCHANGED <<resp, notified, rmsg, retry, result, pvars>>

AsyncNotify ==
    /\ rpc = "asyncNotify"
    /\ Notify
    /\ rpc' = "idle"
    /\ UNCHANGED <<ring, next_seq, calls, rmsg, retry, result, pvars>>

\* channel_response_poll outside a call: drain one asynchronous response.
AsyncDrain ==
    /\ rpc = "idle" /\ resp # <<>>
    /\ resp' = Tail(resp)
    /\ UNCHANGED <<req, notified, rvars, pvars>>

-----------------------------------------------------------------------------
(* Provider: audio_service_run / audio_service_process / respond *)

\* channel_request_poll: take the next request, or go to the idle wait.
ProviderPoll ==
    /\ ppc = "poll"
    /\ IF req # <<>>
       THEN /\ pmsg' = Head(req)
            /\ req' = Tail(req)
            /\ ppc' = "handle"
       ELSE /\ ppc' = "toIdle"
            /\ UNCHANGED <<req, pmsg>>
    /\ UNCHANGED <<resp, notified, rvars>>

\* handle_one, then respond returns early when no response is expected.
ProviderHandle ==
    /\ ppc = "handle"
    /\ ppc' = IF pmsg.expects THEN "respond" ELSE "poll"
    /\ UNCHANGED <<ring, notified, rvars, pmsg>>

\* respond: post the response, backing off while the ring is full.
ProviderRespond ==
    /\ ppc = "respond"
    /\ IF Len(resp) < Depth
       THEN resp' = Append(resp, pmsg) /\ ppc' = "notify"
       ELSE ppc' = "toBackoff" /\ UNCHANGED resp
    /\ UNCHANGED <<req, notified, rvars, pmsg>>

ProviderNotify ==
    /\ ppc = "notify"
    /\ Notify
    /\ ppc' = "poll"
    /\ UNCHANGED <<ring, rvars, pmsg>>

\* channel_provider_wait: idle, or backing off; its result is ignored.
ProviderWait ==
    /\ ppc \in {"toIdle", "toBackoff"}
    /\ WaitEnter("provider")
    /\ ppc' = IF ppc = "toIdle" THEN "idle" ELSE "backoff"
    /\ UNCHANGED <<ring, rvars, pmsg>>

ProviderWaitOver ==
    /\ ppc \in {"idle", "backoff"}
    /\ WaitWoken("provider") \/ WaitTimeout("provider")
    /\ ppc' = IF ppc = "idle" THEN "poll" ELSE "respond"
    /\ UNCHANGED <<ring, rvars, pmsg>>

-----------------------------------------------------------------------------

RequesterStep ==
    \/ CallPost \/ CallNotify \/ CallMatch \/ CallStray \/ CallEmpty
    \/ CallWait \/ CallWoken \/ CallTimeout \/ AsyncNotify

RequesterChoice ==
    CallStart \/ AsyncDrain \/ \E expects \in BOOLEAN : AsyncPost(expects)

ProviderStep ==
    \/ ProviderPoll \/ ProviderHandle \/ ProviderRespond \/ ProviderNotify
    \/ ProviderWait \/ ProviderWaitOver

Next == RequesterStep \/ RequesterChoice \/ ProviderStep

\* Both sides are threads the operating system keeps running; whether the
\* guest makes another call is its own choice.
Spec == Init /\ [][Next]_vars /\ WF_vars(RequesterStep) /\ WF_vars(ProviderStep)

-----------------------------------------------------------------------------
(* Properties *)

\* Types, the ring bounds, and the reserved sequence number 0.
TypeOK ==
    /\ req \in Seq(Msg) /\ Len(req) <= Depth
    /\ resp \in Seq(Msg) /\ Len(resp) <= Depth
    /\ next_seq \in 0 .. SeqMod - 1
    /\ calls \in 0 .. MaxCalls
    /\ notified \in [Party -> BOOLEAN]
    /\ rpc \in {"idle", "post", "notify", "poll", "toWait", "wait",
                "asyncNotify"}
    /\ rmsg \in Msg
    /\ rpc \notin {"idle", "asyncNotify"} => rmsg.seq # 0 /\ rmsg.expects
    /\ retry \in {"post", "poll"}
    /\ result \in [ok : BOOLEAN, call : 0 .. MaxCalls, own : 0 .. MaxCalls]
    /\ ppc \in {"poll", "handle", "respond", "notify", "toIdle", "idle",
                "toBackoff", "backoff"}
    /\ pmsg \in Msg

\* A call that succeeds returns the provider's answer to that very call, not
\* a late answer to an earlier call that timed out, as long as the 32-bit
\* sequence number has not wrapped (service_channel.c:98).
AnswerIsOwn == calls < SeqMod /\ result.ok => result.call = result.own

\* The provider answers in the order it was asked, and no request is ever in
\* two places: requests waiting, in hand and answered are distinct calls.
InFlight ==
    resp \o (IF ppc \in {"handle", "respond", "toBackoff", "backoff"}
             THEN <<pmsg>> ELSE <<>>) \o req
RequestsInOrder ==
    calls < MaxCalls =>
        \A i, j \in 1 .. Len(InFlight) :
            i < j => InFlight[i].call < InFlight[j].call

\* A call whose request was accepted and whose answer is expected is still in
\* flight while the caller waits for it: respond retries until the response
\* ring takes it, so the answer cannot be lost while somebody listens.
AwaitedIsInFlight ==
    /\ calls < MaxCalls
    /\ rpc \in {"notify", "poll"} \/ (rpc \in {"toWait", "wait"} /\ retry = "poll")
    => \E i \in 1 .. Len(InFlight) : InFlight[i] = rmsg

\* With a finite timeout every channel_request_call returns, whatever the
\* provider does and whichever wakeups are lost.
CallReturns == (rpc = "post") ~> (rpc = "idle")

\* The provider leaves respond's retry loop as long as the requester keeps
\* coming back: a full response ring of unread answers cannot wedge the
\* service for ever.
ProviderNotWedged ==
    []<>(rpc = "poll") => []<>(ppc = "poll")

\* Neither side of the channel waits for ever.
ChannelLive == CallReturns /\ ProviderNotWedged

\* channel_thread.c:16-19 says of tt_wait that a notify between the ring
\* check and the wait is not slept through: no side is asleep, un-notified,
\* on a ring that its peer filled and has finished notifying about.
NoLostWakeup ==
    /\ (rpc = "wait" /\ retry = "poll" /\ ~notified["requester"]
            /\ resp # <<>>) => ppc = "notify"
    /\ (ppc = "idle" /\ ~notified["provider"] /\ req # <<>>)
            => rpc \in {"notify", "asyncNotify"}
=============================================================================
