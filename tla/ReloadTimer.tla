----------------------------- MODULE ReloadTimer -----------------------------
(***************************************************************************)
(* The timing calls of a guest: sleeping for or until a tick, the periodic *)
(* reload timer and the frame-budget query.                                *)
(*   src/src/vm/vm_system.c         handle_ticks_now .. _yield_until_reload*)
(*   src/src/vm/vm_host_platform.c  handle_timing_deadline_remaining       *)
(* The scheduler's wake-up of a sleeper is VmSched's; here it is one step, *)
(* and the clock may stand still or jump by any of Jumps between any two.  *)
(* Ticks are 2^TickBits wide; trueNow is the clock that does not wrap.     *)
(***************************************************************************)
EXTENDS Integers

CONSTANTS
    TickBits,       \* width of a tick counter
    StartTick,      \* the clock when the guest starts
    Jumps,          \* ticks that may pass at once
    MaxTick,        \* bound on trueNow
    Periods,        \* periods the guest sets
    Safety,         \* the 1024 of handle_yield_until_reload
    Naps            \* arguments of SYS_SLEEP_TICKS and SYS_SLEEP_UNTIL

ASSUME ReloadAssumption ==
    /\ TickBits \in Nat \ {0, 1} /\ StartTick \in Nat /\ MaxTick \in Nat /\ Safety \in Nat
    /\ Jumps \subseteq Nat /\ Naps \subseteq Nat
    /\ Periods \subseteq 0 .. (2^(TickBits - 1) - 1)
    \* Arithmetic of powers of two, for the proofs.
    /\ 2^TickBits = 2 * 2^(TickBits - 1) /\ 2^(TickBits - 1) \in Nat \ {0}

VARIABLES
    trueNow,
    reload_period,
    reload_next_deadline,
    block,          \* "ready", "yielded", "sleep"
    block_deadline,
    anchor,         \* ghost: trueNow when the period was set
    wakeAt,         \* ghost: the tick, unwrapped, this sleep is to end at
    wokeAt          \* ghost: the last reload boundary the guest slept to; 0: none

reloadvars == <<trueNow, reload_period, reload_next_deadline, block, block_deadline,
                anchor, wakeAt, wokeAt>>

Wrapped(t) == t % 2^TickBits

\* (int32_t)(a - b) >= 0
NotBefore(a, b) == (a - b) % 2^TickBits < 2^(TickBits - 1)

\* The unwrapped tick that the tick t, which lies within half the range of the
\* clock, stands for.
Unwrapped(t) ==
    IF NotBefore(Wrapped(trueNow), t) THEN trueNow - ((Wrapped(trueNow) - t) % 2^TickBits)
    ELSE trueNow + ((t - Wrapped(trueNow)) % 2^TickBits)

handle_ticks_now == Wrapped(trueNow)

ReloadInit ==
    /\ trueNow = StartTick /\ reload_period = 0 /\ reload_next_deadline = 0
    /\ block = "ready" /\ block_deadline = 0
    /\ anchor = 0 /\ wakeAt = 0 /\ wokeAt = 0

SleepTo(tick) ==
    /\ block' = "sleep" /\ block_deadline' = tick /\ wakeAt' = Unwrapped(tick)

\* BLOCK_YIELDED: ready again on the next pass.
Yield == block' = "yielded" /\ UNCHANGED <<block_deadline, wakeAt>>

handle_sleep_ticks(n) ==
    /\ block = "ready"
    /\ IF n = 0 THEN Yield ELSE SleepTo(Wrapped(handle_ticks_now + n))
    /\ UNCHANGED <<trueNow, reload_period, reload_next_deadline, anchor, wokeAt>>

handle_sleep_until(deadline) ==
    /\ block = "ready"
    /\ IF NotBefore(handle_ticks_now, deadline) THEN Yield ELSE SleepTo(deadline)
    /\ UNCHANGED <<trueNow, reload_period, reload_next_deadline, anchor, wokeAt>>

handle_set_reload_period(p) ==
    /\ block = "ready"
    /\ reload_period' = p
    /\ reload_next_deadline' = IF p = 0 THEN 0 ELSE Wrapped(handle_ticks_now + p)
    /\ anchor' = trueNow /\ wokeAt' = 0
    /\ UNCHANGED <<trueNow, block, block_deadline, wakeAt>>

\* MUTANT: a boundary that is exactly now counts as in the future.
NextBoundary_AtNow(deadline, left) ==
    CHOOSE k \in 0 .. left :
        LET at(n) == Wrapped(deadline + n * reload_period)
            behind(n) == NotBefore(handle_ticks_now, at(n)) /\ at(n) # handle_ticks_now
        IN (k = left \/ ~behind(k)) /\ \A n \in 0 .. (k - 1) : behind(n)

\* The loop of handle_yield_until_reload: the number of periods added before
\* the boundary is strictly in the future or the safety count runs out.
NextBoundary(deadline, left) ==
    CHOOSE k \in 0 .. left :
        LET behind(n) == NotBefore(handle_ticks_now, Wrapped(deadline + n * reload_period))
        IN (k = left \/ ~behind(k)) /\ \A n \in 0 .. (k - 1) : behind(n)

handle_yield_until_reload ==
    /\ block = "ready"
    /\ IF reload_period = 0 THEN Yield /\ UNCHANGED <<reload_next_deadline, wokeAt>>
       ELSE LET k == NextBoundary(reload_next_deadline, Safety)
                next == Wrapped(reload_next_deadline + k * reload_period)
            IN /\ reload_next_deadline' = Wrapped(next + reload_period)
               /\ SleepTo(next)
               /\ wokeAt' = Unwrapped(next)
    /\ UNCHANGED <<trueNow, reload_period, anchor>>

\* What SYS_TIMING_DEADLINE_REMAINING answers.
handle_timing_deadline_remaining ==
    IF reload_period = 0 \/ NotBefore(handle_ticks_now, reload_next_deadline) THEN 0
    ELSE (reload_next_deadline - handle_ticks_now) % 2^TickBits

\* The scheduler's pass over a blocked machine: it stays blocked until its
\* deadline, compared modulo the width.
Wake ==
    /\ \/ block = "yielded"
       \/ block = "sleep" /\ NotBefore(handle_ticks_now, block_deadline)
    /\ block' = "ready"
    /\ UNCHANGED <<trueNow, reload_period, reload_next_deadline, block_deadline, anchor,
                   wakeAt, wokeAt>>

\* The host's clock moves on; a busy host may be away for a long time.
Elapse ==
    /\ \E d \in Jumps : trueNow + d <= MaxTick /\ trueNow' = trueNow + d
    /\ UNCHANGED <<reload_period, reload_next_deadline, block, block_deadline, anchor, wakeAt,
                   wokeAt>>

ReloadNext ==
    \/ \E n \in Naps : handle_sleep_ticks(n) \/ handle_sleep_until(Wrapped(StartTick + n))
    \/ \E p \in Periods : handle_set_reload_period(p)
    \/ handle_yield_until_reload
    \/ Wake \/ Elapse

-----------------------------------------------------------------------------
(* Properties.                                                              *)

\* The guest's sleeps on the timer end on boundaries of the phase the period
\* was set with.
OnTheGrid ==
    (reload_period > 0 /\ wokeAt > 0) => (wokeAt - anchor) % reload_period = 0

\* While a frame runs, the budget the guest is told is what is left of it.
BudgetExact ==
    (reload_period > 0 /\ wokeAt > 0 /\ block = "ready") =>
        handle_timing_deadline_remaining =
            LET left == wokeAt + reload_period - trueNow IN IF left > 0 THEN left ELSE 0

\* A yield to the timer always sleeps: to a boundary still to come, to the
\* first such one (missed frames are dropped, none is made up for), and never
\* to the same one twice.
NextFrame ==
    (handle_yield_until_reload /\ reload_period > 0) =>
        /\ trueNow < wokeAt' /\ wokeAt' <= trueNow + reload_period
        /\ wokeAt < wokeAt'

\* No sleeper is woken before its tick, whatever the wrap-around.
NotEarly == (block = "sleep" /\ block' = "ready") => trueNow >= wakeAt

\* Timing as the calls promise it, for a guest that is never further behind
\* than half the clock's range or Safety periods.
TimingExact == [][OnTheGrid' /\ BudgetExact' /\ NextFrame /\ NotEarly]_reloadvars
=============================================================================
