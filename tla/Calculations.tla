---------------------------- MODULE Calculations ----------------------------
(***************************************************************************)
(* The arithmetic the load generator relies on, without state: how many    *)
(* calls a sending loop starts (uac/load_pattern, orchestrator), how long  *)
(* it sleeps, how large max_dialogs must be (config) and which latency is  *)
(* a percentile (stats).  Rates and times are natural numbers; where the   *)
(* program truncates or rounds up an f64 the division here does the same   *)
(* exactly, without the rounding of the f64 before it.                     *)
(***************************************************************************)
EXTENDS Integers, FiniteSets

Larger(a, b) == IF a >= b THEN a ELSE b
Smaller(a, b) == IF a <= b THEN a ELSE b

CeilDiv(a, b) == (a + b - 1) \div b

-----------------------------------------------------------------------------
(* Pacing.  Times in a unit of which there are U in a second.              *)

\* cumulative_calls_at for RampUp: twice the integral of the rate, in calls times
\* the length of the ramp, so that nothing is rounded yet.
TwiceRampArea(t, cps, ramp) ==
    IF t <= ramp THEN cps * t * t ELSE cps * ramp * ramp + 2 * cps * ramp * (t - ramp)

\* Its integer part, and that of the constant patterns (and of a ramp of no time).
RampCalls(t, cps, ramp, U) == TwiceRampArea(t, cps, ramp) \div (2 * ramp * U)
SustainedCalls(t, cps, U) == (cps * t) \div U

CumulativeCalls(t, cps, ramp, U) ==
    IF ramp = 0 THEN SustainedCalls(t, cps, U) ELSE RampCalls(t, cps, ramp, U)

\* calls_to_send subtracts without going below 0.
CallsToSend(expected, sent) == Larger(expected - sent, 0)

\* What one round of run_sustained or run_step starts: at least a batch, once
\* anything is due.
RoundSize(expected, sent, batch) ==
    LET needed == CallsToSend(expected, sent)
    IN  IF needed > 0 THEN Larger(needed, batch) ELSE 0

\* calculate_send_interval for a positive rate: calls per round, and the
\* microseconds between rounds, from 1 ms to 100 ms.
BatchSize(cps) == IF cps >= 100 THEN (cps + 50) \div 100 ELSE 1

IntervalMicros(cps) ==
    Smaller(Larger((BatchSize(cps) * 1000000) \div cps, 1000), 100000)

-----------------------------------------------------------------------------
(* max_dialogs. *)

\* compute_effective_cps in binary search: the first of initial_cps, twice it,
\* and so on above target_cps, but no more than twice target_cps.
DoubledPast(initial, target) ==
    CHOOSE c \in {initial * 2^n : n \in 0..target} :
        c > target /\ (c = initial \/ c <= 2 * target)

EffectiveSearchCps(initial, target) == Smaller(DoubledPast(initial, target), 2 * target)

\* compute_margin_factor, in tenths: re-INVITEs overlap long calls.
MarginTenths(sessionExpires, callDuration) ==
    IF sessionExpires > 0 /\ sessionExpires \div 2 < callDuration THEN 13 ELSE 12

\* calculate_max_dialogs
MaxDialogsFor(cps, callDuration, sessionExpires) ==
    Larger(CeilDiv(cps * callDuration * MarginTenths(sessionExpires, callDuration), 10), 1)

-----------------------------------------------------------------------------
(* Percentiles. *)

\* percentile_at: the nearest rank among len sorted values, from 1.
PercentileRank(len, pct) == Smaller(Larger(CeilDiv(pct * len, 100), 1), len)
=============================================================================
