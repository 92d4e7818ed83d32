----------------------------- MODULE MCSearch -----------------------------
(***************************************************************************)
(* An instance of Search for TLC, and the arithmetic of the load generator *)
(* (Calculations) compared with what its documentation and its comments    *)
(* promise, over bounded inputs.                                           *)
(***************************************************************************)
EXTENDS Search, Calculations

-----------------------------------------------------------------------------
(* Pacing, with ten units of time in a second.                             *)

Units == 10

\* A ramp (uac/load_pattern.rs:66-86) never takes calls back, and never asks for more
\* calls in a unit of time than the full rate does.
ASSUME RampMonotone ==
    \A cps \in 1..12, ramp \in 0..30, t \in 0..60 :
        LET now == CumulativeCalls(t, cps, ramp, Units)
            next == CumulativeCalls(t + 1, cps, ramp, Units)
        IN  now <= next /\ next - now <= CeilDiv(cps, Units)

\* Once it is over, a ramp has cost half its length in calls, to the nearest one, and
\* then runs at the full rate.
ASSUME RampLosesHalf ==
    \A cps \in 1..12, ramp \in 1..30, t \in 0..30 :
        LET full == SustainedCalls(ramp + t, cps, Units)
            lost == full - CumulativeCalls(ramp + t, cps, ramp, Units)
        IN  lost \in {(cps * ramp) \div (2 * Units), CeilDiv(cps * ramp, 2 * Units)}

\* A round of run_sustained or run_step (orchestrator/mod.rs:373-377) is never ahead by
\* a whole batch and never behind.
ASSUME RoundKeepsUp ==
    \A expected \in 0..20, sent \in 0..20, batch \in 1..5 :
        LET after == sent + RoundSize(expected, sent, batch)
        IN  /\ after >= expected
            /\ after > sent => after < expected + batch

\* calculate_send_interval: a batch per interval is within 5% of the rate asked for
\* (orchestrator/mod.rs:597), from 10 calls per second up; below, the interval stops at
\* 100 ms and a round with nothing due sends nothing.
ASSUME RateWithinFivePercent ==
    \A cps \in 10..3000 \cup {k * 997 : k \in 4..100} :
        LET asked == cps * IntervalMicros(cps)
            off == BatchSize(cps) * 1000000 - asked
        IN  /\ off \in (0 - asked \div 20)..(asked \div 20)
            /\ IntervalMicros(cps) \in 1000..100000

-----------------------------------------------------------------------------
(* max_dialogs and percentiles. *)

\* compute_effective_cps: max_dialogs of a binary search is sized for the first rate of
\* the doubling above the target, but for no more than twice the target: an initial
\* rate beyond that is not covered (config/mod.rs:263-290).
ASSUME SearchRateSized ==
    \A initial \in 1..30, target \in 1..12 :
        LET cps == EffectiveSearchCps(initial, target)
        IN  /\ cps > target /\ cps <= 2 * target
            /\ cps < initial <=> initial > 2 * target

\* percentile_at is the nearest rank: the least number of values of which at least pct
\* out of a hundred are at or below it (stats/mod.rs:286).
ASSUME NearestRank ==
    \A len \in 1..100, pct \in {50, 90, 95, 99} :
        PercentileRank(len, pct)
          = CHOOSE r \in 1..len : /\ 100 * r >= pct * len
                                  /\ \A q \in 1..(r - 1) : 100 * q < pct * len
=============================================================================
