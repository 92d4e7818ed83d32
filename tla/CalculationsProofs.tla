------------------------- MODULE CalculationsProofs -------------------------
(***************************************************************************)
(* Theorems about the arithmetic of the load generator, for every rate,    *)
(* duration and number of samples: what MCSearch evaluates for small ones. *)
(***************************************************************************)
EXTENDS Calculations, TLAPS

-----------------------------------------------------------------------------
(* Quotients. *)

\* What a whole division is.
LEMMA DivBounds ==
  ASSUME NEW x \in Nat, NEW d \in Nat \ {0}
  PROVE  /\ x \div d \in Nat
         /\ d * (x \div d) <= x
         /\ x < d * (x \div d) + d
BY SMT

\* It is the largest number that, taken d times, is no more than x.
LEMMA DivBelow ==
  ASSUME NEW x \in Nat, NEW d \in Nat \ {0}, NEW k \in Nat, x < d * k
  PROVE  x \div d < k
<1> DEFINE q == x \div d
<1>1. q \in Nat /\ d * q <= x
  BY DivBounds
<1> HIDE DEF q
<1>2. CASE k <= q
  <2>1. PICK j \in Nat : q = k + j
    BY <1>1, <1>2, SMT
  <2>2. d * q = d * k + d * j /\ d * j \in Nat
    BY <2>1, SMT
  <2> QED BY <1>1, <2>2, SMT
<1> QED BY <1>1, <1>2 DEF q

LEMMA DivAtLeast ==
  ASSUME NEW x \in Nat, NEW d \in Nat \ {0}, NEW k \in Nat, d * k <= x
  PROVE  k <= x \div d
<1> DEFINE q == x \div d
<1>1. q \in Nat /\ x < d * q + d
  BY DivBounds
<1> HIDE DEF q
<1>2. CASE q < k
  <2>1. PICK j \in Nat : k = q + 1 + j
    BY <1>1, <1>2, SMT
  <2>2. d * k = d * q + d + d * j /\ d * j \in Nat
    BY <1>1, <2>1, SMT
  <2> QED BY <1>1, <2>2, SMT
<1> QED BY <1>1, <1>2 DEF q

LEMMA CeilBounds ==
  ASSUME NEW x \in Nat, NEW d \in Nat \ {0}
  PROVE  /\ CeilDiv(x, d) \in Nat
         /\ x <= d * CeilDiv(x, d)
         /\ d * CeilDiv(x, d) < x + d
<1>1. x + d - 1 \in Nat
  BY SMT
<1> QED BY <1>1, DivBounds, SMT DEF CeilDiv

\* A numerator that grows by at most c divisors raises the quotient by at most c.
LEMMA QuotientGrows ==
  ASSUME NEW x \in Nat, NEW y \in Nat, NEW d \in Nat \ {0}, NEW c \in Nat,
         x <= y, y <= x + d * c
  PROVE  x \div d \in Nat /\ y \div d \in Nat /\ x \div d <= y \div d /\ y \div d <= x \div d + c
<1> DEFINE q == x \div d
<1>1. q \in Nat /\ y \div d \in Nat /\ d * q <= x /\ x < d * q + d
  BY DivBounds
<1> HIDE DEF q
<1>2. q <= y \div d
  BY <1>1, DivAtLeast, d * q <= y, SMT
<1>3. d * (q + c + 1) = d * q + d * c + d
  BY <1>1, SMT
<1>4. y < d * (q + c + 1)
  <2>1. d * q \in Nat /\ d * c \in Nat
    BY <1>1, SMT
  <2> QED BY <1>1, <1>3, <2>1, SMT
<1>5. q + c + 1 \in Nat
  BY <1>1
<1>6. y \div d < q + c + 1
  BY <1>4, <1>5, DivBelow
<1> QED BY <1>1, <1>2, <1>6, SMT DEF q

\* A positive factor can be dropped from a comparison.
LEMMA ProductOrder ==
  ASSUME NEW d \in Nat \ {0}, NEW x \in Nat, NEW y \in Nat, d * x < d * y
  PROVE  x < y
<1>1. CASE y <= x
  <2>1. PICK j \in Nat : x = y + j
    BY <1>1, SMT
  <2>2. d * x = d * y + d * j /\ d * j \in Nat /\ d * y \in Nat
    BY <2>1, SMT
  <2> QED BY <2>2, SMT
<1> QED BY <1>1, SMT

\* A common factor does not change a quotient.
LEMMA FactorCancels ==
  ASSUME NEW x \in Nat, NEW d \in Nat \ {0}, NEW k \in Nat \ {0}
  PROVE  (k * x) \div (k * d) = x \div d
<1> DEFINE q == x \div d
<1>1. q \in Nat /\ d * q <= x /\ x < d * q + d
  BY DivBounds
<1> HIDE DEF q
<1>2. k * x \in Nat /\ k * d \in Nat \ {0} /\ q + 1 \in Nat
  BY <1>1, SMT
<1>3. (k * d) * q <= k * x
  <2>1. PICK j \in Nat : x = d * q + j
    <3>1. d * q \in Nat
      BY <1>1, SMT
    <3> QED BY <1>1, <3>1, SMT
  <2>2. k * x = (k * d) * q + k * j /\ k * j \in Nat /\ (k * d) * q \in Nat
    BY <1>1, <2>1, SMT
  <2> QED BY <2>2, SMT
<1>4. k * x < (k * d) * (q + 1)
  <2>1. PICK j \in Nat : d * q + d = x + 1 + j
    <3>1. d * q \in Nat
      BY <1>1, SMT
    <3> QED BY <1>1, <3>1, SMT
  <2>2. (k * d) * (q + 1) = k * (d * q + d)
    BY <1>1, SMT
  <2>3. k * (x + 1 + j) = k * x + k + k * j /\ k * j \in Nat
    BY <2>1, SMT
  <2> QED BY <1>2, <2>1, <2>2, <2>3, SMT
<1>5. (k * x) \div (k * d) \in Nat
  BY <1>2, DivBounds
<1>6. q <= (k * x) \div (k * d) /\ (k * x) \div (k * d) < q + 1
  BY <1>1, <1>2, <1>3, <1>4, DivAtLeast, DivBelow
<1> QED BY <1>1, <1>5, <1>6, SMT DEF q

-----------------------------------------------------------------------------
(* Pacing. *)

\* A sending loop never falls behind the pattern, and is ahead of it by less
\* than a batch: calls_to_send itself never exceeds the cumulative target
\* (load_pattern.rs), only the minimum of a batch does.
THEOREM PacingFollowsPattern ==
  ASSUME NEW expected \in Nat, NEW before \in Nat, before <= expected,
         NEW batch \in Nat \ {0}, NEW sent \in Nat, sent <= before + batch - 1
  PROVE  LET after == sent + RoundSize(expected, sent, batch)
         IN  /\ after >= expected
             /\ after <= expected + batch - 1
             /\ sent + CallsToSend(expected, sent) <= Larger(expected, sent)
BY SMT DEF RoundSize, CallsToSend, Larger

\* In a unit of time the area under a ramp grows by no more than at the full rate.
LEMMA AreaGrows ==
  ASSUME NEW cps \in Nat, NEW ramp \in Nat \ {0}, NEW t \in Nat
  PROVE  /\ TwiceRampArea(t, cps, ramp) \in Nat /\ TwiceRampArea(t + 1, cps, ramp) \in Nat
         /\ TwiceRampArea(t, cps, ramp) <= TwiceRampArea(t + 1, cps, ramp)
         /\ TwiceRampArea(t + 1, cps, ramp) <= TwiceRampArea(t, cps, ramp) + 2 * cps * ramp
<1>1. CASE t + 1 <= ramp
  <2>1. cps * (t + 1) * (t + 1) = cps * t * t + 2 * (cps * t) + cps
    BY SMT
  <2>2. PICK j \in Nat : ramp = t + 1 + j
    BY <1>1, SMT
  <2>3. 2 * cps * ramp = 2 * (cps * t) + 2 * cps + 2 * (cps * j)
    BY <2>2, SMT
  <2>4. cps * t * t \in Nat /\ cps * t \in Nat /\ cps * j \in Nat
    BY SMT
  <2> QED BY <1>1, <2>1, <2>3, <2>4, SMT DEF TwiceRampArea
<1>2. CASE ramp <= t
  <2>1. 2 * cps * ramp * (t + 1 - ramp) = 2 * cps * ramp * (t - ramp) + 2 * cps * ramp
    BY SMT
  <2>2. cps * ramp * ramp \in Nat /\ 2 * cps * ramp \in Nat /\ 2 * cps * ramp * (t - ramp) \in Nat
    BY <1>2, SMT
  <2>3. TwiceRampArea(t, cps, ramp) = cps * ramp * ramp + 2 * cps * ramp * (t - ramp)
    BY <1>2, t = ramp \/ ~(t <= ramp), SMT DEF TwiceRampArea
  <2>4. TwiceRampArea(t + 1, cps, ramp) = cps * ramp * ramp + 2 * cps * ramp * (t + 1 - ramp)
    BY <1>2, ~(t + 1 <= ramp), SMT DEF TwiceRampArea
  <2> QED BY <2>1, <2>2, <2>3, <2>4, SMT
<1> QED BY <1>1, <1>2, SMT

\* A ramp never takes calls back, and in a unit of time never asks for more calls than
\* the full rate does (load_pattern.rs, cumulative_calls_at).
THEOREM RampFollowsRate ==
  ASSUME NEW cps \in Nat, NEW ramp \in Nat, NEW t \in Nat, NEW U \in Nat \ {0}
  PROVE  LET now == CumulativeCalls(t, cps, ramp, U)
             next == CumulativeCalls(t + 1, cps, ramp, U)
         IN  now <= next /\ next <= now + CeilDiv(cps, U)
<1> DEFINE c == CeilDiv(cps, U)
<1>1. c \in Nat /\ cps <= U * c
  BY CeilBounds
<1> HIDE DEF c
<1>2. CASE ramp = 0
  <2>1. cps * t \in Nat /\ cps * (t + 1) \in Nat /\ cps * (t + 1) = cps * t + cps
    BY SMT
  <2>2. cps * t <= cps * (t + 1) /\ cps * (t + 1) <= cps * t + U * c
    BY <1>1, <2>1, SMT
  <2> QED BY <1>1, <1>2, <2>1, <2>2, QuotientGrows DEF CumulativeCalls, SustainedCalls, c
<1>3. CASE ramp # 0
  <2> DEFINE d == 2 * ramp * U
             now == TwiceRampArea(t, cps, ramp)
             next == TwiceRampArea(t + 1, cps, ramp)
  <2>1. d \in Nat \ {0}
    BY <1>3, SMT
  <2>2. 2 * cps * ramp <= d * c
    <3>1. PICK j \in Nat : U * c = cps + j
      BY <1>1, SMT
    <3>2. d * c = 2 * ramp * (U * c)
      BY <1>1, SMT
    <3>3. 2 * ramp * (U * c) = 2 * cps * ramp + 2 * (ramp * j) /\ ramp * j \in Nat
      BY <3>1, SMT
    <3>4. 2 * cps * ramp \in Nat
      BY SMT
    <3> HIDE DEF d
    <3> QED BY <3>2, <3>3, <3>4, SMT
  <2>3. now \in Nat /\ next \in Nat /\ now <= next /\ next <= now + 2 * cps * ramp
    BY <1>3, AreaGrows
  <2>4. d * c \in Nat /\ 2 * cps * ramp \in Nat
    BY <1>1, <2>1, SMT
  <2> HIDE DEF d, now, next
  <2>5. next <= now + d * c
    BY <2>2, <2>3, <2>4, SMT
  <2>6. now \div d <= next \div d /\ next \div d <= now \div d + c
    BY <1>1, <2>1, <2>3, <2>5, QuotientGrows
  <2> QED BY <1>3, <2>6 DEF CumulativeCalls, RampCalls, c, d, now, next
<1> QED BY <1>2, <1>3

\* Once it is over, a ramp has cost half its length in calls, to the nearest one, and
\* then runs at the full rate (load_pattern.rs, cumulative_calls_at).
THEOREM RampLosesHalfItsCalls ==
  ASSUME NEW cps \in Nat, NEW ramp \in Nat \ {0}, NEW t \in Nat, NEW U \in Nat \ {0}
  PROVE  SustainedCalls(ramp + t, cps, U) - CumulativeCalls(ramp + t, cps, ramp, U)
           \in {(cps * ramp) \div (2 * U), CeilDiv(cps * ramp, 2 * U)}
<1> DEFINE a == cps * ramp
           b == cps * t
           D == 2 * U
           F == (a + b) \div U
           C == (a + 2 * b) \div D
           h == a \div D
           u == CeilDiv(a, D)
<1>1. a \in Nat /\ b \in Nat /\ D \in Nat \ {0}
  BY SMT
<1>2. SustainedCalls(ramp + t, cps, U) = F
  <2>1. cps * (ramp + t) = a + b
    BY SMT
  <2> QED BY <2>1 DEF SustainedCalls
<1>3. CumulativeCalls(ramp + t, cps, ramp, U) = C
  <2>1. TwiceRampArea(ramp + t, cps, ramp) = cps * ramp * ramp + 2 * cps * ramp * t
    <3>1. CASE t = 0
      BY <3>1, SMT DEF TwiceRampArea
    <3>2. CASE t # 0
      BY <3>2, ~(ramp + t <= ramp), ramp + t - ramp = t, SMT DEF TwiceRampArea
    <3> QED BY <3>1, <3>2
  <2>2. cps * ramp * ramp + 2 * cps * ramp * t = ramp * (a + 2 * b)
    BY SMT
  <2>3. 2 * ramp * U = ramp * D
    BY SMT
  <2>4. a + 2 * b \in Nat
    BY <1>1, SMT
  <2> HIDE DEF a, b, D
  <2>5. (ramp * (a + 2 * b)) \div (ramp * D) = (a + 2 * b) \div D
    BY <1>1, <2>4, FactorCancels
  <2> QED BY <2>1, <2>2, <2>3, <2>5 DEF CumulativeCalls, RampCalls
<1> HIDE DEF a, b
<1>4. a + b \in Nat /\ a + 2 * b \in Nat
  BY <1>1, SMT
<1>5. F \in Nat /\ U * F <= a + b /\ a + b < U * F + U
  BY <1>4, DivBounds
<1>6. C \in Nat /\ D * C <= a + 2 * b /\ a + 2 * b < D * C + D
  BY <1>1, <1>4, DivBounds
<1>7. h \in Nat /\ D * h <= a /\ a < D * h + D
  BY <1>1, DivBounds
<1>8. u \in Nat /\ a <= D * u /\ D * u < a + D
  BY <1>1, CeilBounds
<1>9. D * F = 2 * (U * F)
  BY <1>5, SMT
<1> HIDE DEF F, C, h, u, D
<1>d. D * F \in Nat /\ D * C \in Nat /\ D * h \in Nat /\ D * u \in Nat /\ U * F \in Nat /\ D = 2 * U
  BY <1>1, <1>5, <1>6, <1>7, <1>8, SMT DEF D
<1>10. D * F < D * C + D * u + D
  BY <1>1, <1>5, <1>6, <1>8, <1>9, <1>d, SMT
<1>11. D * C + D * h < D * F + D
  BY <1>1, <1>5, <1>6, <1>7, <1>9, <1>d, SMT
<1>12. F < C + u + 1
  <2>1. D * C + D * u + D = D * (C + u + 1)
    BY <1>1, <1>6, <1>8, SMT
  <2> QED BY <1>1, <1>5, <1>6, <1>8, <1>10, <2>1, ProductOrder
<1>13. C + h < F + 1
  <2>1. D * C + D * h = D * (C + h) /\ D * F + D = D * (F + 1)
    BY <1>1, <1>5, <1>6, <1>7, SMT
  <2> QED BY <1>1, <1>5, <1>6, <1>7, <1>11, <2>1, ProductOrder
<1>14. u < h + 2
  <2>1. D * u < D * h + 2 * D
    BY <1>1, <1>7, <1>8, <1>d, SMT
  <2>2. D * h + 2 * D = D * (h + 2)
    BY <1>1, <1>7, SMT
  <2> QED BY <1>1, <1>7, <1>8, <2>1, <2>2, ProductOrder
<1>15. F - C \in {h, u}
  BY <1>5, <1>6, <1>7, <1>8, <1>12, <1>13, <1>14, SMT
<1> QED BY <1>2, <1>3, <1>15 DEF F, C, h, u, a, D

MicrosPerSecond == 1000000

\* A batch per interval is never slower than the rate asked for.
LEMMA IntervalNotAbove ==
  ASSUME NEW cps \in Nat \ {0}
  PROVE  /\ BatchSize(cps) \in Nat \ {0}
         /\ IntervalMicros(cps) \in Nat
         /\ cps * IntervalMicros(cps) <= BatchSize(cps) * MicrosPerSecond
<1> DEFINE y == BatchSize(cps) * MicrosPerSecond
           q == y \div cps
           I == IntervalMicros(cps)
<1>1. /\ BatchSize(cps) \in Nat \ {0}
      /\ y \in Nat /\ cps * 1000 <= y
  BY SMT DEF BatchSize, MicrosPerSecond
<1>2. I = Smaller(Larger(q, 1000), 100000)
  BY DEF IntervalMicros, MicrosPerSecond
<1> HIDE DEF y, I
<1>3. q \in Nat /\ cps * q <= y
  BY <1>1, DivBounds
<1>4. q >= 1000
  BY <1>1, DivAtLeast, SMT
<1> HIDE DEF q
<1>5. (I = q /\ q <= 100000) \/ (I = 100000 /\ 100000 < q)
  BY <1>2, <1>3, <1>4, SMT DEF Larger, Smaller
<1>6. ASSUME I = q /\ q <= 100000 PROVE I \in Nat /\ cps * I <= y
  BY <1>3, <1>6, SMT
<1>7. ASSUME I = 100000 /\ 100000 < q PROVE I \in Nat /\ cps * I <= y
  <2>1. PICK j \in Nat : q = 100000 + j
    BY <1>3, <1>7, q - 100000 \in Nat, SMT
  <2>2. cps * q = cps * 100000 + cps * j /\ cps * j \in Nat
    BY <2>1, SMT
  <2> QED BY <1>1, <1>3, <1>7, <2>2, SMT
<1>8. I \in Nat /\ cps * I <= y
  BY <1>5, <1>6, <1>7, SMT
<1> QED BY <1>1, <1>8 DEF y, I

\* From 10 calls per second up, a batch per interval is within 5% of the rate asked for,
\* as calculate_send_interval promises (orchestrator/mod.rs:597).
THEOREM RateKept ==
  ASSUME NEW cps \in Nat, cps >= 10
  PROVE  LET asked == cps * IntervalMicros(cps)
             sent == BatchSize(cps) * MicrosPerSecond
         IN  asked <= sent /\ 20 * (sent - asked) <= asked
<1> DEFINE y == BatchSize(cps) * MicrosPerSecond
           q == y \div cps
           I == IntervalMicros(cps)
<1>1. y \in Nat /\ cps * 5000 <= y /\ y < cps * 100001
  BY SMT DEF BatchSize, MicrosPerSecond
<1>2. I = Smaller(Larger(q, 1000), 100000)
  BY DEF IntervalMicros, MicrosPerSecond
<1> HIDE DEF y, I
<1>3. q \in Nat /\ cps * q <= y /\ y < cps * q + cps
  BY <1>1, DivBounds, cps \in Nat \ {0}, SMT
<1>4. q >= 5000 /\ q < 100001
  BY <1>1, DivAtLeast, DivBelow, cps \in Nat \ {0}, SMT
<1> HIDE DEF q
<1>5. I = q
  BY <1>2, <1>3, <1>4, SMT DEF Larger, Smaller
<1>6. PICK j \in Nat : q = 20 + j
  BY <1>3, <1>4, q - 20 \in Nat, SMT
<1>7. cps * q = 20 * cps + cps * j /\ cps * j \in Nat
  BY <1>6, SMT
<1>8. cps * I <= y /\ 20 * (y - cps * I) <= cps * I
  BY <1>1, <1>3, <1>5, <1>7, SMT
<1> QED BY <1>8 DEF y, I

-----------------------------------------------------------------------------
(* max_dialogs and percentiles. *)

\* The number of dialogs the configuration allows is at least 1 and grows with
\* the rate (docs/sip-load-tester.md, properties 26 and 27).
THEOREM MaxDialogsMonotonic ==
  ASSUME NEW a \in Nat, NEW b \in Nat, a <= b, NEW d \in Nat, NEW s \in Nat
  PROVE  1 <= MaxDialogsFor(a, d, s) /\ MaxDialogsFor(a, d, s) <= MaxDialogsFor(b, d, s)
<1> DEFINE m == MarginTenths(s, d)
<1>1. m \in Nat
  BY DEF MarginTenths
<1>2. d * m \in Nat
  BY <1>1, SMT
<1>3. a * (d * m) <= b * (d * m)
  BY <1>2, SMT
<1>4. a * d * m = a * (d * m) /\ b * d * m = b * (d * m)
  BY <1>1, SMT
<1>5. a * d * m \in Nat /\ b * d * m \in Nat /\ a * d * m <= b * d * m
  BY <1>1, <1>2, <1>3, <1>4, SMT
<1> HIDE DEF m
<1>6. \A x, y \in Nat : x <= y => CeilDiv(x, 10) <= CeilDiv(y, 10)
  BY SMT DEF CeilDiv
<1>7. \A x \in Nat : CeilDiv(x, 10) \in Int
  BY SMT DEF CeilDiv
<1> QED BY <1>5, <1>6, <1>7, SMT DEF MaxDialogsFor, Larger, m

\* The interval between two rounds is too short for more calls than a batch.
LEMMA LagWithinBatch ==
  ASSUME NEW rate \in Nat \ {0}, NEW U \in Nat \ {0}, NEW lag \in Nat,
         MicrosPerSecond * lag <= U * IntervalMicros(rate)
  PROVE  rate * lag <= U * BatchSize(rate)
<1> DEFINE B == BatchSize(rate)
           I == IntervalMicros(rate)
           M == MicrosPerSecond
<1>1. B \in Nat /\ I \in Nat /\ rate * I <= B * M /\ M * lag <= U * I
  BY IntervalNotAbove
<1>a. M \in Nat \ {0}
  BY SMT DEF MicrosPerSecond
<1> HIDE DEF B, I, M
<1>2. PICK j \in Nat : U * I = M * lag + j
  <2>1. U * I \in Nat /\ M * lag \in Nat
    BY <1>1, <1>a, SMT
  <2> QED BY <1>1, <1>a, <2>1, SMT
<1>3. PICK k \in Nat : B * M = rate * I + k
  <2>1. rate * I \in Nat /\ B * M \in Nat
    BY <1>1, <1>a, SMT
  <2> QED BY <1>1, <1>a, <2>1, SMT
<1>4. U * (B * M) = U * (rate * I) + U * k /\ U * k \in Nat
  BY <1>1, <1>a, <1>3, SMT
<1>5. U * (rate * I) = rate * (U * I) /\ U * (B * M) = M * (U * B)
  BY <1>1, <1>a, SMT
<1>6. rate * (U * I) = M * (rate * lag) + rate * j /\ rate * j \in Nat
  BY <1>1, <1>a, <1>2, SMT
<1>7. rate * lag \in Nat /\ U * B \in Nat /\ M * (rate * lag) \in Nat
  BY <1>1, <1>a, SMT
<1>8. M * (rate * lag) < M * (U * B + 1)
  <2>1. M * (U * B + 1) = M * (U * B) + M
    BY <1>1, <1>a, <1>7, SMT
  <2> QED BY <1>1, <1>a, <1>4, <1>5, <1>6, <1>7, <2>1, SMT
<1>9. rate * lag < U * B + 1
  BY <1>1, <1>a, <1>7, <1>8, ProductOrder
<1> QED BY <1>7, <1>9, SMT DEF B

LEMMA MaxDialogsNatural ==
  ASSUME NEW a \in Nat, NEW d \in Nat, NEW s \in Nat
  PROVE  MaxDialogsFor(a, d, s) \in Nat
<1> DEFINE x == a * d * MarginTenths(s, d)
<1>1. x \in Nat
  BY SMT DEF MarginTenths
<1> HIDE DEF x
<1>2. CeilDiv(x, 10) \in Nat
  BY <1>1, SMT DEF CeilDiv
<1> QED BY <1>2 DEF MaxDialogsFor, Larger, x

\* The margin of max_dialogs leaves room for the batches at both ends of a window.
LEMMA MarginCoversBatches ==
  ASSUME NEW rate \in Nat \ {0}, NEW d \in Nat \ {0}, NEW s \in Nat
  PROVE  rate * d + 2 * BatchSize(rate) - 1 <= MaxDialogsFor(rate, d, s)
<1> DEFINE B == BatchSize(rate)
           m == MarginTenths(s, d)
           x == rate * d * m
<1>1. B \in Nat \ {0} /\ (B = 1 \/ (rate >= 100 /\ 100 * B <= rate + 50))
  BY SMT DEF BatchSize
<1>2. m \in Nat /\ m >= 12
  BY DEF MarginTenths
<1> HIDE DEF B, m
<1>3. rate * d \in Nat /\ rate <= rate * d
  <2>1. PICK j \in Nat : d = 1 + j
    BY d - 1 \in Nat, SMT
  <2>2. rate * d = rate + rate * j /\ rate * j \in Nat
    BY <2>1, SMT
  <2> QED BY <2>2, SMT
<1>4. x \in Nat /\ x >= 12 * (rate * d)
  <2>1. PICK j \in Nat : m = 12 + j
    BY <1>2, SMT
  <2>2. rate * d * (12 + j) = 12 * (rate * d) + rate * d * j /\ rate * d * j \in Nat
    BY SMT
  <2> QED BY <1>3, <2>1, <2>2, SMT
<1> HIDE DEF x
<1>5. CeilDiv(x, 10) \in Nat /\ x <= 10 * CeilDiv(x, 10)
  BY <1>4, CeilBounds, 10 \in Nat \ {0}
<1>6. rate * d + 2 * B - 1 <= CeilDiv(x, 10)
  BY <1>1, <1>3, <1>4, <1>5, SMT
<1>7. MaxDialogsFor(rate, d, s) = Larger(CeilDiv(x, 10), 1)
  BY DEF MaxDialogsFor, x, m
<1> QED BY <1>1, <1>3, <1>5, <1>6, <1>7, SMT DEF Larger, B

\* A sending loop that keeps its interval, at a rate max_dialogs was sized for, never has
\* more calls younger than call_duration than max_dialogs: the margin of a fifth covers
\* the batch it may be ahead by and the one it was behind by when the oldest of these
\* calls was started (config calculate_max_dialogs, orchestrator run_step).
THEOREM MaxDialogsSuffice ==
  ASSUME NEW cps \in Nat, NEW rate \in Nat \ {0}, rate <= cps,
         NEW d \in Nat \ {0}, NEW s \in Nat, NEW U \in Nat \ {0},
         NEW lag \in Nat, MicrosPerSecond * lag <= U * IntervalMicros(rate),
         NEW before \in Nat, NEW now \in Nat, before <= now, now <= before + d * U + lag,
         NEW sentBefore \in Nat, SustainedCalls(before, rate, U) <= sentBefore,
         NEW sentNow \in Nat, sentNow <= SustainedCalls(now, rate, U) + BatchSize(rate) - 1
  PROVE  sentNow - sentBefore <= MaxDialogsFor(cps, d, s)
<1> DEFINE B == BatchSize(rate)
<1>1. B \in Nat \ {0}
  BY SMT DEF BatchSize
<1>2. rate * lag <= U * B
  BY LagWithinBatch, SMT
<1> HIDE DEF B
<1>3. /\ rate * before \in Nat /\ rate * now \in Nat /\ rate * d + B \in Nat
      /\ rate * before <= rate * now
  <2>1. PICK j \in Nat : now = before + j
    BY now - before \in Nat, SMT
  <2>2. rate * now = rate * before + rate * j /\ rate * j \in Nat /\ rate * before \in Nat
    BY <2>1, SMT
  <2>3. rate * d \in Nat
    BY SMT
  <2> QED BY <1>1, <2>2, <2>3, SMT
<1>4. rate * now <= rate * before + U * (rate * d + B)
  <2>1. PICK j \in Nat : before + d * U + lag = now + j
    <3>1. d * U \in Nat
      BY SMT
    <3> QED BY <3>1, before + d * U + lag - now \in Nat, SMT
  <2>2. rate * (before + d * U + lag) = rate * before + U * (rate * d) + rate * lag
    BY SMT
  <2>3. rate * (now + j) = rate * now + rate * j /\ rate * j \in Nat
    BY <2>1, SMT
  <2>4. U * (rate * d + B) = U * (rate * d) + U * B
    BY <1>1, SMT
  <2>5. U * (rate * d) \in Nat /\ U * B \in Nat /\ rate * lag \in Nat
    BY <1>1, SMT
  <2> QED BY <1>2, <1>3, <2>1, <2>2, <2>3, <2>4, <2>5, SMT
<1>5. /\ SustainedCalls(now, rate, U) \in Nat /\ SustainedCalls(before, rate, U) \in Nat
      /\ SustainedCalls(now, rate, U) <= SustainedCalls(before, rate, U) + (rate * d + B)
  <2> DEFINE x == rate * before
             y == rate * now
             c == rate * d + B
  <2>1. x \in Nat /\ y \in Nat /\ c \in Nat /\ x <= y /\ y <= x + U * c
    BY <1>3, <1>4, SMT
  <2> HIDE DEF x, y, c
  <2>2. x \div U \in Nat /\ y \div U \in Nat /\ y \div U <= x \div U + c
    BY <2>1, QuotientGrows
  <2> QED BY <2>2, SMT DEF SustainedCalls, x, y, c
<1>6. rate * d + 2 * B - 1 <= MaxDialogsFor(rate, d, s)
  BY MarginCoversBatches, SMT DEF B
<1>7. MaxDialogsFor(rate, d, s) <= MaxDialogsFor(cps, d, s)
  BY MaxDialogsMonotonic, SMT
<1>8. MaxDialogsFor(cps, d, s) \in Nat /\ MaxDialogsFor(rate, d, s) \in Nat
  BY MaxDialogsNatural
<1>9. rate * d \in Nat
  BY SMT
<1> QED BY <1>1, <1>5, <1>6, <1>7, <1>8, <1>9, SMT DEF B

\* A percentile is the value at a valid rank, and a higher percentile is at no
\* lower rank: p50 <= p90 <= p95 <= p99 in every snapshot.
THEOREM PercentilesOrdered ==
  ASSUME NEW len \in Nat \ {0}, NEW p \in Nat, NEW q \in Nat, p <= q
  PROVE  /\ PercentileRank(len, p) \in 1..len
         /\ PercentileRank(len, p) <= PercentileRank(len, q)
<1>1. p * len \in Nat /\ q * len \in Nat /\ p * len <= q * len
  BY SMT
<1>2. \A x, y \in Nat : x <= y => CeilDiv(x, 100) <= CeilDiv(y, 100)
  BY SMT DEF CeilDiv
<1>3. \A x \in Nat : CeilDiv(x, 100) \in Int
  BY SMT DEF CeilDiv
<1> QED BY <1>1, <1>2, <1>3, SMT DEF PercentileRank, Larger, Smaller

\* percentile_at (stats) takes the nearest rank: the least number of values of which at
\* least pct out of a hundred are at or below it.
THEOREM PercentileIsNearestRank ==
  ASSUME NEW len \in Nat \ {0}, NEW pct \in 1..100
  PROVE  LET r == PercentileRank(len, pct)
         IN  /\ r \in 1..len /\ 100 * r >= pct * len
             /\ \A k \in 1..(r - 1) : 100 * k < pct * len
<1> DEFINE x == pct * len
           r == CeilDiv(x, 100)
<1>1. x \in Nat /\ 1 <= x /\ x <= 100 * len
  <2>1. PICK j \in Nat : 100 = pct + j
    BY SMT
  <2>2. 100 * len = x + j * len /\ j * len \in Nat /\ x \in Nat
    BY <2>1, SMT
  <2>3. PICK k \in Nat : pct = 1 + k
    BY pct - 1 \in Nat, SMT
  <2>4. x = len + k * len /\ k * len \in Nat
    BY <2>3, SMT
  <2> QED BY <2>2, <2>4, SMT
<1> HIDE DEF x
<1>2. r \in 1..len /\ x <= 100 * r /\ 100 * r < x + 100
  BY <1>1, SMT DEF CeilDiv
<1> HIDE DEF r
<1>3. PercentileRank(len, pct) = r
  BY <1>2, SMT DEF PercentileRank, Larger, Smaller, r, x
<1> QED BY <1>1, <1>2, <1>3, SMT DEF x
=============================================================================
