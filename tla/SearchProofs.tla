---------------------------- MODULE SearchProofs ----------------------------
(***************************************************************************)
(* Theorems about Search, for every configuration that Config::validate    *)
(* accepts: what the searches report, and what a step is judged by.        *)
(***************************************************************************)
EXTENDS Search, TLAPS

\* The gauge stays in its range.
LEMMA LessInRange ==
  ASSUME TypeOK, NEW n \in Int
  PROVE  Less(n) \in 0..(Wrap - 1)
BY SearchAssumption, SMT DEF Less, TypeOK

\* Within the gauge, a decrement is a subtraction.
LEMMA LessIsMinus ==
  ASSUME TypeOK, NEW n \in Nat, n <= active
  PROVE  Less(n) = active - n
BY SearchAssumption, SMT DEF Less, TypeOK

\* Below the wrap, an increment is an addition.
LEMMA MoreIsPlus ==
  ASSUME TypeOK, active + 1 < Wrap
  PROVE  (active + 1) % Wrap = active + 1
BY SearchAssumption, SMT DEF TypeOK

LEMMA MoreInRange ==
  ASSUME TypeOK
  PROVE  (active + 1) % Wrap \in 0..(Wrap - 1)
BY SearchAssumption, SMT DEF TypeOK

\* The middle of an interval lies in it.
LEMMA MiddleBetween ==
  ASSUME TypeOK, low <= high, NEW m \in Middle
  PROVE  m \in Nat /\ low <= m /\ m <= high
BY SearchAssumption, SMT DEF TypeOK, Middle

\* The initial values have their types, and every step keeps them.
LEMMA TypeHolds == Init => TypeOK
<1> SUFFICES ASSUME Init PROVE TypeOK
  OBVIOUS
<1>1. active \in 0..(Wrap - 1) /\ offered \in 0..CallsPerStep /\ remote \in 0..MaxRemote
  BY SearchAssumption, SMT DEF SearchAssumption, Init
<1>2. low \in Nat /\ high \in Nat /\ snapBefore \in Counts /\ snapAfter \in Counts
  BY SearchAssumption DEF SearchAssumption, Init, Counts
<1> QED BY <1>1, <1>2 DEF Init, TypeOK

LEMMA TypePreserved ==
  ASSUME TypeOK, [Next]_vars
  PROVE  TypeOK'
<1> USE SearchAssumption DEF SearchAssumption
<1> \A n \in Int : Less(n) \in 0..(Wrap - 1)
  BY LessInRange
<1> (active + 1) % Wrap \in 0..(Wrap - 1)
  BY MoreInRange
<1>1. CASE LookUp
  BY <1>1 DEF TypeOK, LookUp, searchVars, stepVars, statVars, Counts
<1>2. CASE RecordSuccess
  BY <1>2 DEF TypeOK, RecordSuccess, searchVars, stepVars, Counts
<1>3. CASE BeginFailure
  BY <1>3 DEF TypeOK, BeginFailure, searchVars, stepVars, Counts
<1>4. CASE EndFailure
  BY <1>4 DEF TypeOK, EndFailure, searchVars, stepVars, Counts
<1>5. CASE FarInvite
  BY <1>5 DEF TypeOK, FarInvite, searchVars, stepVars, statVars, Counts
<1>6. CASE FarBye
  <2>1. active' \in 0..(Wrap - 1) /\ remote' \in 0..MaxRemote
    BY <1>6 DEF TypeOK, FarBye
  <2>2. disturbed' \in BOOLEAN
    BY <1>6 DEF TypeOK, FarBye
  <2> QED BY <1>6, <2>1, <2>2 DEF TypeOK, FarBye, searchVars, stepVars, statVars, Counts
<1>7. CASE Signal
  BY <1>7 DEF TypeOK, Signal, searchVars, stepVars, callVars, statVars, Counts
<1>8. CASE NextStep
  <2>1. rate' \in Nat
    BY <1>8, SMT DEF TypeOK, NextStep, Middle
  <2> QED BY <1>8, <2>1 DEF TypeOK, NextStep, searchVars, callVars, statVars, Counts
<1>9. CASE Finish
  BY <1>9 DEF TypeOK, Finish, searchVars, stepVars, callVars, statVars, Counts
<1>10. CASE LoadBefore
  BY <1>10 DEF TypeOK, LoadBefore, searchVars, callVars, statVars, Counts
<1>11. CASE StartCall
  BY <1>11 DEF TypeOK, StartCall, searchVars, statVars, Counts
<1>12. CASE RefuseCall
  BY <1>12 DEF TypeOK, RefuseCall, searchVars, callVars, Counts
<1>13. CASE StopSending
  BY <1>13 DEF TypeOK, StopSending, searchVars, stepVars, callVars, statVars, Counts
<1>14. CASE Drained
  BY <1>14 DEF TypeOK, Drained, searchVars, stepVars, callVars, statVars, Counts
<1>15. CASE \E h \in 0..handled, r \in 0..recording : CleanUp(h, r)
  BY <1>15 DEF TypeOK, CleanUp, searchVars, stepVars, Counts
<1>16. CASE LoadAfterTotal
  BY <1>16 DEF TypeOK, LoadAfterTotal, searchVars, callVars, statVars, Counts
<1>17. CASE LoadAfterFailed
  BY <1>17 DEF TypeOK, LoadAfterFailed, searchVars, callVars, statVars, Counts
<1>18. CASE StepUp
  BY <1>18 DEF TypeOK, StepUp, Note, Least, stepVars, callVars, statVars, Counts
<1>19. CASE Expand
  BY <1>19 DEF TypeOK, Expand, Note, stepVars, callVars, statVars, Counts
<1>20. CASE Halve
  BY <1>20 DEF TypeOK, Halve, Note, stepVars, callVars, statVars, Counts
<1>21. CASE UNCHANGED vars
  BY <1>21 DEF TypeOK, vars, searchVars, stepVars, callVars, statVars, Counts
<1> QED
  BY <1>1, <1>2, <1>3, <1>4, <1>5, <1>6, <1>7, <1>8, <1>9, <1>10, <1>11, <1>12, <1>13,
     <1>14, <1>15, <1>16, <1>17, <1>18, <1>19, <1>20, <1>21
     DEF Next, Orchestrator, RunStep, Handlers

(***************************************************************************)
(* What low and high stand for.                                            *)
(***************************************************************************)
AtStep == pc \in {"before", "sending", "draining", "after", "after2", "judge"}

\* The step-up: high is at most one step above low, the first rate, or beyond.
OneStepUp ==
    /\ low < high /\ high <= MaxCps
    /\ (low = 0 /\ high = InitialCps) \/ high <= low + StepSize

StepUpInv ==
    phase = "stepup" =>
        /\ pc # "done" => OneStepUp
        /\ pc = "done" => shutdown \/ low = MaxCps \/ (OneStepUp /\ high \in refused)

ExpandInv == phase = "expand" => low <= high /\ (pc = "done" => shutdown)

BisectInv ==
    phase = "bisect" =>
        /\ low <= high
        /\ low > Ceiling \/ high \in refused
        /\ AtStep => low <= rate /\ rate <= high
        /\ pc = "done" => shutdown \/ ~Wide

SearchInv ==
    /\ low \in passed \cup {0}
    /\ AtStep /\ phase # "bisect" => rate = high
    /\ StepUpInv /\ ExpandInv /\ BisectInv

LEMMA SearchInvHolds == Init => SearchInv
BY SearchAssumption DEF SearchAssumption, Init, SearchInv, StepUpInv, OneStepUp, ExpandInv,
                        BisectInv, AtStep

\* Only the loops of the search change low, high and what was tried.
LEMMA SearchInvStutters ==
  ASSUME SearchInv, UNCHANGED searchVars, UNCHANGED rate,
         pc' = pc \/ (AtStep /\ AtStep'),
         shutdown => shutdown'
  PROVE  SearchInv'
BY DEF SearchInv, StepUpInv, OneStepUp, ExpandInv, BisectInv, AtStep, Wide, searchVars

LEMMA SearchInvPreserved ==
  ASSUME TypeOK, SearchInv, [Next]_vars
  PROVE  SearchInv'
<1> USE SearchAssumption DEF SearchAssumption
<1>1. CASE NextStep
  <2>1. /\ pc = "top" /\ AtStep' /\ pc' # "done" /\ UNCHANGED searchVars
    BY <1>1 DEF NextStep, AtStep
  <2>2. CASE phase = "bisect"
    <3>1. low <= rate' /\ rate' <= high
      BY <1>1, <2>2, MiddleBetween DEF NextStep, SearchInv, BisectInv
    <3> QED BY <2>1, <2>2, <3>1 DEF SearchInv, StepUpInv, ExpandInv, BisectInv, searchVars
  <2>3. CASE phase # "bisect"
    <3>1. rate' = high
      BY <1>1, <2>3 DEF NextStep
    <3> QED BY <2>1, <2>3, <3>1
            DEF SearchInv, StepUpInv, OneStepUp, ExpandInv, BisectInv, searchVars
  <2> QED BY <2>2, <2>3
<1>2. CASE Finish
  BY <1>2 DEF Finish, SearchInv, StepUpInv, ExpandInv, BisectInv, AtStep, Wide, searchVars
<1>3. CASE StepUp
  <2>1. /\ phase = "stepup" /\ phase' = "stepup" /\ AtStep /\ rate = high /\ OneStepUp
        /\ pc' \in {"top", "done"}
    BY <1>3 DEF StepUp, AtStep, SearchInv, StepUpInv
  <2>2. CASE Passes /\ high < MaxCps
    <3>1. low' = high /\ high' = Least(high + StepSize, MaxCps) /\ high \in passed' /\ pc' = "top"
      BY <1>3, <2>1, <2>2 DEF StepUp, Note
    <3>2. high < high' /\ high' <= MaxCps /\ high' <= high + StepSize
      BY <2>2, <3>1, SMT DEF Least, TypeOK
    <3> QED BY <2>1, <3>1, <3>2
            DEF SearchInv, StepUpInv, OneStepUp, ExpandInv, BisectInv, AtStep
  <2>3. CASE Passes /\ ~(high < MaxCps)
    <3>1. low' = high /\ high \in passed' /\ pc' = "done"
      BY <1>3, <2>1, <2>3 DEF StepUp, Note
    <3>2. low' = MaxCps
      BY <2>1, <2>3, <3>1, SMT DEF OneStepUp, TypeOK
    <3> QED BY <2>1, <3>1, <3>2 DEF SearchInv, StepUpInv, ExpandInv, BisectInv, AtStep
  <2>4. CASE ~Passes
    <3>1. /\ low' = low /\ high' = high /\ passed' = passed /\ high \in refused' /\ pc' = "done"
      BY <1>3, <2>1, <2>4 DEF StepUp, Note
    <3> QED BY <2>1, <3>1
            DEF SearchInv, StepUpInv, OneStepUp, ExpandInv, BisectInv, AtStep
  <2> QED BY <2>2, <2>3, <2>4
<1>4. CASE Expand
  <2>1. /\ phase = "expand" /\ AtStep /\ rate = high /\ low <= high /\ pc' = "top"
    BY <1>4 DEF Expand, AtStep, SearchInv, ExpandInv
  <2>2. CASE Passes /\ high <= Ceiling
    <3>1. low' = high /\ high' = 2 * high /\ high \in passed' /\ phase' = phase
      BY <1>4, <2>1, <2>2 DEF Expand, Note
    <3>2. low' <= high'
      BY <3>1, SMT DEF TypeOK
    <3> QED BY <2>1, <3>1, <3>2 DEF SearchInv, StepUpInv, ExpandInv, BisectInv, AtStep
  <2>3. CASE Passes /\ ~(high <= Ceiling)
    <3>1. low' = high /\ high' = high /\ high \in passed' /\ phase' = "bisect"
      BY <1>4, <2>1, <2>3 DEF Expand, Note
    <3>2. low' <= high' /\ low' > Ceiling
      BY <2>3, <3>1, SMT DEF TypeOK
    <3> QED BY <2>1, <3>1, <3>2 DEF SearchInv, StepUpInv, ExpandInv, BisectInv, AtStep
  <2>4. CASE ~Passes
    <3>1. /\ low' = low /\ high' = high /\ passed' = passed /\ high \in refused'
          /\ phase' = "bisect"
      BY <1>4, <2>1, <2>4 DEF Expand, Note
    <3> QED BY <2>1, <3>1 DEF SearchInv, StepUpInv, ExpandInv, BisectInv, AtStep
  <2> QED BY <2>2, <2>3, <2>4
<1>5. CASE Halve
  <2>1. /\ phase = "bisect" /\ phase' = "bisect" /\ AtStep /\ pc' = "top"
        /\ low <= rate /\ rate <= high /\ (low > Ceiling \/ high \in refused)
    BY <1>5 DEF Halve, AtStep, SearchInv, BisectInv
  <2>2. CASE Passes
    <3>1. /\ low' = rate /\ high' = high /\ rate \in passed' /\ refused' = refused
      BY <1>5, <2>2 DEF Halve, Note
    <3>2. low' > Ceiling \/ high \in refused
      BY <2>1, <3>1, SMT DEF TypeOK
    <3> QED BY <2>1, <3>1, <3>2 DEF SearchInv, StepUpInv, ExpandInv, BisectInv, AtStep
  <2>3. CASE ~Passes
    <3>1. /\ low' = low /\ high' = rate /\ passed' = passed /\ rate \in refused'
      BY <1>5, <2>3 DEF Halve, Note
    <3> QED BY <2>1, <3>1 DEF SearchInv, StepUpInv, ExpandInv, BisectInv, AtStep
  <2> QED BY <2>2, <2>3
<1>6. CASE RunStep \/ Handlers \/ Signal \/ UNCHANGED vars
  <2>1. UNCHANGED searchVars /\ UNCHANGED rate /\ (pc' = pc \/ (AtStep /\ AtStep'))
        /\ (shutdown => shutdown')
    BY <1>6 DEF RunStep, LoadBefore, StartCall, RefuseCall, StopSending, Drained, CleanUp,
                LoadAfterTotal, LoadAfterFailed, Handlers, LookUp, RecordSuccess, BeginFailure,
                EndFailure, FarInvite, FarBye, Signal, AtStep, vars, stepVars
  <2> QED BY <2>1, SearchInvStutters
<1> QED BY <1>1, <1>2, <1>3, <1>4, <1>5, <1>6 DEF Next, Orchestrator

(***************************************************************************)
(* What was measured, seen from the interval that is left.                 *)
(***************************************************************************)

\* The middle of an interval that the loop still halves is neither of its ends.
LEMMA MiddleInside ==
  ASSUME TypeOK, Wide, NEW m \in Middle
  PROVE  m \in Nat /\ low < m /\ m < high
BY SearchAssumption, SMT DEF SearchAssumption, TypeOK, Middle, Wide

\* Nothing that passed is above low, nothing that failed below high, and the rate
\* being measured is new.
EvidenceInv ==
    /\ \A p \in passed : p <= low
    /\ \A r \in refused : high <= r
    /\ refused # {} => low < high
    /\ phase # "bisect" /\ pc # "done" => refused = {} /\ low < high
    /\ phase = "bisect" /\ AtStep => low < rate /\ rate < high

LEMMA EvidenceHolds == Init => EvidenceInv
BY SearchAssumption, SMT DEF SearchAssumption, Init, EvidenceInv, AtStep

LEMMA EvidencePreserved ==
  ASSUME TypeOK, SearchInv, EvidenceInv, [Next]_vars
  PROVE  EvidenceInv'
<1> USE SearchAssumption DEF SearchAssumption
<1>n. low \in Nat /\ high \in Nat /\ rate \in Nat /\ passed \subseteq Nat /\ refused \subseteq Nat
  BY DEF TypeOK
<1>1. CASE NextStep
  <2>1. /\ pc = "top" /\ pc' = "before" /\ UNCHANGED searchVars
    BY <1>1 DEF NextStep
  <2>2. phase = "bisect" => low < rate' /\ rate' < high
    BY <1>1, MiddleInside DEF NextStep
  <2> QED BY <2>1, <2>2 DEF EvidenceInv, AtStep, searchVars
<1>2. CASE Finish
  BY <1>2 DEF Finish, EvidenceInv, AtStep, searchVars
<1>3. CASE StepUp
  <2>1. /\ phase = "stepup" /\ phase' = "stepup" /\ pc = "judge" /\ rate = high
        /\ refused = {} /\ low < high
    BY <1>3 DEF StepUp, SearchInv, AtStep, EvidenceInv
  <2>2. CASE Passes
    <3>1. low' = high /\ passed' = passed \cup {high} /\ refused' = {}
      BY <1>3, <2>1, <2>2 DEF StepUp, Note
    <3>2. pc' = "done" \/ low' < high'
      BY <1>3, <1>n, <3>1, SMT DEF StepUp, Least
    <3>3. \A p \in passed' : p <= low'
      BY <1>n, <2>1, <3>1, SMT DEF EvidenceInv
    <3> QED BY <2>1, <3>1, <3>2, <3>3 DEF EvidenceInv
  <2>3. CASE ~Passes
    <3>1. /\ low' = low /\ high' = high /\ passed' = passed /\ refused' = {high} /\ pc' = "done"
      BY <1>3, <2>1, <2>3 DEF StepUp, Note
    <3> QED BY <1>n, <2>1, <3>1 DEF EvidenceInv
  <2> QED BY <2>2, <2>3
<1>4. CASE Expand
  <2>1. /\ phase = "expand" /\ pc = "judge" /\ pc' = "top" /\ rate = high
        /\ refused = {} /\ low < high
    BY <1>4 DEF Expand, SearchInv, AtStep, EvidenceInv
  <2>2. CASE Passes
    <3>1. /\ low' = high /\ passed' = passed \cup {high} /\ refused' = {}
          /\ phase' = "bisect" \/ high' = 2 * high
      BY <1>4, <2>1, <2>2 DEF Expand, Note
    <3>2. phase' = "bisect" \/ low' < high'
      BY <1>n, <2>1, <3>1, SMT
    <3>3. \A p \in passed' : p <= low'
      BY <1>n, <2>1, <3>1, SMT DEF EvidenceInv
    <3> QED BY <2>1, <3>1, <3>2, <3>3 DEF EvidenceInv, AtStep
  <2>3. CASE ~Passes
    <3>1. /\ low' = low /\ high' = high /\ passed' = passed /\ refused' = {high}
          /\ phase' = "bisect"
      BY <1>4, <2>1, <2>3 DEF Expand, Note
    <3> QED BY <1>n, <2>1, <3>1 DEF EvidenceInv, AtStep
  <2> QED BY <2>2, <2>3
<1>5. CASE Halve
  <2>1. /\ phase = "bisect" /\ phase' = "bisect" /\ pc' = "top" /\ low < rate /\ rate < high
    BY <1>5 DEF Halve, AtStep, EvidenceInv
  <2>2. CASE Passes
    <3>1. /\ low' = rate /\ high' = high /\ passed' = passed \cup {rate} /\ refused' = refused
      BY <1>5, <2>2 DEF Halve, Note
    <3>2. \A p \in passed' : p <= low'
      BY <1>n, <2>1, <3>1, SMT DEF EvidenceInv
    <3> QED BY <2>1, <3>1, <3>2 DEF EvidenceInv, AtStep
  <2>3. CASE ~Passes
    <3>1. /\ low' = low /\ high' = rate /\ passed' = passed /\ refused' = refused \cup {rate}
      BY <1>5, <2>3 DEF Halve, Note
    <3>2. \A r \in refused' : high' <= r
      BY <1>n, <2>1, <3>1, SMT DEF EvidenceInv
    <3> QED BY <2>1, <3>1, <3>2 DEF EvidenceInv, AtStep
  <2> QED BY <2>2, <2>3
<1>6. CASE RunStep \/ Handlers \/ Signal \/ UNCHANGED vars
  <2>1. UNCHANGED searchVars /\ UNCHANGED rate /\ (pc' = pc \/ (AtStep /\ AtStep' /\ pc # "done"))
    BY <1>6 DEF RunStep, LoadBefore, StartCall, RefuseCall, StopSending, Drained, CleanUp,
                LoadAfterTotal, LoadAfterFailed, Handlers, LookUp, RecordSuccess, BeginFailure,
                EndFailure, FarInvite, FarBye, Signal, AtStep, vars, stepVars
  <2> QED BY <2>1 DEF EvidenceInv, AtStep, searchVars
<1> QED BY <1>1, <1>2, <1>3, <1>4, <1>5, <1>6 DEF Next, Orchestrator

\* A verdict changes the phase from doubling to halving, or shortens the distance.
LEMMA VerdictsConverge ==
  ASSUME TypeOK, SearchInv, EvidenceInv, [Next]_vars
  PROVE  /\ phase' # phase => phase = "expand" /\ phase' = "bisect"
         /\ pc = "judge" /\ pc' = "top" /\ phase' = phase =>
              Distance > 0 /\ Distance' < Distance
<1> USE SearchAssumption DEF SearchAssumption
<1>n. low \in Nat /\ high \in Nat /\ rate \in Nat
  BY DEF TypeOK
<1>1. CASE StepUp
  <2> SUFFICES ASSUME pc' = "top"
               PROVE  phase' = phase /\ Distance > 0 /\ Distance' < Distance
    BY <1>1 DEF StepUp
  <2>1. phase = "stepup" /\ phase' = "stepup" /\ high < MaxCps /\ high' = Least(high + StepSize, MaxCps)
    BY <1>1 DEF StepUp
  <2>2. MaxCps - high > 0 /\ MaxCps - high' < MaxCps - high
    BY <1>n, <2>1, SMT DEF Least
  <2> QED BY <2>1, <2>2 DEF Distance
<1>2. CASE Expand
  <2> SUFFICES ASSUME phase' = phase
               PROVE  Distance > 0 /\ Distance' < Distance
    BY <1>2 DEF Expand
  <2>1. phase = "expand" /\ high <= Ceiling /\ high' = 2 * high /\ low < high
    BY <1>2 DEF Expand, EvidenceInv
  <2>2. Ceiling + 1 - high > 0 /\ Ceiling + 1 - high' < Ceiling + 1 - high
    BY <1>n, <2>1, SMT
  <2> QED BY <2>1, <2>2 DEF Distance
<1>3. CASE Halve
  <2>1. phase = "bisect" /\ phase' = "bisect" /\ low < rate /\ rate < high
    BY <1>3 DEF Halve, EvidenceInv, AtStep
  <2>2. (low' = rate /\ high' = high) \/ (low' = low /\ high' = rate)
    BY <1>3 DEF Halve
  <2>3. high - low > 0 /\ high' - low' < high - low
    BY <1>n, <2>1, <2>2, SMT
  <2> QED BY <2>1, <2>3 DEF Distance
<1>4. CASE NextStep \/ Finish \/ RunStep \/ Handlers \/ Signal \/ UNCHANGED vars
  <2>1. UNCHANGED phase /\ ~(pc = "judge" /\ pc' = "top")
    BY <1>4 DEF RunStep, LoadBefore, StartCall, RefuseCall, StopSending, Drained, CleanUp,
                LoadAfterTotal, LoadAfterFailed, Handlers, LookUp, RecordSuccess, BeginFailure,
                EndFailure, FarInvite, FarBye, Signal, NextStep, Finish, vars, searchVars
  <2> QED BY <2>1
<1> QED BY <1>1, <1>2, <1>3, <1>4 DEF Next, Orchestrator

(***************************************************************************)
(* What the counters say while the gauge is exact.                         *)
(***************************************************************************)
Open == waiting + handled + recording

\* The gauge counts what is open at both ends, and nobody records late.
GaugeExact ==
    /\ stale = 0 /\ tardy = 0
    /\ active = Open + remote
    /\ Open <= IF pc \in {"sending", "draining"} THEN offered ELSE 0

\* The counters have grown by the outcomes of the step and no others.
CountersExact ==
    /\ pc = "before" => snapBefore.total = total /\ offered = 0
    /\ pc \in {"sending", "draining", "after", "after2"} =>
          /\ total - snapBefore.total + waiting + handled >= offered
          /\ failed - snapBefore.failed + recording <= total - snapBefore.total
    /\ pc = "after2" => snapAfter.total = total
    /\ pc = "judge" => StepTotal >= offered /\ StepFailed <= StepTotal

CountInv == ~disturbed => GaugeExact /\ CountersExact

LEMMA CountInvHolds == Init => CountInv
BY SMT DEF Init, CountInv, GaugeExact, CountersExact, Open

LEMMA CountInvPreserved ==
  ASSUME TypeOK, CountInv, [Next]_vars
  PROVE  CountInv'
<1> USE SearchAssumption DEF SearchAssumption
<1> SUFFICES ASSUME ~disturbed' PROVE GaugeExact' /\ CountersExact'
  BY DEF CountInv
<1>0. ~disturbed
  BY DEF Next, Orchestrator, RunStep, Handlers, NextStep, Finish, LoadBefore, StartCall,
         RefuseCall, StopSending, Drained, CleanUp, LoadAfterTotal, LoadAfterFailed, StepUp,
         Expand, Halve, LookUp, RecordSuccess, BeginFailure, EndFailure, FarInvite, FarBye,
         Signal, vars, TypeOK
<1>a. GaugeExact /\ CountersExact
  BY <1>0 DEF CountInv
<1>b. /\ waiting \in Nat /\ handled \in Nat /\ recording \in Nat /\ remote \in 0..MaxRemote
      /\ total \in Nat /\ failed \in Nat /\ offered \in 0..CallsPerStep /\ active \in Nat
      /\ snapBefore.total \in Nat /\ snapBefore.failed \in Nat
      /\ snapAfter.total \in Nat /\ snapAfter.failed \in Nat
      /\ snapBefore = [total |-> snapBefore.total, failed |-> snapBefore.failed]
      /\ snapAfter = [total |-> snapAfter.total, failed |-> snapAfter.failed]
  BY DEF TypeOK, Counts
<1>1. CASE LookUp
  BY <1>1, <1>a, <1>b, SMT DEF LookUp, GaugeExact, CountersExact, Open, searchVars, stepVars,
     statVars, StepTotal, StepFailed
<1>2. CASE RecordSuccess
  <2>1. handled > 0 /\ handled' = handled - 1
    BY <1>2, <1>a DEF RecordSuccess, GaugeExact
  <2>2. active' = active - 1
    BY <1>2, <1>a, <1>b, <2>1, LessIsMinus, SMT DEF RecordSuccess, GaugeExact, Open
  <2> QED BY <1>2, <1>a, <1>b, <2>1, <2>2, SMT DEF RecordSuccess, GaugeExact, CountersExact, Open,
          searchVars, stepVars, StepTotal, StepFailed
<1>3. CASE BeginFailure
  BY <1>3, <1>a, <1>b, SMT DEF BeginFailure, GaugeExact, CountersExact, Open, searchVars, stepVars,
     StepTotal, StepFailed
<1>4. CASE EndFailure
  <2>1. recording > 0 /\ recording' = recording - 1 /\ UNCHANGED tardy
    BY <1>4, <1>a DEF EndFailure, GaugeExact
  <2>2. \/ active' = active - 1 /\ UNCHANGED waiting
        \/ UNCHANGED active /\ waiting' = waiting + 1
    BY <1>4, <1>a, <1>b, <2>1, LessIsMinus, SMT DEF EndFailure, GaugeExact, Open
  <2> QED BY <1>4, <1>a, <1>b, <2>1, <2>2, SMT DEF EndFailure, GaugeExact, CountersExact, Open,
          searchVars, stepVars, StepTotal, StepFailed
<1>5. CASE FarInvite
  <2>1. active + 1 < Wrap
    BY <1>5, <1>a, <1>b, SMT DEF FarInvite, GaugeExact, Open
  <2>2. active' = active + 1
    BY <1>5, <2>1, MoreIsPlus DEF FarInvite
  <2> QED BY <1>5, <1>a, <1>b, <2>2, SMT DEF FarInvite, GaugeExact, CountersExact, Open,
          searchVars, stepVars, statVars, StepTotal, StepFailed
<1>6. CASE FarBye
  <2>1. remote > 0 /\ remote' = remote - 1
    BY <1>6 DEF FarBye
  <2>2. active' = active - 1
    BY <1>6, <1>a, <1>b, <2>1, LessIsMinus, SMT DEF FarBye, GaugeExact, Open
  <2> QED BY <1>6, <1>a, <1>b, <2>1, <2>2, SMT DEF FarBye, GaugeExact, CountersExact, Open,
          searchVars, stepVars, statVars, StepTotal, StepFailed
<1>7. CASE Signal \/ UNCHANGED vars
  BY <1>7, <1>a DEF Signal, vars, GaugeExact, CountersExact, Open, searchVars, stepVars, callVars,
     statVars, StepTotal, StepFailed
<1>8. CASE NextStep
  BY <1>8, <1>a, <1>b DEF NextStep, GaugeExact, CountersExact, Open, searchVars, callVars, statVars
<1>9. CASE Finish \/ StepUp \/ Expand \/ Halve
  BY <1>9, <1>a, <1>b DEF Finish, StepUp, Expand, Halve, GaugeExact, CountersExact, Open,
     stepVars, callVars, statVars
<1>10. CASE LoadBefore
  BY <1>10, <1>a, <1>b, SMT DEF LoadBefore, GaugeExact, CountersExact, Open, callVars, statVars
<1>11. CASE StartCall
  <2>1. active + 1 < Wrap
    BY <1>11, <1>a, <1>b, SMT DEF StartCall, GaugeExact, Open
  <2>2. active' = active + 1
    BY <1>11, <2>1, MoreIsPlus DEF StartCall
  <2> QED BY <1>11, <1>a, <1>b, <2>2, SMT DEF StartCall, GaugeExact, CountersExact, Open, statVars
<1>12. CASE RefuseCall
  BY <1>12, <1>a, <1>b, SMT DEF RefuseCall, GaugeExact, CountersExact, Open, callVars
<1>13. CASE StopSending
  BY <1>13, <1>a, <1>b, SMT DEF StopSending, GaugeExact, CountersExact, Open, stepVars, callVars, statVars
<1>14. CASE Drained
  BY <1>14, <1>a, <1>b, SMT DEF Drained, Idle, GaugeExact, CountersExact, Open, stepVars, callVars, statVars
<1>15. CASE LoadAfterTotal
  BY <1>15, <1>a, <1>b, SMT DEF LoadAfterTotal, GaugeExact, CountersExact, Open, callVars, statVars
<1>16. CASE LoadAfterFailed
  BY <1>16, <1>a, <1>b, SMT DEF LoadAfterFailed, GaugeExact, CountersExact, Open, callVars, statVars,
     StepTotal, StepFailed
<1>17. ~ \E h \in 0..handled, r \in 0..recording : CleanUp(h, r)
  BY DEF CleanUp
<1> QED
  BY <1>1, <1>2, <1>3, <1>4, <1>5, <1>6, <1>7, <1>8, <1>9, <1>10, <1>11, <1>12, <1>13,
     <1>14, <1>15, <1>16, <1>17 DEF Next, Orchestrator, RunStep, Handlers

-----------------------------------------------------------------------------
(* The theorems. *)

Inv == TypeOK /\ SearchInv /\ EvidenceInv /\ CountInv

LEMMA InvHolds == Spec => []Inv
<1>1. Init => Inv
  BY TypeHolds, SearchInvHolds, EvidenceHolds, CountInvHolds DEF Inv
<1>2. Inv /\ [Next]_vars => Inv'
  BY TypePreserved, SearchInvPreserved, EvidencePreserved, CountInvPreserved DEF Inv
<1> QED BY <1>1, <1>2, PTL DEF Spec

\* Every variable keeps its type, whatever the handlers and signals do.
THEOREM SearchTypeCorrect == Spec => []TypeOK
<1>1. Inv => TypeOK
  BY DEF Inv
<1> QED BY <1>1, InvHolds, PTL

\* The counts by which run_step_up and run_binary_search judge a step are
\* consistent as long as no cleanup and no uncounted call disturbs the gauge.
THEOREM StepsConsistent == Spec => []StepConsistent
<1>1. Inv => StepConsistent
  BY DEF Inv, CountInv, CountersExact, StepConsistent
<1> QED BY <1>1, InvHolds, PTL

\* Both searches report 0 or a rate at which a step passed.
THEOREM ResultPassed == Spec => []ReportedPassed
<1>1. Inv => ReportedPassed
  BY DEF Inv, SearchInv, ReportedPassed
<1> QED BY <1>1, InvHolds, PTL

\* Unless a signal cut it short, a search has bracketed the limit when it ends.
THEOREM ResultBracketed == Spec => []Bracketed
<1>1. Inv => Bracketed
  <2> SUFFICES ASSUME Inv, pc = "done", ~shutdown PROVE Bracketed
    BY DEF Bracketed
  <2> USE SearchAssumption DEF SearchAssumption
  <2>1. CASE phase = "stepup"
    <3>1. low = MaxCps \/ (OneStepUp /\ high \in refused)
      BY <2>1 DEF Inv, SearchInv, StepUpInv
    <3> QED BY <2>1, <3>1 DEF Bracketed, OneStepUp
  <2>2. CASE phase = "bisect"
    <3>1. /\ low <= high /\ ~Wide
          /\ low > Ceiling \/ high \in refused
      BY <2>2 DEF Inv, SearchInv, BisectInv
    <3>2. high <= low + Convergence
      BY <3>1, SMT DEF Wide, Inv, TypeOK
    <3> QED BY <2>2, <3>1, <3>2 DEF Bracketed
  <2>3. phase # "expand"
    BY DEF Inv, SearchInv, ExpandInv
  <2> QED BY <2>1, <2>2, <2>3 DEF Inv, TypeOK
<1> QED BY <1>1, InvHolds, PTL

\* Whatever the calls of the steps do, no rate that passed is at or above one that failed.
THEOREM EvidenceSeparated == Spec => []Separated
<1>1. Inv => Separated
  <2> SUFFICES ASSUME Inv, NEW p \in passed, NEW r \in refused PROVE p < r
    BY DEF Separated
  <2>1. p <= low /\ high <= r /\ low < high
    BY DEF Inv, EvidenceInv
  <2> QED BY <2>1, SMT DEF Inv, TypeOK
<1> QED BY <1>1, InvHolds, PTL

\* The variant of the three loops: whatever the error rates, each verdict ends its
\* loop or comes closer to the end of it.
THEOREM SearchConverges == Spec => Converges
<1>1. Inv /\ [Next]_vars =>
        [/\ phase' # phase => phase = "expand" /\ phase' = "bisect"
         /\ pc = "judge" /\ pc' = "top" /\ phase' = phase =>
              Distance > 0 /\ Distance' < Distance]_vars
  BY VerdictsConverge DEF Inv
<1> QED BY <1>1, InvHolds, PTL DEF Spec, Converges
=============================================================================
