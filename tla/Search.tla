------------------------------- MODULE Search -------------------------------
(***************************************************************************)
(* The search for the highest rate a server sustains: run_step_up and      *)
(* run_binary_search of the orchestrator, one run_step after the other,    *)
(* each judged by the difference of two statistics snapshots taken while   *)
(* the handlers of the UAC still record the outcomes of calls.             *)
(*                                                                         *)
(* Three things run concurrently: the orchestrator, the handlers that      *)
(* record outcomes, and the signal handler that sets the shutdown flag.    *)
(* A snapshot loads total_calls first and failed_calls some time later     *)
(* (stats); record_failure increments them in the same order, one by one.  *)
(* How a call comes to its outcome is the matter of module Calls; here a   *)
(* call waits in the dialog map until a handler takes it up or a cleanup   *)
(* removes it.  A rate is a natural number (a multiple of the spacing of   *)
(* f64), so that the middle of an interval is rounded down or up.  Time is *)
(* left out: a step may end, and a drain may time out, at any moment.      *)
(***************************************************************************)
EXTENDS Integers

CONSTANTS
    InitialCps,       \* initial_cps, of either search
    MaxCps,           \* step_up.max_cps
    StepSize,         \* step_up.step_size
    Convergence,      \* binary_search.convergence_threshold
    Ceiling,          \* beyond it the doubling stops (1_000_000 in the program)
    ErrorThreshold,   \* error_threshold, in percent
    CallsPerStep,     \* bound: calls started in one step
    MaxRecords,       \* bound: outcomes recorded by handlers
    MaxRemote,        \* bound: dialogs of the UAS at a time
    Wrap              \* active_dialogs counts modulo Wrap (2^64 in the program)

\* What Config::validate lets pass.
ASSUME SearchAssumption ==
    /\ InitialCps \in Nat \ {0}
    /\ MaxCps \in Nat /\ MaxCps >= InitialCps
    /\ StepSize \in Nat \ {0} /\ Convergence \in Nat \ {0}
    /\ Ceiling \in Nat /\ ErrorThreshold \in Nat
    /\ CallsPerStep \in Nat /\ MaxRecords \in Nat /\ MaxRemote \in Nat
    /\ Wrap \in Nat /\ Wrap > CallsPerStep + MaxRemote

VARIABLES
    pc,          \* where the orchestrator is
    phase,       \* the search and its phase: "stepup", "expand" or "bisect"
    low,         \* low of the binary search, max_stable_cps of the step-up
    high,        \* high of the binary search, current_cps of the step-up
    rate,        \* the rate of the current step
    offered,     \* calls_sent in the current step
    snapBefore,  \* total_calls and failed_calls as loaded before the step
    snapAfter,   \* and after it
    shutdown,    \* the shutdown flag
    waiting,     \* dialogs in the map that no handler has in hand
    handled,     \* handlers that have found their dialog
    stale,       \* handlers whose dialog a cleanup removed or counted as well
    recording,   \* handlers inside record_failure, dialog still counted active
    tardy,       \* handlers inside record_failure, whose dialog a cleanup took
    remote,      \* dialogs of the UAS, which counts in the same gauge
    active,      \* StatsCollector.active_dialogs
    total,       \* StatsCollector.total_calls
    failed,      \* StatsCollector.failed_calls
    passed,      \* history: the rates of the steps that passed
    refused,     \* history: the rates of the steps that failed
    disturbed    \* history: active_dialogs may be less than what is open

searchVars == <<phase, low, high, passed, refused>>
stepVars == <<rate, offered, snapBefore, snapAfter>>
callVars == <<waiting, handled, stale, recording, tardy, remote, active>>
statVars == <<total, failed>>
vars == <<pc, searchVars, stepVars, shutdown, callVars, statVars, disturbed>>

Counts == [total : Nat, failed : Nat]

Init ==
    /\ pc = "top"
    /\ phase \in {"stepup", "expand"}
    /\ low = 0 /\ high = InitialCps
    /\ rate = 0 /\ offered = 0
    /\ snapBefore = [total |-> 0, failed |-> 0]
    /\ snapAfter = [total |-> 0, failed |-> 0]
    /\ shutdown = FALSE
    /\ waiting = 0 /\ handled = 0 /\ stale = 0 /\ recording = 0 /\ tardy = 0
    /\ remote = 0 /\ active = 0 /\ total = 0 /\ failed = 0
    /\ passed = {} /\ refused = {}
    /\ disturbed = FALSE

-----------------------------------------------------------------------------
(* The handlers.  They record the outcome first and decrement the gauge    *)
(* last, so a gauge at zero means that no outcome is on its way.           *)

RecordsLeft == total < MaxRecords

\* Mutant: the gauge may go below zero.
LessSigned(n) == active - n

\* fetch_sub on the gauge.
Less(n) == (active - n) % Wrap

\* A response arrives and its dialog is found.
LookUp ==
    /\ waiting > 0
    /\ waiting' = waiting - 1 /\ handled' = handled + 1
    /\ UNCHANGED <<pc, searchVars, stepVars, shutdown, stale, recording, tardy, remote,
                   active, statVars, disturbed>>

\* record_call, then decrement_active_dialogs.
RecordSuccess ==
    /\ RecordsLeft
    /\ \/ handled > 0 /\ handled' = handled - 1 /\ UNCHANGED stale
       \/ stale > 0 /\ stale' = stale - 1 /\ UNCHANGED handled
    /\ total' = total + 1
    /\ active' = Less(1)
    /\ UNCHANGED <<pc, searchVars, stepVars, shutdown, waiting, recording, tardy, remote,
                   failed, disturbed>>

\* record_failure: total_calls comes first,
BeginFailure ==
    /\ RecordsLeft
    /\ \/ /\ handled > 0 /\ handled' = handled - 1 /\ recording' = recording + 1
          /\ UNCHANGED <<stale, tardy>>
       \/ /\ stale > 0 /\ stale' = stale - 1 /\ tardy' = tardy + 1
          /\ UNCHANGED <<handled, recording>>
    /\ total' = total + 1
    /\ UNCHANGED <<pc, searchVars, stepVars, shutdown, waiting, remote, active, failed, disturbed>>

\* then failed_calls and the gauge.  A second challenge fails the call in
\* place (handle_auth_challenge): its dialog stays where it is, still active.
EndFailure ==
    /\ failed' = failed + 1
    /\ \/ /\ recording > 0 /\ recording' = recording - 1
          /\ UNCHANGED tardy
          /\ \/ active' = Less(1) /\ UNCHANGED waiting
             \/ UNCHANGED active /\ waiting' = waiting + 1
       \/ /\ tardy > 0 /\ tardy' = tardy - 1
          /\ UNCHANGED <<recording, waiting>>
          /\ active' = Less(1) \/ UNCHANGED active
    /\ UNCHANGED <<pc, searchVars, stepVars, shutdown, handled, stale, remote, total, disturbed>>

\* The UAS counts its dialogs in the same gauge (handle_invite, handle_bye).
FarInvite ==
    /\ remote < MaxRemote
    /\ remote' = remote + 1 /\ active' = (active + 1) % Wrap
    /\ UNCHANGED <<pc, searchVars, stepVars, shutdown, waiting, handled, stale, recording,
                   tardy, statVars, disturbed>>

\* A BYE may end a call whose 200 could not be sent, which was never counted.
FarBye ==
    /\ active' = Less(1)
    /\ \/ remote > 0 /\ remote' = remote - 1 /\ UNCHANGED disturbed
       \/ ~disturbed /\ disturbed' = TRUE /\ UNCHANGED remote
    /\ UNCHANGED <<pc, searchVars, stepVars, shutdown, waiting, handled, stale, recording,
                   tardy, statVars>>

Handlers == LookUp \/ RecordSuccess \/ BeginFailure \/ EndFailure \/ FarInvite \/ FarBye

\* The signal handler, at any time.
Signal ==
    /\ ~shutdown /\ shutdown' = TRUE
    /\ UNCHANGED <<pc, searchVars, stepVars, callVars, statVars, disturbed>>

-----------------------------------------------------------------------------
(* The loops of the search. *)

\* Mutant: the interval is halved until it is empty.
NotEmpty == high > low

\* The condition of the loop that halves the interval.
Wide == high - low > Convergence

\* (low + high) / 2 as f64 rounds it.
Middle == {(low + high) \div 2, (low + high + 1) \div 2}

\* The head of a loop: unless the search is over, choose the rate of the next
\* step and load total_calls for the snapshot before it.
NextStep ==
    /\ pc = "top" /\ ~shutdown
    /\ phase = "bisect" => Wide
    /\ pc' = "before"
    /\ rate' \in IF phase = "bisect" THEN Middle ELSE {high}
    /\ offered' = 0
    /\ snapBefore' = [snapBefore EXCEPT !.total = total]
    /\ UNCHANGED <<searchVars, snapAfter, shutdown, callVars, statVars, disturbed>>

Finish ==
    /\ pc = "top"
    /\ shutdown \/ (phase = "bisect" /\ ~Wide)
    /\ pc' = "done"
    /\ UNCHANGED <<searchVars, stepVars, shutdown, callVars, statVars, disturbed>>

\* The rest of that snapshot, and run_step begins.
LoadBefore ==
    /\ pc = "before"
    /\ pc' = "sending"
    /\ snapBefore' = [snapBefore EXCEPT !.failed = failed]
    /\ UNCHANGED <<searchVars, rate, offered, snapAfter, shutdown, callVars, statVars, disturbed>>

-----------------------------------------------------------------------------
(* run_step *)

\* send_invite or send_register starts a call; the step ends with its duration
\* or with the shutdown flag.
StartCall ==
    /\ pc = "sending" /\ ~shutdown /\ offered < CallsPerStep
    /\ offered' = offered + 1
    /\ waiting' = waiting + 1
    /\ active' = (active + 1) % Wrap
    /\ UNCHANGED <<pc, searchVars, rate, snapBefore, snapAfter, shutdown, handled, stale,
                   recording, tardy, remote, statVars, disturbed>>

\* At max_dialogs the send task records the failure itself; run_step joins it.
RefuseCall ==
    /\ pc = "sending" /\ ~shutdown /\ offered < CallsPerStep
    /\ offered' = offered + 1
    /\ total' = total + 1 /\ failed' = failed + 1
    /\ UNCHANGED <<pc, searchVars, rate, snapBefore, snapAfter, shutdown, callVars, disturbed>>

StopSending ==
    /\ pc = "sending"
    /\ pc' = "draining"
    /\ UNCHANGED <<searchVars, stepVars, shutdown, callVars, statVars, disturbed>>

\* Mutant: the drain does not wait for the last call.
NearlyIdle == active <= 1

Idle == active = 0

\* The drain ends when nothing is active;
Drained ==
    /\ pc = "draining" /\ Idle
    /\ pc' = "after"
    /\ UNCHANGED <<searchVars, stepVars, shutdown, callVars, statVars, disturbed>>

\* or it times out, or the shutdown flag ends it: force_cleanup_remaining_dialogs
\* removes what the map holds, counting each dialog as a failure.  The dialog
\* of a handler is among them unless the handler has removed it already.
CleanUp(h, r) ==
    /\ pc = "draining" /\ ~Idle
    /\ pc' = "after"
    /\ waiting' = 0
    /\ handled' = handled - h /\ stale' = stale + h
    /\ recording' = recording - r /\ tardy' = tardy + r
    /\ total' = total + waiting + h + r
    /\ failed' = failed + waiting + h + r
    /\ active' = Less(waiting + h + r)
    /\ disturbed' = TRUE
    /\ UNCHANGED <<searchVars, stepVars, shutdown, remote>>

\* The snapshot after the step; the loads of the counters are apart.
LoadAfterTotal ==
    /\ pc = "after"
    /\ pc' = "after2"
    /\ snapAfter' = [snapAfter EXCEPT !.total = total]
    /\ UNCHANGED <<searchVars, rate, offered, snapBefore, shutdown, callVars, statVars, disturbed>>

LoadAfterFailed ==
    /\ pc = "after2"
    /\ pc' = "judge"
    /\ snapAfter' = [snapAfter EXCEPT !.failed = failed]
    /\ UNCHANGED <<searchVars, rate, offered, snapBefore, shutdown, callVars, statVars, disturbed>>

-----------------------------------------------------------------------------
(* The verdict. *)

StepTotal == snapAfter.total - snapBefore.total
StepFailed == snapAfter.failed - snapBefore.failed

\* A step without calls has an error rate of 1.
Passes == StepTotal > 0 /\ StepFailed * 100 <= ErrorThreshold * StepTotal

Note(verdict) ==
    /\ passed' = IF verdict THEN passed \cup {rate} ELSE passed
    /\ refused' = IF verdict THEN refused ELSE refused \cup {rate}

Least(a, b) == IF a <= b THEN a ELSE b

\* Mutant: the last rate is reported, whether or not it passed.
ReportLastRate ==
    /\ pc = "judge" /\ phase = "stepup"
    /\ Note(Passes)
    /\ low' = high
    /\ IF Passes /\ high < MaxCps
       THEN pc' = "top" /\ high' = Least(high + StepSize, MaxCps)
       ELSE pc' = "done" /\ UNCHANGED high
    /\ UNCHANGED <<phase, stepVars, shutdown, callVars, statVars, disturbed>>

\* run_step_up: one more step_size, up to max_cps, until a step fails.
StepUp ==
    /\ pc = "judge" /\ phase = "stepup"
    /\ Note(Passes)
    /\ low' = IF Passes THEN high ELSE low
    /\ IF Passes /\ high < MaxCps
       THEN pc' = "top" /\ high' = Least(high + StepSize, MaxCps)
       ELSE pc' = "done" /\ UNCHANGED high
    /\ UNCHANGED <<phase, stepVars, shutdown, callVars, statVars, disturbed>>

\* Mutant: the doubling goes on after a step that failed.
ExpandRegardless ==
    /\ pc = "judge" /\ phase = "expand"
    /\ pc' = "top"
    /\ Note(Passes)
    /\ low' = IF Passes THEN high ELSE low
    /\ IF high <= Ceiling
       THEN high' = 2 * high /\ UNCHANGED phase
       ELSE phase' = "bisect" /\ UNCHANGED high
    /\ UNCHANGED <<stepVars, shutdown, callVars, statVars, disturbed>>

\* run_binary_search, phase 1: double until a step fails or is beyond reason.
Expand ==
    /\ pc = "judge" /\ phase = "expand"
    /\ pc' = "top"
    /\ Note(Passes)
    /\ low' = IF Passes THEN high ELSE low
    /\ IF Passes /\ high <= Ceiling
       THEN high' = 2 * high /\ UNCHANGED phase
       ELSE phase' = "bisect" /\ UNCHANGED high
    /\ UNCHANGED <<stepVars, shutdown, callVars, statVars, disturbed>>

\* Mutant: the halves are taken the wrong way round.
HalveSwapped ==
    /\ pc = "judge" /\ phase = "bisect"
    /\ pc' = "top"
    /\ Note(Passes)
    /\ IF Passes THEN high' = rate /\ UNCHANGED low
                 ELSE low' = rate /\ UNCHANGED high
    /\ UNCHANGED <<phase, stepVars, shutdown, callVars, statVars, disturbed>>

\* Phase 2: halve the interval.
Halve ==
    /\ pc = "judge" /\ phase = "bisect"
    /\ pc' = "top"
    /\ Note(Passes)
    /\ IF Passes THEN low' = rate /\ UNCHANGED high
                 ELSE high' = rate /\ UNCHANGED low
    /\ UNCHANGED <<phase, stepVars, shutdown, callVars, statVars, disturbed>>

-----------------------------------------------------------------------------
RunStep ==
    \/ LoadBefore \/ StartCall \/ RefuseCall \/ StopSending \/ Drained
    \/ \E h \in 0..handled, r \in 0..recording : CleanUp(h, r)
    \/ LoadAfterTotal \/ LoadAfterFailed

Orchestrator == NextStep \/ Finish \/ RunStep \/ StepUp \/ Expand \/ Halve

\* Cooldowns and the end of the program leave the handlers running.
Next == Orchestrator \/ Handlers \/ Signal

Spec == Init /\ [][Next]_vars

\* The orchestrator is one task, which the runtime keeps scheduling; every wait
\* in it has a time limit.  Nothing is assumed of the calls and their handlers.
FairSpec == Spec /\ WF_vars(Orchestrator)

-----------------------------------------------------------------------------
TypeOK ==
    /\ pc \in {"top", "before", "sending", "draining", "after", "after2", "judge", "done"}
    /\ phase \in {"stepup", "expand", "bisect"}
    /\ low \in Nat /\ high \in Nat /\ rate \in Nat /\ offered \in 0..CallsPerStep
    /\ snapBefore \in Counts /\ snapAfter \in Counts
    /\ shutdown \in BOOLEAN /\ disturbed \in BOOLEAN
    /\ waiting \in Nat /\ handled \in Nat /\ stale \in Nat
    /\ recording \in Nat /\ tardy \in Nat /\ remote \in 0..MaxRemote
    /\ active \in 0..(Wrap - 1)
    /\ total \in Nat /\ failed \in Nat
    /\ passed \subseteq Nat /\ refused \subseteq Nat

\* While no cleanup has removed a dialog and the UAS has ended no call that it
\* did not count, the two differences a step is judged by are consistent although
\* the counters are loaded one by one: a step counts at least the calls it
\* started and no more failures than calls (so that step_total - step_failed
\* cannot wrap).  After a cleanup, handlers that found their dialog before it
\* may record into any later step.
StepConsistent ==
    pc = "judge" /\ ~disturbed => StepTotal >= offered /\ StepFailed <= StepTotal

\* The rate reported is 0 or the rate of a step that passed, even when the
\* search is cut short by a signal.
ReportedPassed == pc = "done" => low \in passed \cup {0}

\* A search that was not cut short brackets the limit: a step failed at a rate
\* at most convergence_threshold (binary search) or step_size (step-up) above the
\* one reported, unless the range ended there or its very first step failed.
Bracketed ==
    pc = "done" /\ ~shutdown =>
        IF phase = "stepup"
        THEN \/ low = MaxCps
             \/ low = 0 /\ InitialCps \in refused
             \/ \E r \in refused : low < r /\ r <= low + StepSize
        ELSE low > Ceiling \/ \E r \in refused : low <= r /\ r <= low + Convergence

\* The measurements a search goes by do not contradict each other: whatever the
\* calls of its steps did, every rate that passed is below every rate that failed
\* (run_binary_search never measures outside the interval it has left).
Separated == \A p \in passed, r \in refused : p < r

\* How far the loop of each phase is from its end.
Distance ==
    CASE phase = "stepup" -> MaxCps - high
      [] phase = "expand" -> Ceiling + 1 - high
      [] phase = "bisect" -> high - low

\* A step that does not end its loop brings the end of it closer, and after the
\* doubling comes the halving only: no error rate, however erratic, keeps a search
\* from ending.  In particular the interval shrinks though its middle is rounded.
Converges ==
    [][/\ phase' # phase => phase = "expand" /\ phase' = "bisect"
       /\ pc = "judge" /\ pc' = "top" /\ phase' = phase =>
            Distance > 0 /\ Distance' < Distance]_vars

\* With every step passing or failing as its calls do, each search ends.
Terminates == <>(pc = "done")
=============================================================================
