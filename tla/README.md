# Formal models of the SIP load tester

This directory holds TLA+ models of SotafugyTypeR, a SIP load tester written in
Rust: a UAC that places calls at a growing rate, a UAS that answers them, a
stateless proxy between the two, and an optional RFC 3261 transaction layer.
Each module is written from the source under `src/src` (paths below are
relative to it). `PROJECT.json` maps every definition to the lines it stands
for, and lists the runs, the mutants that show each property can fail, the
hazards of the code and the theorems.

    tlc -workers 2 -config Calls_step.cfg MCCalls.tla
    tlapm CallsProofs.tla

## The system

| Component | State | Operations | Talks to |
|---|---|---|---|
| Transaction manager, `transaction/` | map of transactions, each a small state machine; timer queues | `send_request`, `handle_response`, `handle_request`, `handle_ack`, `send_response`, `tick`, `cleanup_terminated` | UAC and UAS (calls, events), transport |
| Timer queues, `transaction/timer.rs` | ten FIFO queues of (deadline, id) | `schedule_timer_*`, `poll_expired` | transaction manager |
| UAC, `uac/mod.rs` | none of its own: the dialogs, the statistics | `send_invite`, `send_register`, `handle_response`, BYE loop, re-INVITE tasks, `shutdown` | dialog manager, statistics, proxy |
| Dialog manager, `dialog/mod.rs` | map of dialogs and a separate counter | `create_dialog`, `remove_dialog`, `force_remove_all`, collections | UAC, orchestrator |
| UAS, `uas/mod.rs` | map of dialogs | `handle_request` (INVITE, ACK, BYE, REGISTER), `shutdown` | proxy, statistics |
| Statistics, `stats/mod.rs` | atomic counters, sharded latencies | `record_*`, `increment_`/`decrement_active_dialogs`, `snapshot` | everybody |
| Orchestrator, `orchestrator/mod.rs` | mode, step, bounds of the search | `run_step`, `run_step_up`, `run_binary_search`, `run_sustained`, `graceful_shutdown` | UAC, statistics, dialog manager |
| Proxy, `proxy/`, `bin/sip_proxy.rs` | location service (user to contact) | `handle_request`, `handle_response` | UAC and UAS by datagrams |
| Load pattern, `uac/load_pattern.rs`; configuration, `config/` | none after the start | `cumulative_calls_at`, `calculate_send_interval`, `calculate_max_dialogs` | orchestrator, dialog manager |
| SIP messages, `sip/` | a header list with a cache of positions | `add`, `set`, `remove*`, `insert_at`, `get`, formatter, parser | everybody who sends |
| Digest authentication, `auth/`; user pool, `user_pool/` | the pool and a round-robin counter | `create_authorization_header`, `verify`, `find_by_username`, `next_user` | UAC, proxy |
| Transport, reporter, command line, proxy program, debug output | little or none | input, output, text | the components above |

Everything runs as tokio tasks on several threads: one sender per call, one
receive loop per socket, the BYE loop, one sleeping task per re-INVITE, the
tick loop and the orchestrator. They share maps (`DashMap`) and atomic counters
and lock neither across an operation. That is where the hard behaviour is:

- a limit or a flag is tested in one step and acted on in another
  (`max_transactions`, `max_dialogs`, `auth_attempted`);
- a dialog is looked up, and removed by a cleanup before the handler gets to it;
- messages are lost, repeated, late and out of order, and timers, once
  scheduled, are never cancelled;
- a send fails half way through an operation and nothing is undone;
- what must happen eventually (timeouts, releases) depends on loops that must
  not lose an entry.

What makes each component correct:

- *transactions*: no transaction without its timer, one outcome each, forward
  only, released in the end, bounded in number;
- *timer queues*: nothing due is left behind for long;
- *dialogs and statistics*: the counter is the number of dialogs,
  `active_dialogs` the number of open calls, every call is counted exactly once;
- *UAC and UAS*: they agree on how a call ended; a challenge does not loop;
- *orchestrator*: the result of a step covers every call it started, the rate
  reported is one that passed and lies close below one that failed;
- *messages and digests*: the cache of a header list says what a search would,
  a body is never cut short unnoticed, an honest retry is accepted;
- *proxy*: responses go back the way the request came, every request is
  answered, none passes unauthenticated.

## The modules

`TransactionManager.tla` with `MCTransactionManager.tla` and
`TransactionManagerProofs.tla` models `transaction/`: `state[id]` is the
transaction stored under a key (`"Absent"` for none), `pending[id][t]` counts
its entries in each timer queue, `told` and `answers` record what its user heard
and what its peer was sent. Each public method is an action, or two where other
tasks run in between (limit check and insertion, insertion and send, collecting
and removing). An entry of a timer queue fires at any time after it was
scheduled, so every order that clock, queues and tick loop can produce is a
behaviour. A status code is one of three classes.

`ClientTransaction.tla` is what that layer promises the user of a client
transaction, in three steps: submitted, decided (answered or given up, and the
user hears which), released. `TransactionManager` implements it under the mapping
`ClientPhase`, `ClientHeard` (`ImplementsClientTransaction`); its limit, queues,
tasks and server transactions are invisible there. The proof of the safety part
is in `TransactionRefinement.tla`.

`Admission.tla` is what a map whose limit is tested before the insertion promises:
who is inserted passed a check of its own, under a key that was free, as one of a
limited number of tasks. Both such maps of the program implement it, the
transactions (`max_transactions`) and the dialogs (`max_dialogs`); each module has
its mapping and the property `ImplementsAdmission`. It says precisely what is left
of the documented limit, which `TM_limit` shows to be false as it stands.

`TimerQueues.tla` with `MCTimerQueues.tla` and `TimerQueuesProofs.tla` puts back
the clock that the first module leaves out. A task reads the clock and pushes
later; the retransmission timers are pushed with growing delays; a poll drains
queue by queue. A queue is therefore not in the order of its deadlines, though
`drain_queue` stops at the first head that is not due.

`Calls.tla` with `MCCalls.tla` and `CallsProofs.tla` composes UAC, dialog manager,
statistics, UAS and the orchestrator's steps over a lossy, repeating, reordering
network. A handler of the receive loop is not one action: each of its statements
that another task can notice is a step, and `handling` holds the point it has
reached. `Receive` looks the dialog up. On the way to a success, `CompleteCall`
takes it out of the map, `CountTaken` decrements the manager's counter,
`RecordSuccess` records the call and `CloseCall` decrements the gauge; on the way
to a failure `FailCall` records first, then `DropCall`, `CountTaken` and
`CloseCall` follow. The other users of `remove_dialog` are split in the same place
(`ForceRemove` and `CountForced`, `ShutDownRemove` and `ShutDownCount`), as is
`create_dialog` (`StartCall`, `InsertDialog`, `SendRequest`). So a drain may time
out, a cleanup run and a step be judged between any two of them. The proxy is
external here: it challenges, rejects, registers or passes a message on. Two
history variables are no part of the code: `closed`, the calls the UAS has ended,
and `drifted`, set when `active_dialogs` is about to change without a dialog being
added or removed. The latter marks the races of the code that damage the gauge: a
response handler or a shutdown whose dialog somebody else has removed, and a UAS
that stored a dialog and could not send its 200; it is set as soon as such a task
finds its dialog gone. The properties that depend on the gauge are claimed while
`drifted` is false; so they say that nothing else damages it. Time is left out: a
call may be due for its BYE and a drain may time out at any moment.

`Proxy.tla` with `MCProxy.tla` and `ProxyProofs.tla` models the stateless proxy
between a UAC and a UAS: `location` is the location service, `wire` the datagrams
on their way, each with its Route and its Via headers. One action handles one
message, because the receive tasks share nothing but the location service, which
a message reads or writes once. Address and identity of a node are the same
thing here, so the `received` and `rport` parameters of a Via have no part. UAC
and UAS are reduced to what they send: one call and one registration per user,
the credentials of a retry right or wrong. A datagram with more than `MaxVia` Via
headers is refused by the socket.

`Search.tla` with `MCSearch.tla` and `SearchProofs.tla` is the orchestrator above
the single call: `run_step_up` and `run_binary_search`, one `run_step` after the
other. The calls of a step are counted, not named: `waiting` in the map, `handled`
by a receive loop, `recording` inside `record_failure`, `stale` and `tardy` when a
cleanup has overtaken their handler. The two counters a step is judged by are
loaded in two steps, as the code loads them, while handlers increment them in
two. A signal may come at any moment. `disturbed` is a history variable like
`drifted` in `Calls`: a cleanup removed a dialog, or the UAS decremented the gauge
for a dialog it had not counted. Rates are natural numbers, so the middle of an
interval is rounded either way. How a call comes to its outcome is left to `Calls`;
the two meet in the gauge and the outcome counters.

`Calculations.tla` holds the arithmetic without state: pacing, `max_dialogs`,
percentiles. `Messages.tla` holds the header list with its cache and what
formatter and parser do to a body and its length; `Digest.tla` what a digest is
computed from on either side, and the user pool. Their theorems are in
`CalculationsProofs.tla` and `MessageProofs.tla`. They have no state to run, so the
MC modules compare them with reference definitions over bounded inputs, in named
assumptions that TLC evaluates before its runs: those of `Calculations` in
`MCSearch`, those of `Messages` and `Digest` in `MCProxy`.

Apart from these the MC modules only give the constants their values. The
definitions marked *Mutant* in the modules are not used by the specifications:
each is a wrong variant of the definition after it, with which one of the
properties fails.

## The runs

| Run | Instance | Shows |
|---|---|---|
| `TM_clients` | an INVITE and a non-INVITE client, `max_transactions` 1, two callers, two entries per queue and id | no timer is lost (`TimersArmed`), answer or timeout but never both (`OneOutcome`), requests are decided and released (`NonInviteSettles`, `InviteSettles`, `Released`), and the user sees nothing else than a `ClientTransaction` (`ImplementsClientTransaction`) |
| `TM_servers` | an INVITE and a non-INVITE server, re-created by late requests | one answer (`OneAnswer`), cleanup never hits a live transaction (`CleanupSafe`), states only move forward (`ForwardOnly`), an INVITE server repeats the answer it gave first (`AnswerKept`), `Released` |
| `TM_capacity` | three transactions, `max_transactions` 1, two callers | the limit is passed by one at most (`CapacityBound`), the map is an `Admission` (`ImplementsAdmission`) |
| `TM_limit` | the same | *fails*: the documented limit is not enforced (`LimitEnforced`) |
| `Timers` | one doubling and one fixed timer, two tasks, skew 1, clock up to 4, two entries per queue | what a poll leaves behind is late by the spread of the delays and the skew at most (`Punctual`), and has not waited longer than the longest delay (`WaitBounded`) |
| `Calls_sustained` | one INVITE call, one receive loop, challenges, failed sends, one re-INVITE task | a BYE is numbered above the INVITE (`ByeAboveInvite`), a success was ended by the UAS (`SuccessMeansClosed`), a 481 means it had ended (`UnknownByeMeansClosed`), types |
| `Calls_challenges` | one INVITE call, two receive loops, two steps of the search, authentication on | each loop answers one challenge at most (`ChallengesBounded`); a step reports without an outcome only those calls whose dialog a loop has removed and not yet recorded (`StepAccounts`) |
| `Calls_step` | an INVITE and two REGISTER calls, `max_dialogs` 1, two senders, one receive loop, one step | counter and map agree but for dialogs half inserted or half removed (`DialogsCounted`), the limit is passed by one at most (`DialogBound`) and the map of dialogs is an `Admission` (`ImplementsAdmission`), the gauge is exact until the first cleanup (`GaugeUndisturbed`), the gauge and the open calls agree (`Ledger`), each call is counted once (`CountedOnce`), and all of them when a drain ends by itself (`DrainAccounts`) |
| `Calls_uncounted` | one call in sustained mode | *fails*: an unanswered call is never recorded (`TimeoutsCounted`) |
| `Proxy_calls` | one user of the managed domain, one outside, authentication on | responses return over the hops of the request (`RoutedHome`), nothing happens for a user without verified credentials (`VerifiedOnly`), no request is lost (`Underway`) and none goes round for ever (`Descends`), so that every call, registration and BYE is answered (`RequestsAnswered`) |
| `Proxy_refresh` | the same without authentication | *fails*: a re-INVITE does not reach the UAS (`SessionRefreshed`) |
| `Search` | both searches, up to two calls per step, two outcomes of handlers, one dialog of the UAS | until a cleanup interferes a step counts its calls and no more failures than calls (`StepConsistent`), the reported rate passed (`ReportedPassed`) and a rate close above it failed (`Bracketed`), no verdict contradicts another (`Separated`), each one brings the end closer (`Converges`), the search ends (`Terminates`), types |

The three runs that fail are disagreements between the code and its own
documentation; `findings` in `PROJECT.json` quotes both.

A property is checked by the run whose instance puts it to the test; where its
theorem covers every instance it is not repeated. So `TimersArmed` runs with the
clients and is proved for the servers too, `Ledger` runs with a step and its
cleanup and is proved for challenges and failing sends, and of the type invariants
only those of `Calls` and `Search` run, where a gauge that leaves its width would
show.

**Bounds.** Transactions and calls interact only through the limits, the counters
and the cleanup, so two or three of them show every kind of interference; one more
task than the limit admits is enough to pass it, and a third call shows that no
more than that get through. The REGISTER calls of an instance of `Calls` and its
receive loops are interchangeable, and TLC treats them as such
(`Interchangeable`). `MaxPending` 2 lets a timer of one transaction meet the next
one under the same key. `MaxCSeq` bounds the requests of a call (challenge,
re-INVITE and two BYEs fit), `MaxRefresh` its re-INVITE tasks, `MaxCount` the
outcomes recorded for it (2 in `Calls_step`, where the second is the one to find;
1 in the others, where it only matters whether there is one), `Wrap` stands for
2^64 and is far above any count, so that only a decrement at 0 reaches it. In
`Timers` the clock runs long enough for an entry with the longest delay to be
pushed, overtaken and polled; `MaxVia` 3 lets the proxy send a re-INVITE to itself
once before it is dropped; an ordinary request has two Via headers at most.
`MaxSkew` is the time between `Instant::now()` and the push, which the program
does not bound: the theorems hold for every value. Where a bound cuts a behaviour
short the instance stops, and the configuration turns the deadlock check off. In
`Search` the rates go from 2 to 5 in steps of 2, the doubling stops above 3 and
the interval closes at 1: every search passes through each of its phases, ends at
a first step that fails, between two rates and at the end of the range.
`CallsPerStep` 2 gives a threshold of 50% both verdicts, `MaxRecords` 2 lets an
outcome fall into a later step. `Search` stops when the search ends. `Calls` stops
when the program exits; a client transaction is never created twice. `TM_servers`,
`TM_capacity` run with the deadlock check.

**Fairness.** `Proxy_calls` and `Proxy_refresh` assume that every datagram
arrives and is handled (weak fairness of `Deliver`, under which only finitely
many are sent): what it says is that no request is lost by the routing.
`TM_clients` and `TM_servers` check liveness under their own `FairSpec`: calls
into the manager return, and the tick loop (`uac/mod.rs:359-386`, every 10 ms)
keeps taking expired entries and cleaning up. Nothing is assumed of the network,
the peer or the user of the manager. `Search` assumes that the orchestrator, a
single task, is scheduled: each of its waits has a time limit (the length of a
step, `shutdown_timeout` of a drain), so `Terminates` needs nothing of the calls
or their handlers. `main` does not start that loop because it installs no
transaction manager; the assumption is about whoever does. An INVITE client in
*Proceeding* has no timer, which is why `InviteSettles` stops there.

## What is proved

`TransactionManagerProofs.tla`, for any sets of transactions, limit, number of
tasks and bound: `TypeCorrect`, `TimersAlwaysArmed`, `CapacityOvershoot`,
`OutcomeOnce`, `AnswerOnce`, `CleanupIsSafe` (invariants) and `AlwaysForward` (an
action property); with a single caller also the documented limit itself
(`LimitHoldsForOneTask`), so that `TM_limit` needs its second caller. The
assumptions are that the sets are finite and disjoint and the bounds positive.
None of the invariants is inductive alone; `IInv` adds

- `KindOK`: a transaction is only in states of its kind;
- `FreshOK`: a key that passed the limit check has no transaction yet, and a
  client key is used once. Without it an insertion could overwrite a live
  transaction, against `ForwardOnly` and `CleanupSafe`;
- `StoredOK`: a Completed server transaction holds the final response it repeats;
- `SlotsOK`: the transactions stored *and* those about to be inserted fit into
  `max_transactions + Tasks - 1`, of which `CapacityBound` is the visible half.

There is one lemma per action, and one lemma each on scheduling, consuming and
reporting, from which the steps are assembled.

`TransactionRefinement.tla`, under the same assumptions: `ClientSideImplemented`
(initial states and steps of `TransactionManager` map to initial states and steps,
or stutters, of `ClientTransaction`), `AnswerStaysKept` and `LimitAsStated` (the map
implements `Admission`). `IInv` is needed before
every step: without `OutcomeOnce` a late timer would decide a second time, without
`FreshOK` an insertion would revive a released transaction. A step concerns one
transaction; `SameInvisible` and `VisibleStep` reduce the mapping of the whole map
to that of one key. For `Admission` what counts is which keys are stored: each
action stores at most one key, one that had passed the check (`FreshOK` again, and
`SlotsOK` for the number of tasks), or removes some of those `cleanup_terminated`
found. The liveness half of `ClientTransaction` (`Releases`) is left
to the run.

`CallsProofs.tla`, for any finite sets of calls, any `max_dialogs`, number of
senders, receive loops, steps and bounds, with and without authentication and
failing sends: all invariants the runs of `Calls` check, that is
`CallsTypeCorrect`, `CounterExact`, `LimitOvershoot`, `GaugeExact`,
`CountedAtMostOnce`, `StepsAccountForCalls`, `DrainsAccountForCalls`,
`SuccessAgreed`, `NoByeBeforeInvite`, `ChallengesAnsweredOnce`, `ByeNumberedLast`,
`GaugeExactUntilCleanup`, and `DialogsAdmitted` (the map of dialogs implements
`Admission`). The invariant is built in layers, each inductive given the ones
before it:

- `BaseInv`: types, and causality: a response, a handler, a collected BYE exist
  only after the request they are about;
- `RunInv`: what `force_remove_all` or a shutdown has removed and not yet counted is
  not in the map, and a cleanup still has to visit whatever is;
- `OwnInv`: only one receive loop at a time has taken the dialog of a call and not
  yet lowered the counter, and without `drifted` only one owes the gauge a decrement
  for it; then nobody else has that dialog, in the map or among the removed. This
  makes the sets that counter and gauge add up disjoint, and keeps their sum below
  `Wrap`;
- `CountInv`: the counter is the number of dialogs whose creation is complete and of
  those half removed (`Leaving`); the complete ones with the senders still under way
  fit into `max_dialogs + Batch - 1`;
- `LedgerInv`: the gauge is the sum of the dialogs at both ends, the removed ones of a
  cleanup and those a loop is settling. Each action changes at most one of the sets by
  at most one element, or moves one element between two of them, which is where
  cardinalities enter;
- `LookupInv`: until something is cleaned up, the dialog a single receive loop has
  found stays in the map and counted until that loop takes it out itself. So nothing
  sets `drifted` (`GaugeUndisturbed`), and what `Ledger` says of the first drain
  needs no condition;
- `EmptyInv`: a reported step left no dialog;
- `OutcomeInv`: until the shutdown a call that was sent has an outcome or is still
  held, that is, has a dialog, or had one that a cleanup has not counted or a loop
  not recorded; and without challenges it is not both, unless a handler has
  recorded a failure and not yet dropped the dialog. `StepAccounts` follows with
  `EmptyInv`. Its exception is real: a drain that times out between
  `remove_dialog` and `record_call` leaves the cleanup nothing to find, and the
  call falls out of its step. `DrainAccounts` needs `LedgerInv`: a call that is
  held is counted by the gauge, so a gauge of 0 means that none is;
- `EndInv`: an INVITE was answered before its dialog is Confirmed or a BYE is on
  the wire, the UAS had a dialog from that answer until it closed the call, and
  BYE responses come from closed calls only. The last two give `SuccessAgreed` and
  `NoByeBeforeInvite`, over any order and repetition of messages;
- `ChallengeInv`: answers sent and loops about to send one together fit into the
  number of loops, because the first answer sets `auth_attempted`;
- `SetupInv`, `SoloInv`, `NumberInv`: with a single receive loop the answer to a
  challenge is numbered before any BYE of its call is collected, and every copy of
  a CSeq that a task still holds is at least the number of each INVITE sent.
  With two loops a late answer to a challenge breaks this, so the property, and
  the theorem, are about one.

`SearchProofs.tla`, for any rates, thresholds and bounds `Config::validate`
accepts (config/mod.rs:146-218 is the assumption): `SearchTypeCorrect`,
`StepsConsistent`, `ResultPassed`, `ResultBracketed`, `EvidenceSeparated`,
`SearchConverges`. `SearchInv` says what `low` and `high` stand for in each phase;
`CountInv`, that while nothing has disturbed it the gauge is at least the number
of outcomes still being recorded, so that a drain that ends at zero ends after the
last increment. That, and not the order of the loads alone, is what makes the two
differences consistent. `EvidenceInv` says that every rate that passed is at most
`low`, and every one that failed at least `high` once there is a bound; with the
middle strictly inside a wide interval (`MiddleInside`, rounded either way) this
keeps the verdicts apart whatever the error rates were. `Converges` is the variant
behind `Terminates`: each verdict that does not end its loop reduces a natural
number. What remains for TLC is that the orchestrator is scheduled.

`CalculationsProofs.tla`, for all rates, durations, ramps and units of time: a
sending loop is never behind its pattern nor ahead by a batch
(`PacingFollowsPattern`), a ramp follows the rate (`RampFollowsRate`) and costs half
its length (`RampLosesHalfItsCalls`), the interval keeps the rate within 5%
(`RateKept`, orchestrator/mod.rs:597), `max_dialogs` grows with the rate
(`MaxDialogsMonotonic`), a percentile is the nearest rank (`PercentileIsNearestRank`)
and they are in order (`PercentilesOrdered`). `MaxDialogsSuffice` puts three of them
together: a loop that keeps its interval, so that it is behind by less than one
interval and ahead by less than one batch, never has more calls younger than
`call_duration` than `max_dialogs`, at any rate the configuration was sized for.
Calls that last longer than their duration, by answers that are late, are what the
theorem says nothing about. The lemmas on `\div` (`DivBounds` to `QuotientGrows`)
carry the products the provers cannot handle on their own.

`MessageProofs.tla`, for header lists, bodies and pools of any size:
`HeadersKeepCache`, `GetFindsFirst`, `ParserKeepsCache`, `ViaPushedIsRemoved`,
`BodySurvives`, `LossNoticed`; `RemoveIsExact` (the headers of a name are gone, all
others are kept, the cache is true) and `SetIsExact`; `FirstEntryFound` and
`RoundIsFair` of the user pool; `RetryVerified`: a retry is accepted if *and only if*
passwords, realm and method agree. Induction over the lines of a message, or over
the headers `retain` looks at, is made with a set: the lengths for which the claim
holds contain 0 and the successor of each of their members (`SetInduction`, itself
from the well-founded order of finite sets).

`TimerQueuesProofs.tla`, for any tasks, delays, skew and bounds with a positive
T1: `TimersTypeCorrect`, `PollsArePunctual`, `BlockingIsBounded`. The argument is
that a FIFO queue is in the order of its pushes (`FifoInv`) and a deadline lies
within the delays of its timer of the push, give or take the skew (`EntryInv`):
the head at which a drain stops, which is not due, bounds everything behind it.
For timers with a single delay (B, D, F, H, I, J, K) the spread is 0 and the
skew alone remains. For Timer A the spread is as large as its largest interval:
one long-waiting INVITE can hold up the retransmissions of all others.

`ProxyProofs.tla`, for any users, any managed domain, with and without
authentication and for any `MaxVia`: `ProxyTypeCorrect`, `ResponsesRoutedHome`,
`OnlyVerified`, `NoRequestLost` and `TrafficDescends`. The invariant behind the
second is the shape of the Via headers (`RouteOK`): those of the proxy above the
one of the UAC, the top one naming where a request came from and where a response
goes. Two lemmas say that putting a Via on and taking one off keep it. The third
needs that a datagram with a Route never leaves the proxy, or the exemption from
authentication would let a call through. The last two are the argument for
`RequestsAnswered` without its fairness: a request that is not answered is carried
by some datagram that its node handles (`Underway`), and what a node sends on for
a datagram is closer to the end (`Descends`, with the natural number `Ahead` as
variant). They rest on `PathInv`: a request without a Route that is at the proxy
comes from the UAC and has one Via, so that two Via headers are enough, and the
contacts in the location service are the UAC's.

Left to TLC: the liveness properties (`NonInviteSettles`, `InviteSettles`,
`Released`, `RequestsAnswered`, `Terminates`, the `Releases` half of the
refinement), because fairness and ENABLED are outside the prover's reach, though
for `Terminates` and `RequestsAnswered` everything but the fairness is proved; the
order of the headers `remove` keeps, and `SearchRateSized`, whose doubling is a
power of two, because both are inductions over data; and that the calls of a step
are those of a real call (`Calls` and `Search` are proved apart).

## What is not modelled

Text: parsing and formatting of lines and header values, buffers, sockets,
configuration files, reports, the command line, log lines. The rounding of f64.
Functions no part of the program calls: `bg_register`, `check_timeouts`,
`check_session_timeouts`, `health_check`, `insert_dialog`, `target_cps_at` (but for a
display), the buffer pool of `sip/pool.rs`, and, because `main` creates no
transaction manager, the paths of UAC and UAS through one. A T1 of 0. A process
that restarts: nothing is persisted.

About three quarters of the Rust source are unit tests inside the modules (7,900 of
32,300 lines are not). The models stand for about two fifths of the rest; what
remains is mostly text and input and output: the parser's lines, the reporter,
default values and reading of configurations, builders of header fields, logging.

## Remarks from reading the code

Places where code and documentation differ and which no run states as a property:

- `Orchestrator::health_check` is never called, though docs/sip-load-tester.md:294-296
  makes a failed health check abort the run; it would only test that `send_to`
  returns.
- docs/sip-load-tester.md:252 lets the UAC wait at `max_dialogs`; `send_register`
  and `send_invite` record a failure at once (uac/mod.rs:89, 122).
- The first 1xx to a client transaction is reported as a `Response` event, which
  transaction/mod.rs:118 describes as a final response.
- After a signal the drain and the cleanup of the step remove every dialog before
  `Uac::shutdown` looks for dialogs to send a BYE for (docs/sip-load-tester.md:298).
- A message without Content-Length comes back from formatter and parser with one,
  and an empty body comes back as none (docs/sip-load-tester.md:1009,
  `BodiesReturn`).
- A drain that times out between a handler's `remove_dialog` and its `record_call`
  (uac/mod.rs:404-405, 516-517) loses the call from the result of its step, and
  counts it in a later one, if at all.
- The retry of a challenged request is a clone of the first one and keeps its Via
  branch (uac/mod.rs:643).
- `max_dialogs` of a binary search is sized for at most twice `target_cps`
  (config/mod.rs:281), while the search doubles up to 1,000,000.
- The binary search that runs has no limit on its iterations, its pure twin has one
  (orchestrator/mod.rs:724): a convergence threshold below the spacing of f64 at
  the rate found would not end.

## Plan

1. Done: `TransactionManager` (the largest set of racing steps) and its refinements
   of `ClientTransaction` and `Admission`, `Calls` (the accounting the tool exists
   for) with all its invariants proved, `TimerQueues`, `Proxy`, `Search`, the pure
   parts in `Calculations`, `Messages` and `Digest`.
2. Next proofs: the steps of liveness that need no fairness, as done for `Search` and
   `Proxy`, for the transactions (a timer that fires brings its transaction closer to
   its release, unless it only retransmits) and for the drain of `Calls`.
3. Shard locks held across an await (transaction/manager.rs:329): worker threads,
   suspended tasks and one shard of the map, to decide which calls may wait for one
   another for ever.
4. The paths of UAC and UAS through a transaction manager, as a composition of
   `Calls` with `ClientTransaction`, once a program uses them.
5. A `Search` over the calls of `Calls` instead of counted ones, for the two races
   that `disturbed` and `drifted` exclude on their own.
