------------------------- MODULE TransactionManager -------------------------
(***************************************************************************)
(* The SIP transaction layer of src/src/transaction: the four RFC 3261     *)
(* state machines (invite_client.rs, non_invite_client.rs,                 *)
(* invite_server.rs, non_invite_server.rs) and the TransactionManager that *)
(* owns them (manager.rs), called by several tasks at once.                *)
(*                                                                         *)
(* Time is abstracted: a scheduled timer may fire at any later moment, so  *)
(* every order the clock, the FIFO timer queues and the tick loop can      *)
(* produce is a behaviour of this module.  Status codes are abstracted to  *)
(* the three classes the state machines tell apart.                        *)
(***************************************************************************)
EXTENDS Naturals, FiniteSets

CONSTANTS
  InviteClient,     \* ids of the INVITE client transactions
  NonInviteClient,  \* ids of the other client transactions
  InviteServer,     \* ids of the INVITE server transactions
  NonInviteServer,  \* ids of the other server transactions
  MaxTransactions,  \* max_transactions: the limit the manager is built with
  Tasks,            \* how many tasks are inside the manager at once
  MaxPending        \* bound: entries one transaction has in one timer queue

ClientId == InviteClient \cup NonInviteClient
ServerId == InviteServer \cup NonInviteServer
Id == ClientId \cup ServerId

ASSUME IdAssumption ==
  /\ IsFiniteSet(Id)
  /\ InviteClient \cap NonInviteClient = {}
  /\ InviteServer \cap NonInviteServer = {}
  /\ ClientId \cap ServerId = {}

ASSUME LimitAssumption ==
  /\ MaxTransactions \in Nat \ {0}
  /\ Tasks \in Nat \ {0}
  /\ MaxPending \in Nat \ {0}

Timer == {"A", "B", "D", "E", "F", "G", "H", "I", "J", "K"}

\* Status codes 100-199, 200-299 and 300-699.
Class == {"1xx", "2xx", "3xx"}
Final == {"2xx", "3xx"}

\* "Absent" stands for an id without an entry in the DashMap.
State == {"Absent", "Calling", "Trying", "Proceeding", "Completed",
          "Confirmed", "Terminated"}

VARIABLES
  state,    \* state[id]: the state of the transaction stored under id
  pending,  \* pending[id][t]: entries of id in the queue of timer t
  response, \* response[id]: the final response a server transaction stored
  checked,  \* ids whose creator passed the limit check and did not insert yet
  sending,  \* client ids inserted whose first transmission is not over
  used,     \* client ids already given to send_request (fresh branches)
  onWire,   \* client ids whose request left the socket at least once
  told,     \* told[id]: final events the user of a client transaction received
  answers,  \* answers[id]: final response classes sent for this transaction
  doomed    \* keys cleanup_terminated collected and has not removed yet

vars == <<state, pending, response, checked, sending, used, onWire, told,
          answers, doomed>>

\* What belongs to the stored transactions, and what to the calls in progress.
calls == <<checked, sending, used>>

Present == {id \in Id : state[id] # "Absent"}

\* Saturating count of events: "more than once" is all a property asks.
Outcome == [provisional : 0..2, response : 0..2, timeout : 0..2]
NoOutcome == [provisional |-> 0, response |-> 0, timeout |-> 0]
Bump(n) == IF n < 2 THEN n + 1 ELSE 2

TypeOK ==
  /\ state \in [Id -> State]
  /\ pending \in [Id -> [Timer -> 0..MaxPending]]
  /\ response \in [ServerId -> Final \cup {"none"}]
  /\ checked \subseteq Id
  /\ sending \subseteq ClientId
  /\ used \subseteq ClientId
  /\ onWire \subseteq ClientId
  /\ told \in [ClientId -> Outcome]
  /\ answers \in [ServerId -> SUBSET Final]
  /\ doomed \subseteq Id

Init ==
  /\ state = [id \in Id |-> "Absent"]
  /\ pending = [id \in Id |-> [t \in Timer |-> 0]]
  /\ response = [id \in ServerId |-> "none"]
  /\ checked = {}
  /\ sending = {}
  /\ used = {}
  /\ onWire = {}
  /\ told = [id \in ClientId |-> NoOutcome]
  /\ answers = [id \in ServerId |-> {}]
  /\ doomed = {}

-----------------------------------------------------------------------------
(* The timer queues of timer.rs, as the number of entries each id has.      *)

\* schedule_timer_*: one more entry in each queue of T.
Schedule(id, T) ==
  /\ \A t \in T : pending[id][t] < MaxPending
  /\ pending' = [pending EXCEPT ![id] =
                   [t \in Timer |-> IF t \in T THEN @[t] + 1 ELSE @[t]]]

\* poll_expired handed the entry to tick, which does not schedule it again.
Consume(id, t) == pending' = [pending EXCEPT ![id][t] = @ - 1]

-----------------------------------------------------------------------------
(* Creating transactions.  The limit is read first and the entry inserted   *)
(* later: other tasks run in between.                                       *)

Busy == checked \cup sending

\* Mutant: the limit is compared with > instead of >=.
PassLimitCheckAtLimit(id) ==
  /\ Cardinality(Busy) < Tasks
  /\ id \notin Busy
  /\ Cardinality(Present) <= MaxTransactions
  /\ checked' = checked \cup {id}

\* The len() >= max_transactions test, passed.  A refused caller changes nothing.
PassLimitCheck(id) ==
  /\ Cardinality(Busy) < Tasks
  /\ id \notin Busy
  /\ Cardinality(Present) < MaxTransactions
  /\ checked' = checked \cup {id}

\* send_request, up to its limit check, for a request with a fresh branch.
SendRequest(id) ==
  /\ id \notin used
  /\ PassLimitCheck(id)
  /\ used' = used \cup {id}
  /\ UNCHANGED <<state, pending, response, sending, onWire, told, answers, doomed>>

\* send_request schedules the two timers and inserts the transaction.
InsertClient(id) ==
  /\ id \in checked \cap ClientId
  /\ \/ /\ id \in InviteClient
        /\ state' = [state EXCEPT ![id] = "Calling"]
        /\ Schedule(id, {"A", "B"})
     \/ /\ id \in NonInviteClient
        /\ state' = [state EXCEPT ![id] = "Trying"]
        /\ Schedule(id, {"E", "F"})
  /\ checked' = checked \ {id}
  /\ sending' = sending \cup {id}
  /\ UNCHANGED <<response, used, onWire, told, answers, doomed>>

\* transport.send_to returns.  On an error the caller gets Err and nothing of
\* what send_request did is undone.
FirstTransmission(id) ==
  /\ id \in sending
  /\ sending' = sending \ {id}
  /\ onWire' \in {onWire, onWire \cup {id}}
  /\ UNCHANGED <<state, pending, response, checked, used, told, answers, doomed>>

\* Mutant: the lookup of an existing transaction is skipped.
ReceiveAnyRequest(id) ==
  /\ PassLimitCheck(id)
  /\ UNCHANGED <<state, pending, response, sending, used, onWire, told, answers, doomed>>

\* handle_request for a request that matches no transaction, up to its limit
\* check.  The receive task of a socket handles its datagrams one by one, so a
\* retransmission never races with the request it repeats.
ReceiveRequest(id) ==
  /\ state[id] = "Absent"
  /\ PassLimitCheck(id)
  /\ UNCHANGED <<state, pending, response, sending, used, onWire, told, answers, doomed>>

\* handle_request inserts the new server transaction and reports the request.
InsertServer(id) ==
  /\ id \in checked \cap ServerId
  /\ state' = [state EXCEPT ![id] =
                 IF id \in InviteServer THEN "Proceeding" ELSE "Trying"]
  /\ response' = [response EXCEPT ![id] = "none"]
  /\ answers' = [answers EXCEPT ![id] = {}]
  /\ checked' = checked \ {id}
  /\ UNCHANGED <<pending, sending, used, onWire, told, doomed>>

-----------------------------------------------------------------------------
(* Responses to a client transaction.  They can only answer a request that  *)
(* left; the network may delay, repeat and reorder them.  A response that   *)
(* the state machine ignores changes nothing and has no action.             *)

Tell(id, event) == told' = [told EXCEPT ![id][event] = Bump(@)]

\* InviteClientTransaction::on_response and the INVITE arm of handle_response.
\* Each 3xx-6xx schedules Timer D again and is reported again.
InviteResponse(id, c) ==
  /\ id \in InviteClient \cap onWire
  /\ \/ /\ c = "1xx"
        /\ state[id] = "Calling"
        /\ state' = [state EXCEPT ![id] = "Proceeding"]
        /\ UNCHANGED <<pending, told>>
     \/ /\ c = "2xx"
        /\ state[id] \in {"Calling", "Proceeding"}
        /\ state' = [state EXCEPT ![id] = "Terminated"]
        /\ Tell(id, "response")
        /\ UNCHANGED pending
     \/ /\ c = "3xx"
        /\ state[id] \in {"Calling", "Proceeding", "Completed"}
        /\ state' = [state EXCEPT ![id] = "Completed"]
        /\ Schedule(id, {"D"})
        /\ Tell(id, "response")
  /\ UNCHANGED <<response, calls, onWire, answers, doomed>>

\* NonInviteClientTransaction::on_response and its arm of handle_response.
\* The first 1xx is reported as a Response event too.
NonInviteResponse(id, c) ==
  /\ id \in NonInviteClient \cap onWire
  /\ \/ /\ c = "1xx"
        /\ state[id] = "Trying"
        /\ state' = [state EXCEPT ![id] = "Proceeding"]
        /\ Tell(id, "provisional")
        /\ UNCHANGED pending
     \/ /\ c \in Final
        /\ state[id] \in {"Trying", "Proceeding"}
        /\ state' = [state EXCEPT ![id] = "Completed"]
        /\ Schedule(id, {"K"})
        /\ Tell(id, "response")
  /\ UNCHANGED <<response, calls, onWire, answers, doomed>>

-----------------------------------------------------------------------------
(* Server transactions.  Their user may call send_response at any time and  *)
(* any number of times; a send may fail after the state was changed.        *)

\* The final response c leaves for the peer, or the socket refuses it.
Answer(id, c) == answers' \in {answers, [answers EXCEPT ![id] = @ \cup {c}]}

\* Mutant: an answer the state machine refuses is stored all the same.
StoreEveryInviteAnswer(id, c) ==
  /\ id \in InviteServer
  /\ c \in Final
  /\ state[id] # "Absent"
  /\ IF state[id] = "Proceeding" /\ c = "2xx"
     THEN state' = [state EXCEPT ![id] = "Terminated"] /\ UNCHANGED pending
     ELSE IF state[id] = "Proceeding"
     THEN state' = [state EXCEPT ![id] = "Completed"] /\ Schedule(id, {"G", "H"})
     ELSE UNCHANGED <<state, pending>>
  /\ response' = [response EXCEPT ![id] = c]
  /\ Answer(id, c)
  /\ UNCHANGED <<calls, onWire, told, doomed>>

\* send_response on an INVITE server transaction.  Its 1xx case does nothing,
\* and a final response outside Proceeding is sent although the state machine
\* ignored it.
SendInviteAnswer(id, c) ==
  /\ id \in InviteServer
  /\ c \in Final
  /\ \/ /\ state[id] = "Proceeding"
        /\ c = "2xx"
        /\ state' = [state EXCEPT ![id] = "Terminated"]
        /\ UNCHANGED <<pending, response>>
     \/ /\ state[id] = "Proceeding"
        /\ c = "3xx"
        /\ state' = [state EXCEPT ![id] = "Completed"]
        /\ response' = [response EXCEPT ![id] = c]
        /\ Schedule(id, {"G", "H"})
     \/ /\ state[id] \in {"Completed", "Confirmed", "Terminated"}
        /\ UNCHANGED <<state, pending, response>>
  /\ Answer(id, c)
  /\ UNCHANGED <<calls, onWire, told, doomed>>

\* Mutant: a Completed transaction takes another final response.
AwaitsAnswerAgain(id) == state[id] \in {"Trying", "Proceeding", "Completed"}

\* NonInviteServerTransaction::send_response acts in these states only.
AwaitsAnswer(id) == state[id] \in {"Trying", "Proceeding"}

\* send_response on a non-INVITE server transaction.
SendNonInviteAnswer(id, c) ==
  /\ id \in NonInviteServer
  /\ AwaitsAnswer(id)
  /\ \/ /\ c = "1xx"
        /\ state' = [state EXCEPT ![id] = "Proceeding"]
        /\ UNCHANGED <<pending, response, answers>>
     \/ /\ c \in Final
        /\ state' = [state EXCEPT ![id] = "Completed"]
        /\ response' = [response EXCEPT ![id] = c]
        /\ Schedule(id, {"J"})
        /\ Answer(id, c)
  /\ UNCHANGED <<calls, onWire, told, doomed>>

\* handle_request for a request whose transaction exists.  Only a Completed
\* non-INVITE transaction has a final response to repeat; an INVITE server
\* transaction repeats nothing here, having stored no provisional response.
AbsorbRetransmission(id) ==
  /\ id \in NonInviteServer
  /\ state[id] = "Completed"
  /\ Answer(id, response[id])
  /\ UNCHANGED <<state, pending, response, calls, onWire, told, doomed>>

\* handle_ack.  An ACK repeated in Confirmed schedules Timer I once more.
ReceiveAck(id) ==
  /\ id \in InviteServer
  /\ state[id] \in {"Completed", "Confirmed"}
  /\ state' = [state EXCEPT ![id] = "Confirmed"]
  /\ Schedule(id, {"I"})
  /\ UNCHANGED <<response, calls, onWire, told, answers, doomed>>

-----------------------------------------------------------------------------
(* tick: one expired timer entry at a time.  Timers are never cancelled: an *)
(* entry acts on whatever transaction is stored under its id when it fires. *)

\* Mutant: only Timer A is scheduled again.
RepeatsInvite(id, t) == t = "A" /\ id \in InviteClient /\ state[id] = "Calling"

\* on_timer_a, on_timer_e and on_timer_g return true.
Repeats(id, t) ==
  \/ t = "A" /\ id \in InviteClient /\ state[id] = "Calling"
  \/ t = "E" /\ id \in NonInviteClient /\ state[id] \in {"Trying", "Proceeding"}
  \/ t = "G" /\ id \in InviteServer /\ state[id] = "Completed"

\* Mutant: Timer F also times out a transaction that has its answer.
GivesUpCompleted(id, t) ==
  t = "F" /\ id \in NonInviteClient /\ state[id] \in {"Trying", "Proceeding", "Completed"}

\* Mutant: Timer F is ignored once a provisional response arrived, and Timer B
\* is not handled.
GivesUpTrying(id, t) == t = "F" /\ id \in NonInviteClient /\ state[id] = "Trying"

\* on_timer_b, on_timer_f and on_timer_h report a timeout.
GivesUp(id, t) ==
  \/ t = "B" /\ id \in InviteClient /\ state[id] = "Calling"
  \/ t = "F" /\ id \in NonInviteClient /\ state[id] \in {"Trying", "Proceeding"}
  \/ t = "H" /\ id \in InviteServer /\ state[id] = "Completed"

\* Mutant: Timer D and Timer I do not end their transactions.
LapsesNonInvite(id, t) ==
  \/ t = "J" /\ id \in NonInviteServer /\ state[id] = "Completed"
  \/ t = "K" /\ id \in NonInviteClient /\ state[id] = "Completed"

\* on_timer_d, on_timer_i, on_timer_j and on_timer_k end the transaction.
Lapses(id, t) ==
  \/ t = "D" /\ id \in InviteClient /\ state[id] = "Completed"
  \/ t = "I" /\ id \in InviteServer /\ state[id] = "Confirmed"
  \/ t = "J" /\ id \in NonInviteServer /\ state[id] = "Completed"
  \/ t = "K" /\ id \in NonInviteClient /\ state[id] = "Completed"

\* The message is sent again and the same timer scheduled again.
Retransmit(id, t) ==
  /\ pending[id][t] > 0
  /\ Repeats(id, t)
  /\ \/ /\ id \in ClientId
        /\ onWire' \in {onWire, onWire \cup {id}}
        /\ UNCHANGED answers
     \/ /\ id \in ServerId
        /\ Answer(id, response[id])
        /\ UNCHANGED onWire
  /\ UNCHANGED <<state, pending, response, calls, told, doomed>>

TimeOut(id, t) ==
  /\ pending[id][t] > 0
  /\ GivesUp(id, t)
  /\ state' = [state EXCEPT ![id] = "Terminated"]
  /\ Consume(id, t)
  /\ \/ id \in ClientId /\ Tell(id, "timeout")
     \/ id \in ServerId /\ UNCHANGED told
  /\ UNCHANGED <<response, calls, onWire, answers, doomed>>

Expire(id, t) ==
  /\ pending[id][t] > 0
  /\ Lapses(id, t)
  /\ state' = [state EXCEPT ![id] = "Terminated"]
  /\ Consume(id, t)
  /\ UNCHANGED <<response, calls, onWire, told, answers, doomed>>

\* No transaction, or one in a state the timer does not concern.
Discard(id, t) ==
  /\ pending[id][t] > 0
  /\ ~ Repeats(id, t) /\ ~ GivesUp(id, t) /\ ~ Lapses(id, t)
  /\ Consume(id, t)
  /\ UNCHANGED <<state, response, calls, onWire, told, answers, doomed>>

Fire(id, t) == Retransmit(id, t) \/ TimeOut(id, t) \/ Expire(id, t) \/ Discard(id, t)

-----------------------------------------------------------------------------
(* cleanup_terminated, run by the tick loop: the keys are collected first   *)
(* and removed one at a time while other tasks run.                         *)


\* Mutant: Completed transactions are collected as well.
FinishedOrCompleted == {id \in Id : state[id] \in {"Completed", "Terminated"}}

\* Transaction::is_terminated.
Finished == {id \in Id : state[id] = "Terminated"}

Collect ==
  /\ doomed = {}
  /\ doomed' = Finished
  /\ doomed' # {}
  /\ UNCHANGED <<state, pending, response, calls, onWire, told, answers>>

Remove(id) ==
  /\ id \in doomed
  /\ state' = [state EXCEPT ![id] = "Absent"]
  /\ doomed' = doomed \ {id}
  /\ UNCHANGED <<pending, response, calls, onWire, told, answers>>

-----------------------------------------------------------------------------
Next ==
  \/ \E id \in ClientId :
       SendRequest(id) \/ InsertClient(id) \/ FirstTransmission(id)
  \/ \E id \in ServerId : ReceiveRequest(id) \/ InsertServer(id)
  \/ \E id \in ClientId, c \in Class :
       InviteResponse(id, c) \/ NonInviteResponse(id, c)
  \/ \E id \in ServerId, c \in Class :
       SendInviteAnswer(id, c) \/ SendNonInviteAnswer(id, c)
  \/ \E id \in ServerId : AbsorbRetransmission(id) \/ ReceiveAck(id)
  \/ \E id \in Id, t \in Timer : Fire(id, t)
  \/ Collect
  \/ \E id \in Id : Remove(id)

Spec == Init /\ [][Next]_vars

\* The calls in progress return, and start_transaction_tick_loop keeps calling
\* tick and cleanup_terminated.  Nothing is assumed of the network, of the peer
\* or of the user of a transaction.
Fairness ==
  /\ \A id \in ClientId : WF_vars(InsertClient(id)) /\ WF_vars(FirstTransmission(id))
  /\ \A id \in ServerId : WF_vars(InsertServer(id))
  /\ \A id \in Id, t \in Timer :
       WF_vars(TimeOut(id, t) \/ Expire(id, t) \/ Discard(id, t))
  /\ WF_vars(Collect)
  /\ \A id \in Id : WF_vars(Remove(id))

FairSpec == Spec /\ Fairness

-----------------------------------------------------------------------------
(* Properties                                                              *)

\* No transaction is left without the timer that is to end it: in every state
\* with a time limit the entry of the limiting timer is still in its queue
\* (tick, cleanup_terminated and the never-cancelled entries of manager.rs
\* must not lose it), and where the message is repeated so is the next
\* repetition.
TimersArmed ==
  /\ \A id \in InviteClient :
       /\ state[id] = "Calling" => pending[id]["A"] > 0 /\ pending[id]["B"] > 0
       /\ state[id] = "Completed" => pending[id]["D"] > 0
  /\ \A id \in NonInviteClient :
       /\ state[id] \in {"Trying", "Proceeding"} =>
            pending[id]["E"] > 0 /\ pending[id]["F"] > 0
       /\ state[id] = "Completed" => pending[id]["K"] > 0
  /\ \A id \in InviteServer :
       /\ state[id] = "Completed" => pending[id]["G"] > 0 /\ pending[id]["H"] > 0
       /\ state[id] = "Confirmed" => pending[id]["I"] > 0
  /\ \A id \in NonInviteServer :
       state[id] = "Completed" => pending[id]["J"] > 0

\* The test of max_transactions and the insertion it protects are two steps of
\* send_request and handle_request, so the limit can be passed, but by no more
\* than the other tasks that were between the two.
CapacityBound == Cardinality(Present) <= MaxTransactions + Tasks - 1

\* The stated limit: never more than max_transactions transactions
\* (docs/sip-transaction-layer.md, property 13).
LimitEnforced == Cardinality(Present) <= MaxTransactions

Settled(id) == told[id].response > 0 \/ told[id].timeout > 0

\* The user of a client transaction hears exactly one end of it: nothing before
\* the transaction is decided, never an answer after a timeout nor a timeout
\* after an answer, and no end of a transaction in silence, whatever races
\* between handle_response and tick.  A non-INVITE one reports its answer once.
OneOutcome ==
  \A id \in ClientId :
    /\ state[id] \in {"Calling", "Trying"} \cup
         (IF id \in InviteClient THEN {"Proceeding"} ELSE {}) => ~ Settled(id)
    /\ id \in NonInviteClient /\ state[id] = "Proceeding" => ~ Settled(id)
    /\ state[id] = "Completed" => told[id].response > 0
    /\ state[id] = "Terminated" => Settled(id)
    /\ ~ (told[id].response > 0 /\ told[id].timeout > 0)
    /\ told[id].timeout < 2
    /\ id \in NonInviteClient => told[id].response < 2

\* A non-INVITE server transaction puts one final response on the wire, the
\* first its user gave, whether it is sent, repeated for a retransmitted
\* request, or its user answers again (send_response and handle_request).
OneAnswer ==
  \A id \in NonInviteServer :
    state[id] # "Absent" => answers[id] \subseteq {response[id]}

\* An INVITE server transaction is answered once by its state machine: what
\* Timer G repeats is the answer that completed it, although send_response puts
\* every later final answer on the wire as well.
AnswerKept ==
  [][\A id \in InviteServer :
       state[id] \in {"Completed", "Confirmed"} => response'[id] = response[id]]_vars

\* cleanup_terminated removes by key what it collected earlier: no key it is
\* still to remove may belong to a transaction that is alive again.
CleanupSafe == \A id \in doomed : state[id] = "Terminated"

\* Order of the states of one transaction.
Rank == [Calling |-> 1, Trying |-> 1, Proceeding |-> 2, Completed |-> 3,
         Confirmed |-> 4, Terminated |-> 5, Absent |-> 6]

\* A stored transaction only moves forward, leaves the map only once
\* Terminated, and no insertion under the same key replaces a live one.
ForwardOnly ==
  [][\A id \in Id : state[id] # "Absent" =>
       \/ state'[id] = state[id]
       \/ Rank[state[id]] < Rank[state'[id]]
            /\ (state'[id] = "Absent" => state[id] = "Terminated")]_vars

\* A non-INVITE request is decided even if its transmission failed or every
\* datagram is lost: an answer or Timer F.
NonInviteSettles ==
  \A id \in NonInviteClient : state[id] = "Trying" ~> Settled(id)

\* An INVITE that nobody answers is decided by Timer B; only a provisional
\* response takes it out of the timers' reach.
InviteSettles ==
  \A id \in InviteClient :
    state[id] = "Calling" ~> Settled(id) \/ state[id] = "Proceeding"

-----------------------------------------------------------------------------
(* The client side of the manager implements ClientTransaction.            *)

\* A key is outstanding from the insertion to the event that ends it.
ClientPhase == [id \in ClientId |->
  IF id \notin used \/ id \in checked THEN "idle"
  ELSE IF state[id] = "Absent" THEN "released"
  ELSE IF Settled(id) THEN "decided"
  ELSE "outstanding"]

ClientHeard == [id \in ClientId |->
  {end \in {"response", "timeout"} : told[id][end] > 0}]

Client == INSTANCE ClientTransaction
            WITH Id <- ClientId, phase <- ClientPhase, heard <- ClientHeard

\* handle_response, tick and cleanup_terminated, interleaved with one another
\* and with send_request, show the user of a client transaction nothing but
\* the steps of ClientTransaction: one end per request, the same one whatever
\* arrives later, and a place that is given back once and for all.
ImplementsClientTransaction == Client!Spec

-----------------------------------------------------------------------------
(* The map and its limit implement Admission.                               *)

Table == INSTANCE Admission
           WITH Limit <- MaxTransactions, counted <- Present, entering <- checked

\* However send_request, handle_request, tick and cleanup_terminated interleave,
\* the map changes one entry at a time: an insertion that passed a check of its
\* own under a free key, or a removal of what is there.
ImplementsAdmission == Table!Spec

\* A transaction that has its final response releases its place in the map.
Released ==
  \A id \in Id :
    state[id] \in {"Completed", "Confirmed", "Terminated"} ~> state[id] = "Absent"
=============================================================================
