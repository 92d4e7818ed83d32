----------------------- MODULE TransactionRefinement -----------------------
(***************************************************************************)
(* TransactionManager implements ClientTransaction, for every set of       *)
(* transactions, every limit and any number of tasks: the initial states   *)
(* correspond, and every step is a step of ClientTransaction or invisible  *)
(* to it.  The inductive invariant of TransactionManagerProofs is used     *)
(* before each step.                                                       *)
(***************************************************************************)
EXTENDS TransactionManagerProofs

\* The phase of one client transaction and what its user heard.
PhaseOf(id) ==
  IF id \notin used \/ id \in checked THEN "idle"
  ELSE IF state[id] = "Absent" THEN "released"
  ELSE IF Settled(id) THEN "decided"
  ELSE "outstanding"

HeardOf(id) == {end \in {"response", "timeout"} : told[id][end] > 0}

LEMMA Mapping ==
  /\ ClientPhase = [id \in ClientId |-> PhaseOf(id)]
  /\ ClientHeard = [id \in ClientId |-> HeardOf(id)]
  /\ ClientPhase' = [id \in ClientId |-> PhaseOf(id)']
  /\ ClientHeard' = [id \in ClientId |-> HeardOf(id)']
BY DEF ClientPhase, ClientHeard, PhaseOf, HeardOf

\* Nothing that belongs to client transaction id changes.
Same(id) ==
  /\ id \in used' <=> id \in used
  /\ id \in checked' <=> id \in checked
  /\ state'[id] = state[id]
  /\ told'[id] = told[id]

LEMMA SameInvisible ==
  ASSUME NEW id \in ClientId, Same(id)
  PROVE  PhaseOf(id)' = PhaseOf(id) /\ HeardOf(id)' = HeardOf(id)
BY DEF Same, PhaseOf, HeardOf, Settled

\* A step that concerns one client transaction at most.
LEMMA OneChanges ==
  ASSUME NEW id \in ClientId, \A i \in ClientId \ {id} : Same(i)
  PROVE  /\ ClientPhase' = [ClientPhase EXCEPT ![id] = PhaseOf(id)']
         /\ ClientHeard' = [ClientHeard EXCEPT ![id] = HeardOf(id)']
<1>1. \A i \in ClientId \ {id} : PhaseOf(i)' = PhaseOf(i) /\ HeardOf(i)' = HeardOf(i)
  BY SameInvisible
<1> HIDE DEF PhaseOf, HeardOf
<1> QED
  BY <1>1, Mapping

LEMMA NoneChanges ==
  ASSUME \A i \in ClientId : PhaseOf(i)' = PhaseOf(i) /\ HeardOf(i)' = HeardOf(i)
  PROVE  UNCHANGED Client!vars
BY Mapping DEF Client!vars

\* The three visible steps.
LEMMA VisibleStep ==
  ASSUME NEW id \in ClientId, \A i \in ClientId \ {id} : Same(i),
         \/ PhaseOf(id) = "idle" /\ PhaseOf(id)' = "outstanding"
              /\ HeardOf(id)' = HeardOf(id)
         \/ PhaseOf(id) = "outstanding" /\ PhaseOf(id)' = "decided"
              /\ HeardOf(id)' \in {{"response"}, {"timeout"}}
         \/ PhaseOf(id) = "decided" /\ PhaseOf(id)' = "released"
              /\ HeardOf(id)' = HeardOf(id)
  PROVE  Client!Next
<1>1. /\ ClientPhase' = [ClientPhase EXCEPT ![id] = PhaseOf(id)']
      /\ ClientHeard' = [ClientHeard EXCEPT ![id] = HeardOf(id)']
  BY OneChanges
<1>2. ClientPhase[id] = PhaseOf(id) /\ ClientHeard[id] = HeardOf(id)
  BY Mapping
<1>3. ClientHeard = [ClientHeard EXCEPT ![id] = HeardOf(id)]
  BY Mapping
<1>4. CASE PhaseOf(id) = "idle" /\ PhaseOf(id)' = "outstanding" /\ HeardOf(id)' = HeardOf(id)
  BY <1>1, <1>2, <1>3, <1>4 DEF Client!Next, Client!Submit
<1>5. ASSUME NEW end \in {"response", "timeout"},
             PhaseOf(id) = "outstanding", PhaseOf(id)' = "decided", HeardOf(id)' = {end}
      PROVE  Client!Next
  <2>1. Client!Decide(id, end)
    BY <1>1, <1>2, <1>5 DEF Client!Decide
  <2> QED
    BY <2>1 DEF Client!Next, Client!End
<1>6. CASE PhaseOf(id) = "decided" /\ PhaseOf(id)' = "released" /\ HeardOf(id)' = HeardOf(id)
  BY <1>1, <1>2, <1>3, <1>6 DEF Client!Next, Client!Release
<1> QED
  BY <1>4, <1>5, <1>6

-----------------------------------------------------------------------------
\* A stored client transaction was submitted and is past the limit check.
LEMMA StoredIsSubmitted ==
  ASSUME IInv, NEW id \in ClientId, state[id] # "Absent"
  PROVE  id \in used /\ id \notin checked
BY DEF IInv, FreshOK

LEMMA SubmitSteps ==
  ASSUME IInv, NEW id \in ClientId,
         SendRequest(id) \/ InsertClient(id) \/ FirstTransmission(id)
  PROVE  [Client!Next]_(Client!vars)
<1>1. CASE SendRequest(id)
  <2>1. \A i \in ClientId \ {id} : Same(i)
    BY <1>1 DEF SendRequest, PassLimitCheck, Same
  <2>2. PhaseOf(id) = "idle" /\ PhaseOf(id)' = "idle" /\ HeardOf(id)' = HeardOf(id)
    BY <1>1 DEF SendRequest, PassLimitCheck, PhaseOf, HeardOf
  <2> QED
    BY <2>1, <2>2, SameInvisible, NoneChanges
<1>2. CASE InsertClient(id)
  <2>1. \A i \in ClientId \ {id} : Same(i)
    BY <1>2 DEF InsertClient, Same, IInv, TypeOK, Id
  <2>2. id \in used /\ told[id] = NoOutcome
    BY <1>2 DEF InsertClient, IInv, FreshOK
  <2>3. PhaseOf(id) = "idle" /\ HeardOf(id)' = HeardOf(id)
    BY <1>2 DEF InsertClient, PhaseOf, HeardOf
  <2>4. PhaseOf(id)' = "outstanding"
    BY <1>2, <2>2 DEF InsertClient, PhaseOf, Settled, NoOutcome, IInv, TypeOK, Id
  <2> QED
    BY <2>1, <2>3, <2>4, VisibleStep
<1>3. CASE FirstTransmission(id)
  <2>1. \A i \in ClientId : Same(i)
    BY <1>3 DEF FirstTransmission, Same
  <2> QED
    BY <2>1, SameInvisible, NoneChanges
<1> QED
  BY <1>1, <1>2, <1>3

\* An event reported while the transaction is outstanding decides it.
LEMMA TellDecides ==
  ASSUME IInv, NEW id \in ClientId, NEW end \in {"response", "timeout"},
         state[id] # "Absent", ~ Settled(id), Tell(id, end),
         NEW s \in State, s # "Absent", state' = [state EXCEPT ![id] = s],
         UNCHANGED <<used, checked>>
  PROVE  Client!Next
<1>1. \A i \in ClientId \ {id} : Same(i)
  BY TellFacts DEF Same, IInv, TypeOK, Id
<1>2. id \in used /\ id \notin checked
  BY StoredIsSubmitted
<1>3. told[id].response = 0 /\ told[id].timeout = 0
  BY DEF Settled, IInv, TypeOK, Outcome
<1>4. HeardOf(id)' = {end}
  BY <1>3, TellFacts DEF HeardOf, Bump, IInv
<1>5. Settled(id)'
  BY <1>3, TellFacts DEF Settled, Bump, IInv
<1>6. state'[id] = s
  BY DEF IInv, TypeOK, Id
<1>7. PhaseOf(id) = "outstanding" /\ PhaseOf(id)' = "decided"
  BY <1>2, <1>5, <1>6 DEF PhaseOf
<1> QED
  BY <1>1, <1>4, <1>7, VisibleStep

\* A stored transaction whose state changes while its user hears nothing new.
LEMMA SilentStep ==
  ASSUME IInv, NEW id \in ClientId, state[id] # "Absent",
         NEW s \in State, s # "Absent", state' = [state EXCEPT ![id] = s],
         UNCHANGED <<used, checked>>,
         \A i \in ClientId \ {id} : told'[i] = told[i],
         HeardOf(id)' = HeardOf(id), Settled(id)' = Settled(id)
  PROVE  UNCHANGED Client!vars
<1>1. \A i \in ClientId \ {id} : Same(i)
  BY DEF Same, IInv, TypeOK, Id
<1>2. PhaseOf(id)' = PhaseOf(id)
  BY StoredIsSubmitted DEF PhaseOf, IInv, TypeOK, Id
<1> QED
  BY <1>1, <1>2, SameInvisible, NoneChanges

LEMMA ResponseSteps ==
  ASSUME IInv, NEW id \in ClientId, NEW c \in Class,
         InviteResponse(id, c) \/ NonInviteResponse(id, c)
  PROVE  [Client!Next]_(Client!vars)
<1> USE DEF calls
<1>1. CASE InviteResponse(id, c) /\ state[id] # "Completed" /\ c # "1xx"
  <2>1. /\ state[id] \in {"Calling", "Proceeding"} /\ Tell(id, "response")
        /\ \E s \in {"Terminated", "Completed"} : state' = [state EXCEPT ![id] = s]
        /\ UNCHANGED <<used, checked>>
    BY <1>1 DEF InviteResponse
  <2>2. ~ Settled(id)
    BY <1>1, <2>1 DEF InviteResponse, IInv, OneOutcome
  <2> QED
    BY <2>1, <2>2, TellDecides DEF State
<1>2. CASE InviteResponse(id, c) /\ state[id] = "Completed"
  <2>1. /\ c = "3xx" /\ Tell(id, "response") /\ UNCHANGED <<used, checked>>
        /\ state' = [state EXCEPT ![id] = "Completed"]
    BY <1>2 DEF InviteResponse
  <2>2. told[id].response > 0 /\ told[id].response \in 0..2 /\ told[id].timeout \in 0..2
    BY <1>2 DEF IInv, OneOutcome, TypeOK, Outcome
  <2>3. /\ told'[id].response > 0 /\ told'[id].timeout = told[id].timeout
        /\ \A i \in ClientId \ {id} : told'[i] = told[i]
    BY <2>1, <2>2, TellFacts DEF Bump, IInv
  <2>4. HeardOf(id)' = HeardOf(id)
    BY <2>2, <2>3 DEF HeardOf
  <2>5. Settled(id)' = Settled(id)
    BY <2>2, <2>3 DEF Settled
  <2> QED
    BY <1>2, <2>1, <2>3, <2>4, <2>5, SilentStep DEF State
<1>3. CASE c = "1xx"
  <2>1. /\ state[id] \in {"Calling", "Trying"} /\ UNCHANGED <<used, checked>>
        /\ state' = [state EXCEPT ![id] = "Proceeding"]
        /\ UNCHANGED told \/ Tell(id, "provisional")
    BY <1>3 DEF InviteResponse, NonInviteResponse, Final
  <2>2. /\ told'[id].response = told[id].response /\ told'[id].timeout = told[id].timeout
        /\ \A i \in ClientId \ {id} : told'[i] = told[i]
    BY <2>1, TellFacts DEF IInv
  <2>3. HeardOf(id)' = HeardOf(id) /\ Settled(id)' = Settled(id)
    BY <2>2 DEF HeardOf, Settled
  <2> QED
    BY <2>1, <2>2, <2>3, SilentStep DEF State
<1>4. CASE NonInviteResponse(id, c) /\ c # "1xx"
  <2>1. /\ id \in NonInviteClient /\ state[id] \in {"Trying", "Proceeding"}
        /\ Tell(id, "response") /\ UNCHANGED <<used, checked>>
        /\ state' = [state EXCEPT ![id] = "Completed"]
    BY <1>4 DEF NonInviteResponse
  <2>2. ~ Settled(id)
    BY <2>1 DEF IInv, OneOutcome
  <2> QED
    BY <2>1, <2>2, TellDecides DEF State
<1> QED
  BY <1>1, <1>2, <1>3, <1>4

LEMMA TimerSteps ==
  ASSUME IInv, NEW id \in Id, NEW t \in Timer, Fire(id, t)
  PROVE  [Client!Next]_(Client!vars)
<1> USE DEF calls
<1>1. CASE id \notin ClientId
  <2>1. id \in ServerId
    BY <1>1 DEF Id
  <2>2. \A i \in ClientId : Same(i)
    BY <1>1, <2>1 DEF Fire, Retransmit, TimeOut, Expire, Discard, Same, IInv, TypeOK, Id
  <2> QED
    BY <2>2, SameInvisible, NoneChanges
<1>2. CASE id \in ClientId /\ TimeOut(id, t)
  <2> id \notin ServerId
    BY <1>2, IdAssumption
  <2>1. /\ UNCHANGED <<used, checked>>
        /\ state[id] \in {"Calling", "Trying", "Proceeding"}
        /\ state[id] = "Proceeding" => id \in NonInviteClient
        /\ state' = [state EXCEPT ![id] = "Terminated"]
        /\ Tell(id, "timeout")
    BY <1>2 DEF TimeOut, GivesUp, ServerId
  <2>2. ~ Settled(id)
    BY <1>2, <2>1 DEF IInv, OneOutcome
  <2> QED
    BY <1>2, <2>1, <2>2, TellDecides DEF State
<1>3. CASE id \in ClientId /\ Expire(id, t)
  <2>1. /\ UNCHANGED <<used, checked, told>> /\ state[id] # "Absent"
        /\ state' = [state EXCEPT ![id] = "Terminated"]
    BY <1>3 DEF Expire, Lapses
  <2>2. HeardOf(id)' = HeardOf(id) /\ Settled(id)' = Settled(id)
    BY <2>1 DEF HeardOf, Settled
  <2> QED
    BY <1>3, <2>1, <2>2, SilentStep DEF State
<1>4. CASE Retransmit(id, t) \/ Discard(id, t)
  <2>1. \A i \in ClientId : Same(i)
    BY <1>4 DEF Retransmit, Discard, Same
  <2> QED
    BY <2>1, SameInvisible, NoneChanges
<1> QED
  BY <1>1, <1>2, <1>3, <1>4 DEF Fire

LEMMA RemoveSteps ==
  ASSUME IInv, NEW id \in Id, Remove(id)
  PROVE  [Client!Next]_(Client!vars)
<1> USE DEF calls
<1>1. \A i \in ClientId \ {id} : Same(i)
  BY DEF Remove, Same, IInv, TypeOK
<1>2. CASE id \in ClientId
  <2>1. state[id] = "Terminated" /\ Settled(id)
    BY <1>2 DEF Remove, IInv, CleanupSafe, OneOutcome
  <2>2. id \in used /\ id \notin checked
    BY <1>2, <2>1, StoredIsSubmitted
  <2>3. PhaseOf(id) = "decided"
    BY <2>1, <2>2 DEF PhaseOf
  <2>4. PhaseOf(id)' = "released" /\ HeardOf(id)' = HeardOf(id)
    BY <2>2 DEF Remove, PhaseOf, HeardOf, IInv, TypeOK
  <2> QED
    BY <1>1, <1>2, <2>3, <2>4, VisibleStep
<1>3. CASE id \notin ClientId
  BY <1>1, <1>3, SameInvisible, NoneChanges
<1> QED
  BY <1>2, <1>3

LEMMA ServerSteps ==
  ASSUME IInv, NEW id \in ServerId, NEW c \in Class,
         \/ ReceiveRequest(id) \/ InsertServer(id)
         \/ SendInviteAnswer(id, c) \/ SendNonInviteAnswer(id, c)
         \/ AbsorbRetransmission(id) \/ ReceiveAck(id)
  PROVE  UNCHANGED Client!vars
<1> USE DEF calls
<1>1. id \notin ClientId
  BY IdAssumption
<1>2. \A i \in ClientId : Same(i)
  BY <1>1 DEF ReceiveRequest, PassLimitCheck, InsertServer, SendInviteAnswer,
     SendNonInviteAnswer, AbsorbRetransmission, ReceiveAck, Same, IInv, TypeOK, Id
<1> QED
  BY <1>2, SameInvisible, NoneChanges

LEMMA ClientInit == Init => Client!Init
<1> SUFFICES ASSUME Init PROVE Client!Init
  OBVIOUS
<1>1. ClientPhase = [id \in ClientId |-> "idle"]
  BY DEF Init, ClientPhase
<1>2. ClientHeard = [id \in ClientId |-> {}]
  BY DEF Init, ClientHeard, NoOutcome
<1> QED
  BY <1>1, <1>2 DEF Client!Init

LEMMA ClientNext == IInv /\ [Next]_vars => [Client!Next]_(Client!vars)
<1> SUFFICES ASSUME IInv, [Next]_vars PROVE [Client!Next]_(Client!vars)
  OBVIOUS
<1>1. CASE UNCHANGED vars
  <2>1. \A i \in ClientId : Same(i)
    BY <1>1 DEF vars, Same
  <2> QED
    BY <2>1, SameInvisible, NoneChanges
<1>2. ASSUME NEW id \in ServerId, ReceiveRequest(id) \/ InsertServer(id)
             \/ AbsorbRetransmission(id) \/ ReceiveAck(id)
      PROVE  UNCHANGED Client!vars
  BY <1>2, ServerSteps DEF Class
<1>3. CASE Collect
  <2>1. \A i \in ClientId : Same(i)
    BY <1>3 DEF Collect, Same, calls
  <2> QED
    BY <2>1, SameInvisible, NoneChanges
<1> QED
  BY <1>1, <1>2, <1>3, SubmitSteps, ResponseSteps, ServerSteps, TimerSteps, RemoveSteps
  DEF Next

\* Safety of ImplementsClientTransaction: whatever handle_response, tick,
\* cleanup_terminated and send_request do at the same time, the user of a client
\* transaction sees the steps of ClientTransaction only.
THEOREM ClientSideImplemented == Spec => Client!Safe
BY ClientInit, ClientNext, InductiveInvariant, PTL DEF Spec, Client!Safe

-----------------------------------------------------------------------------
(* The map and its limit implement Admission.                               *)

LEMMA SameCardinality == \A S : Table!Cardinality(S) = Cardinality(S)
BY DEF Cardinality, Table!Cardinality

\* The keys of the map and those that passed the check do not change.
Still == Present' = Present /\ checked' = checked

LEMMA StillInvisible == Still => UNCHANGED Table!vars
BY DEF Still, Table!vars

\* A stored transaction that changes its state stays in the map.
LEMMA StillStored ==
  ASSUME IInv, NEW id \in Id, state[id] # "Absent", NEW s \in State, s # "Absent",
         state' = [state EXCEPT ![id] = s], checked' = checked
  PROVE  Still
BY DEF IInv, TypeOK, Present, Still

\* The check of send_request and of handle_request.
LEMMA CheckEnters ==
  ASSUME IInv, NEW id \in Id, state[id] = "Absent", PassLimitCheck(id), UNCHANGED state
  PROVE  Table!Next
<1>1. Present' = Present /\ id \notin Present
  BY DEF Present
<1>2. id \notin checked
  BY DEF PassLimitCheck, Busy
<1>3. Cardinality(checked) < Tasks
  BY CheckedFinite, LimitAssumption DEF IInv, PassLimitCheck
<1>4. Table!Enter(id)
  BY <1>1, <1>2, <1>3, SameCardinality DEF Table!Enter, PassLimitCheck
<1> QED
  BY <1>4 DEF Table!Next

\* The insertion, for which the key is still free.
LEMMA InsertionAdmits ==
  ASSUME IInv, NEW id \in checked, NEW s \in State, s # "Absent",
         state' = [state EXCEPT ![id] = s], checked' = checked \ {id}
  PROVE  Table!Next
<1>1. id \in Id
  BY DEF IInv, TypeOK
<1>2. Present' = Present \cup {id}
  BY <1>1 DEF IInv, TypeOK, Present
<1>3. Table!Admit(id)
  BY <1>2 DEF Table!Admit
<1> QED
  BY <1>1, <1>3 DEF Table!Next

LEMMA RemovalLeaves ==
  ASSUME IInv, NEW id \in Id, Remove(id)
  PROVE  Table!Next
<1>1. state[id] = "Terminated"
  BY DEF Remove, IInv, CleanupSafe
<1>2. id \in Present /\ Present' = Present \ {id}
  BY <1>1 DEF Remove, IInv, TypeOK, Present
<1>3. Table!Leave(id)
  BY <1>2 DEF Table!Leave, Remove, calls
<1> QED
  BY <1>3 DEF Table!Next

LEMMA TableStep == IInv /\ [Next]_vars => [Table!Next]_(Table!vars)
<1> SUFFICES ASSUME IInv, [Next]_vars PROVE Table!Next \/ Still
  BY StillInvisible
<1> USE DEF calls
<1>1. CASE \/ UNCHANGED vars \/ Collect
           \/ \E id \in ClientId : FirstTransmission(id)
           \/ \E id \in ServerId : AbsorbRetransmission(id)
           \/ \E id \in Id, t \in Timer : Retransmit(id, t) \/ Discard(id, t)
  BY <1>1 DEF vars, Collect, FirstTransmission, AbsorbRetransmission, Retransmit, Discard,
              Still, Present
<1>2. ASSUME NEW id \in ClientId, SendRequest(id)
      PROVE  Table!Next
  <2>1. state[id] = "Absent" /\ PassLimitCheck(id) /\ UNCHANGED state /\ id \in Id
    BY <1>2 DEF SendRequest, IInv, FreshOK, Id
  <2> QED
    BY <2>1, CheckEnters
<1>3. ASSUME NEW id \in ServerId, ReceiveRequest(id)
      PROVE  Table!Next
  BY <1>3, CheckEnters DEF ReceiveRequest, Id
<1>4. ASSUME NEW id \in ClientId, InsertClient(id)
      PROVE  Table!Next
  BY <1>4, InsertionAdmits DEF InsertClient, State
<1>5. ASSUME NEW id \in ServerId, InsertServer(id)
      PROVE  Table!Next
  BY <1>5, InsertionAdmits DEF InsertServer, State
<1>6. ASSUME NEW id \in ClientId, NEW c \in Class,
             InviteResponse(id, c) \/ NonInviteResponse(id, c)
      PROVE  Still
  <2>1. /\ id \in Id /\ state[id] # "Absent" /\ checked' = checked
        /\ \E s \in {"Proceeding", "Completed", "Terminated"} :
             state' = [state EXCEPT ![id] = s]
    BY <1>6 DEF InviteResponse, NonInviteResponse, Id
  <2> QED
    BY <2>1, StillStored DEF State
<1>7. ASSUME NEW id \in ServerId, NEW c \in Class,
             SendInviteAnswer(id, c) \/ SendNonInviteAnswer(id, c)
      PROVE  Still
  <2>1. /\ id \in Id /\ state[id] # "Absent" /\ checked' = checked
        /\ \/ UNCHANGED state
           \/ \E s \in {"Proceeding", "Completed", "Terminated"} :
                state' = [state EXCEPT ![id] = s]
    BY <1>7 DEF SendInviteAnswer, SendNonInviteAnswer, AwaitsAnswer, Id
  <2> QED
    BY <2>1, StillStored DEF State, Still, Present
<1>8. ASSUME NEW id \in ServerId, ReceiveAck(id)
      PROVE  Still
  BY <1>8, StillStored DEF ReceiveAck, Id, State
<1>9. ASSUME NEW id \in Id, NEW t \in Timer, TimeOut(id, t) \/ Expire(id, t)
      PROVE  Still
  <2>1. state[id] # "Absent" /\ checked' = checked
        /\ state' = [state EXCEPT ![id] = "Terminated"]
    BY <1>9 DEF TimeOut, Expire, GivesUp, Lapses
  <2> QED
    BY <2>1, StillStored DEF State
<1> QED
  BY <1>1, <1>2, <1>3, <1>4, <1>5, <1>6, <1>7, <1>8, <1>9, RemovalLeaves DEF Next, Fire

\* The map of the transactions is a table with a limit that is checked first and
\* filled later: no interleaving of send_request, handle_request, tick and
\* cleanup_terminated inserts a key without a check of its own, or over a live one.
THEOREM LimitAsStated == Spec => ImplementsAdmission
<1>1. Init => Table!Init
  BY DEF Init, Table!Init, Present
<1> QED
  BY <1>1, TableStep, InductiveInvariant, PTL DEF Spec, ImplementsAdmission, Table!Spec

-----------------------------------------------------------------------------
\* What an INVITE server transaction repeats for Timer G is the answer that
\* completed it, whatever send_response is asked to send later.
THEOREM AnswerStaysKept == Spec => AnswerKept
<1> DEFINE Keeps(id) == state[id] \in {"Completed", "Confirmed"} => response'[id] = response[id]
<1>1. ASSUME IInv, Next, NEW i \in InviteServer, state[i] \in {"Completed", "Confirmed"}
      PROVE  response'[i] = response[i]
  <2>1. ASSUME NEW id \in ServerId, InsertServer(id)
        PROVE  response'[i] = response[i]
    <3>1. state[id] = "Absent"
      BY <1>1, <2>1 DEF InsertServer, IInv, FreshOK
    <3> QED
      BY <1>1, <2>1, <3>1 DEF InsertServer, IInv, TypeOK, Id, ServerId
  <2>2. ASSUME NEW id \in ServerId, NEW c \in Class,
               SendInviteAnswer(id, c) \/ SendNonInviteAnswer(id, c)
        PROVE  response'[i] = response[i]
    <3>1. i \notin NonInviteServer
      BY IdAssumption
    <3>2. CASE SendInviteAnswer(id, c)
      BY <1>1, <3>2 DEF SendInviteAnswer, IInv, TypeOK, Id, ServerId
    <3>3. CASE SendNonInviteAnswer(id, c)
      <4>1. i # id
        BY <3>1, <3>3 DEF SendNonInviteAnswer
      <4> QED
        BY <4>1, <3>3, <1>1 DEF SendNonInviteAnswer, IInv, TypeOK, Id, ServerId
    <3> QED
      BY <2>2, <3>2, <3>3
  <2> QED
    BY <1>1, <2>1, <2>2
    DEF Next, SendRequest, InsertClient, FirstTransmission, ReceiveRequest, InviteResponse,
        NonInviteResponse, AbsorbRetransmission, ReceiveAck, Fire, Retransmit, TimeOut,
        Expire, Discard, Collect, Remove
<1>2. IInv /\ [Next]_vars => [\A id \in InviteServer : Keeps(id)]_vars
  BY <1>1
<1> QED
  BY <1>2, InductiveInvariant, PTL DEF Spec, AnswerKept
=============================================================================
