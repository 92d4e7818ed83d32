---------------------- MODULE TransactionManagerProofs ----------------------
(***************************************************************************)
(* Safety of TransactionManager for every set of transactions, every limit *)
(* and any number of tasks: the invariants checked by the TM_* runs,       *)
(* through one inductive invariant.                                        *)
(***************************************************************************)
EXTENDS TransactionManager, FiniteSetTheorems, TLAPS

USE IdAssumption, LimitAssumption

\* The states that belong to some of the four state machines only.
KindOK ==
  \A id \in Id :
    /\ state[id] = "Calling" => id \in InviteClient
    /\ state[id] = "Trying" => id \in NonInviteClient \cup NonInviteServer
    /\ state[id] = "Confirmed" => id \in InviteServer

\* A transaction about to be inserted finds no transaction under its key, and
\* a client key that was not used has no history.
FreshOK ==
  /\ \A id \in checked : state[id] = "Absent"
  /\ \A id \in checked \cap ClientId : id \in used /\ told[id] = NoOutcome
  /\ \A id \in ClientId : id \notin used => state[id] = "Absent" /\ told[id] = NoOutcome

\* A server transaction that repeats its final response has one, and a
\* non-INVITE one sends nothing final before it is Completed.
StoredOK ==
  /\ \A id \in ServerId : state[id] = "Completed" => response[id] \in Final
  /\ \A id \in NonInviteServer :
       state[id] \in {"Trying", "Proceeding"} => answers[id] = {}

\* The entries in the map and those about to be inserted, together.
SlotsOK == Cardinality(Present) + Cardinality(checked) <= MaxTransactions + Tasks - 1

IInv ==
  /\ TypeOK
  /\ KindOK
  /\ FreshOK
  /\ StoredOK
  /\ TimersArmed
  /\ OneOutcome
  /\ OneAnswer
  /\ CleanupSafe
  /\ SlotsOK

-----------------------------------------------------------------------------
\* What schedule_timer_* does to the queues.
LEMMA ScheduleFacts ==
  ASSUME TypeOK, NEW id \in Id, NEW T \in SUBSET Timer, Schedule(id, T)
  PROVE  /\ pending' \in [Id -> [Timer -> 0..MaxPending]]
         /\ \A i \in Id, t \in Timer : pending[i][t] > 0 => pending'[i][t] > 0
         /\ \A t \in T : pending'[id][t] > 0
BY DEF TypeOK, Schedule

\* What the consumption of one entry does to the queues.
LEMMA ConsumeFacts ==
  ASSUME TypeOK, NEW id \in Id, NEW t \in Timer, pending[id][t] > 0, Consume(id, t)
  PROVE  /\ pending' \in [Id -> [Timer -> 0..MaxPending]]
         /\ \A i \in Id, u \in Timer : i # id \/ u # t => pending'[i][u] = pending[i][u]
BY DEF TypeOK, Consume

\* A reported event is counted, saturating, and nothing else changes.
LEMMA TellFacts ==
  ASSUME TypeOK, NEW id \in ClientId, NEW event \in {"provisional", "response", "timeout"},
         Tell(id, event)
  PROVE  /\ told' \in [ClientId -> Outcome]
         /\ \A i \in ClientId : i # id => told'[i] = told[i]
         /\ \A e \in {"provisional", "response", "timeout"} :
              told'[id][e] = IF e = event THEN Bump(told[id][e]) ELSE told[id][e]
BY DEF TypeOK, Tell, Outcome, Bump

LEMMA InitIInv == Init => IInv
<1> SUFFICES ASSUME Init PROVE IInv
  OBVIOUS
<1>1. Present = {} /\ checked = {}
  BY DEF Init, Present
<1>2. SlotsOK
  BY <1>1, FS_EmptySet DEF SlotsOK
<1>3. TypeOK
  BY DEF Init, TypeOK, State, Outcome, NoOutcome
<1>4. KindOK /\ FreshOK /\ StoredOK /\ CleanupSafe /\ OneAnswer /\ TimersArmed
  BY DEF Init, KindOK, FreshOK, StoredOK, CleanupSafe, OneAnswer, TimersArmed, Id,
         ClientId, ServerId
<1>5. OneOutcome
  BY DEF Init, OneOutcome, Settled, NoOutcome, Id, ClientId
<1> QED
  BY <1>2, <1>3, <1>4, <1>5 DEF IInv

-----------------------------------------------------------------------------
(* Counting transactions.                                                  *)

LEMMA PresentFinite ==
  /\ IsFiniteSet(Present) /\ Cardinality(Present) \in Nat
  /\ IsFiniteSet(Present') /\ Cardinality(Present') \in Nat
BY FS_Subset, FS_CardinalityType DEF Present

LEMMA CheckedFinite ==
  ASSUME TypeOK
  PROVE  /\ IsFiniteSet(checked) /\ Cardinality(checked) \in Nat
         /\ IsFiniteSet(Busy) /\ Cardinality(Busy) \in Nat
         /\ Cardinality(checked) <= Cardinality(Busy)
<1>1. checked \subseteq Id /\ Busy \subseteq Id /\ checked \subseteq Busy
  BY DEF TypeOK, Busy, Id
<1> QED
  BY <1>1, FS_Subset, FS_CardinalityType

\* A step that starts no transaction keeps the count.
LEMMA SlotsKept ==
  ASSUME TypeOK, SlotsOK, checked' = checked, Present' \subseteq Present
  PROVE  SlotsOK'
<1>1. Cardinality(Present') <= Cardinality(Present)
  BY PresentFinite, FS_Subset
<1> QED
  BY <1>1, PresentFinite, CheckedFinite DEF SlotsOK

\* The limit check takes one of the free slots.
LEMMA SlotsCheck ==
  ASSUME TypeOK, NEW id \in Id, PassLimitCheck(id), state' = state
  PROVE  SlotsOK'
<1>1. Present' = Present
  BY DEF Present
<1>2. id \notin checked
  BY DEF PassLimitCheck, Busy
<1>3. Cardinality(checked') = Cardinality(checked) + 1
  BY <1>2, CheckedFinite, FS_AddElement DEF PassLimitCheck
<1>4. Cardinality(checked') <= Tasks
  BY <1>3, CheckedFinite DEF PassLimitCheck
<1>5. Cardinality(Present) <= MaxTransactions - 1
  BY PresentFinite DEF PassLimitCheck
<1> QED
  BY <1>1, <1>3, <1>4, <1>5, PresentFinite, CheckedFinite DEF SlotsOK

\* An insertion moves one transaction from the checked ones to the map.
LEMMA SlotsInsert ==
  ASSUME TypeOK, SlotsOK, NEW id \in checked, NEW s,
         state' = [state EXCEPT ![id] = s], checked' = checked \ {id}
  PROVE  SlotsOK'
<1>1. Present' \subseteq Present \cup {id}
  BY DEF Present, TypeOK
<1>2. /\ IsFiniteSet(Present \cup {id})
      /\ Cardinality(Present \cup {id}) =
           IF id \in Present THEN Cardinality(Present) ELSE Cardinality(Present) + 1
  BY PresentFinite, FS_AddElement
<1>3. Cardinality(Present') <= Cardinality(Present) + 1
  BY <1>1, <1>2, PresentFinite, FS_Subset
<1>4. Cardinality(checked') = Cardinality(checked) - 1
  BY CheckedFinite, FS_RemoveElement
<1> QED
  BY <1>3, <1>4, PresentFinite, CheckedFinite DEF SlotsOK

-----------------------------------------------------------------------------
(* Every action preserves the inductive invariant.                         *)

LEMMA SendRequestStep ==
  ASSUME IInv, NEW id \in ClientId, SendRequest(id)
  PROVE  IInv'
<1> USE DEF IInv, SendRequest
<1>1. id \in Id /\ checked' = checked \cup {id}
  BY DEF Id, PassLimitCheck
<1>2. TypeOK'
  BY <1>1 DEF TypeOK
<1>3. FreshOK'
  BY <1>1 DEF FreshOK
<1>4. SlotsOK'
  BY <1>1, SlotsCheck
<1>5. (KindOK /\ StoredOK /\ TimersArmed /\ OneOutcome /\ OneAnswer /\ CleanupSafe)'
  BY DEF KindOK, StoredOK, TimersArmed, OneOutcome, Settled, OneAnswer, CleanupSafe
<1> QED
  BY <1>2, <1>3, <1>4, <1>5

LEMMA InsertClientStep ==
  ASSUME IInv, NEW id \in ClientId, InsertClient(id)
  PROVE  IInv'
<1> USE DEF IInv, InsertClient
<1>1. /\ id \in Id /\ id \in checked
      /\ checked' = checked \ {id}
      /\ \/ id \in InviteClient /\ state' = [state EXCEPT ![id] = "Calling"]
              /\ Schedule(id, {"A", "B"})
         \/ id \in NonInviteClient /\ state' = [state EXCEPT ![id] = "Trying"]
              /\ Schedule(id, {"E", "F"})
  BY DEF Id
<1>2. /\ pending' \in [Id -> [Timer -> 0..MaxPending]]
      /\ \A i \in Id, t \in Timer : pending[i][t] > 0 => pending'[i][t] > 0
      /\ id \in InviteClient => pending'[id]["A"] > 0 /\ pending'[id]["B"] > 0
      /\ id \in NonInviteClient => pending'[id]["E"] > 0 /\ pending'[id]["F"] > 0
  <2>1. {"A", "B"} \in SUBSET Timer /\ {"E", "F"} \in SUBSET Timer
    BY DEF Timer
  <2> QED
    BY <1>1, <2>1, ScheduleFacts
<1>3. TypeOK'
  BY <1>1, <1>2 DEF TypeOK, State
<1>4. KindOK'
  BY <1>1 DEF KindOK, TypeOK
<1>5. FreshOK' /\ StoredOK' /\ OneAnswer' /\ CleanupSafe'
  BY <1>1 DEF FreshOK, StoredOK, OneAnswer, CleanupSafe, TypeOK, Id, ClientId, ServerId
<1>6. TimersArmed'
  BY <1>1, <1>2 DEF TimersArmed, TypeOK, Id, ClientId, ServerId, Timer
<1>7. OneOutcome'
  BY <1>1 DEF OneOutcome, FreshOK, Settled, NoOutcome, TypeOK, Id
<1>8. SlotsOK'
  BY <1>1, SlotsInsert
<1> QED
  BY <1>3, <1>4, <1>5, <1>6, <1>7, <1>8

LEMMA FirstTransmissionStep ==
  ASSUME IInv, NEW id \in ClientId, FirstTransmission(id)
  PROVE  IInv'
<1> USE DEF IInv, FirstTransmission
<1>1. TypeOK'
  BY DEF TypeOK
<1>2. SlotsOK'
  BY DEF SlotsOK, Present
<1>3. (KindOK /\ FreshOK /\ StoredOK /\ TimersArmed /\ OneOutcome /\ OneAnswer /\ CleanupSafe)'
  BY DEF KindOK, FreshOK, StoredOK, TimersArmed, OneOutcome, Settled, OneAnswer, CleanupSafe
<1> QED
  BY <1>1, <1>2, <1>3

LEMMA ReceiveRequestStep ==
  ASSUME IInv, NEW id \in ServerId, ReceiveRequest(id)
  PROVE  IInv'
<1> USE DEF IInv, ReceiveRequest
<1>1. id \in Id /\ id \notin ClientId /\ checked' = checked \cup {id}
  BY DEF Id, PassLimitCheck
<1>2. TypeOK'
  BY <1>1 DEF TypeOK
<1>3. FreshOK'
  BY <1>1 DEF FreshOK
<1>4. SlotsOK'
  BY <1>1, SlotsCheck
<1>5. (KindOK /\ StoredOK /\ TimersArmed /\ OneOutcome /\ OneAnswer /\ CleanupSafe)'
  BY DEF KindOK, StoredOK, TimersArmed, OneOutcome, Settled, OneAnswer, CleanupSafe
<1> QED
  BY <1>2, <1>3, <1>4, <1>5

LEMMA InsertServerStep ==
  ASSUME IInv, NEW id \in ServerId, InsertServer(id)
  PROVE  IInv'
<1> USE DEF IInv, InsertServer
<1>1. /\ id \in Id /\ id \in checked /\ state[id] = "Absent"
      /\ checked' = checked \ {id}
      /\ \/ id \in InviteServer /\ state' = [state EXCEPT ![id] = "Proceeding"]
         \/ id \in NonInviteServer /\ state' = [state EXCEPT ![id] = "Trying"]
  BY DEF Id, ServerId, FreshOK
<1>2. TypeOK'
  BY <1>1 DEF TypeOK, State
<1>3. KindOK'
  BY <1>1 DEF KindOK, TypeOK
<1>4. FreshOK' /\ CleanupSafe'
  BY <1>1 DEF FreshOK, CleanupSafe, TypeOK, Id, ClientId, ServerId
<1>5. StoredOK' /\ OneAnswer'
  BY <1>1 DEF StoredOK, OneAnswer, TypeOK, Id, ServerId
<1>6. TimersArmed'
  BY <1>1 DEF TimersArmed, TypeOK, Id, ClientId, ServerId
<1>7. OneOutcome'
  BY <1>1 DEF OneOutcome, Settled, TypeOK, Id
<1>8. SlotsOK'
  BY <1>1, SlotsInsert
<1> QED
  BY <1>2, <1>3, <1>4, <1>5, <1>6, <1>7, <1>8

\* No transaction appears when a stored one changes its state.
LEMMA PresentKept ==
  ASSUME TypeOK, NEW id \in Id, state[id] # "Absent", NEW s \in State,
         state' = [state EXCEPT ![id] = s]
  PROVE  Present' \subseteq Present
BY DEF TypeOK, Present

LEMMA InviteResponseStep ==
  ASSUME IInv, NEW id \in ClientId, NEW c \in Class, InviteResponse(id, c)
  PROVE  IInv'
<1> USE DEF IInv, InviteResponse, calls
<1>1. PICK s \in {"Proceeding", "Completed", "Terminated"} :
        /\ state' = [state EXCEPT ![id] = s]
        /\ s = "Proceeding" => state[id] = "Calling"
                                 /\ UNCHANGED <<pending, told>>
        /\ s = "Terminated" => /\ state[id] \in {"Calling", "Proceeding"}
                               /\ Tell(id, "response") /\ UNCHANGED pending
        /\ s = "Completed" => /\ state[id] \in {"Calling", "Proceeding", "Completed"}
                              /\ Tell(id, "response") /\ Schedule(id, {"D"})
  OBVIOUS
<1>2. /\ id \in Id /\ id \in InviteClient /\ id \notin NonInviteClient
      /\ id \notin ServerId /\ state[id] # "Absent"
  BY <1>1 DEF Id
<1>3. /\ pending' \in [Id -> [Timer -> 0..MaxPending]]
      /\ \A i \in Id, t \in Timer : pending[i][t] > 0 => pending'[i][t] > 0
      /\ s = "Completed" => pending'[id]["D"] > 0
  <2>1. {"D"} \in SUBSET Timer
    BY DEF Timer
  <2> QED
    BY <1>1, <1>2, <2>1, ScheduleFacts DEF TypeOK
<1>4. /\ told' \in [ClientId -> Outcome]
      /\ \A i \in ClientId : i # id => told'[i] = told[i]
      /\ s = "Proceeding" => told'[id] = told[id]
      /\ s # "Proceeding" => /\ told'[id]["response"] > 0
                             /\ told'[id]["timeout"] = told[id]["timeout"]
  BY <1>1, TellFacts DEF TypeOK, Outcome, Bump
<1>5. TypeOK'
  BY <1>1, <1>3, <1>4 DEF TypeOK, State
<1>6. KindOK'
  BY <1>1 DEF KindOK, TypeOK
<1>7. FreshOK' /\ StoredOK' /\ OneAnswer' /\ CleanupSafe'
  BY <1>1, <1>2, <1>4 DEF FreshOK, StoredOK, OneAnswer, CleanupSafe, TypeOK, Id, ServerId
<1>8. TimersArmed'
  BY <1>1, <1>2, <1>3 DEF TimersArmed, TypeOK, Id, ClientId, ServerId, Timer
<1>9. OneOutcome'
  BY <1>1, <1>2, <1>4 DEF OneOutcome, Settled, TypeOK, Id, ClientId, Outcome
<1>10. SlotsOK'
  BY <1>1, <1>2, PresentKept, SlotsKept DEF State
<1> QED
  BY <1>5, <1>6, <1>7, <1>8, <1>9, <1>10

LEMMA NonInviteResponseStep ==
  ASSUME IInv, NEW id \in ClientId, NEW c \in Class, NonInviteResponse(id, c)
  PROVE  IInv'
<1> USE DEF IInv, NonInviteResponse, calls
<1>1. PICK s \in {"Proceeding", "Completed"} :
        /\ state' = [state EXCEPT ![id] = s]
        /\ s = "Proceeding" => /\ state[id] = "Trying"
                               /\ Tell(id, "provisional") /\ UNCHANGED pending
        /\ s = "Completed" => /\ state[id] \in {"Trying", "Proceeding"}
                              /\ Tell(id, "response") /\ Schedule(id, {"K"})
  OBVIOUS
<1>2. /\ id \in Id /\ id \in NonInviteClient /\ id \notin InviteClient
      /\ id \notin ServerId /\ state[id] # "Absent"
  BY <1>1 DEF Id
<1>3. /\ pending' \in [Id -> [Timer -> 0..MaxPending]]
      /\ \A i \in Id, t \in Timer : pending[i][t] > 0 => pending'[i][t] > 0
      /\ s = "Completed" => pending'[id]["K"] > 0
  <2>1. {"K"} \in SUBSET Timer
    BY DEF Timer
  <2> QED
    BY <1>1, <1>2, <2>1, ScheduleFacts DEF TypeOK
<1>4. /\ told' \in [ClientId -> Outcome]
      /\ \A i \in ClientId : i # id => told'[i] = told[i]
      /\ told'[id]["timeout"] = told[id]["timeout"]
      /\ s = "Proceeding" => told'[id]["response"] = told[id]["response"]
      /\ s = "Completed" => told'[id]["response"] = Bump(told[id]["response"])
  BY <1>1, TellFacts DEF TypeOK
<1>5. TypeOK'
  BY <1>1, <1>3, <1>4 DEF TypeOK, State
<1>6. KindOK'
  BY <1>1 DEF KindOK, TypeOK
<1>7. FreshOK' /\ StoredOK' /\ OneAnswer' /\ CleanupSafe'
  BY <1>1, <1>2, <1>4 DEF FreshOK, StoredOK, OneAnswer, CleanupSafe, TypeOK, Id, ServerId
<1>8. TimersArmed'
  BY <1>1, <1>2, <1>3 DEF TimersArmed, TypeOK, Id, ClientId, ServerId, Timer
<1>9. OneOutcome'
  <2>1. told[id].response = 0 /\ told[id].timeout = 0
    BY <1>1, <1>2 DEF OneOutcome, Settled, TypeOK, Outcome
  <2>2. /\ told'[id].timeout = 0
        /\ s = "Proceeding" => told'[id].response = 0
        /\ s = "Completed" => told'[id].response = 1
    BY <1>4, <2>1 DEF Bump
  <2> QED
    BY <1>1, <1>2, <1>4, <2>2 DEF OneOutcome, Settled, TypeOK, Id, ClientId
<1>10. SlotsOK'
  BY <1>1, <1>2, PresentKept, SlotsKept DEF State
<1> QED
  BY <1>5, <1>6, <1>7, <1>8, <1>9, <1>10

LEMMA SendInviteAnswerStep ==
  ASSUME IInv, NEW id \in ServerId, NEW c \in Class, SendInviteAnswer(id, c)
  PROVE  IInv'
<1> USE DEF IInv, SendInviteAnswer, calls
<1>1. /\ id \in Id /\ id \in InviteServer /\ id \notin NonInviteServer
      /\ id \notin ClientId /\ state[id] # "Absent"
  BY DEF Id
<1>2. PICK s \in {"Completed", "Confirmed", "Terminated"} :
        /\ state' = [state EXCEPT ![id] = s]
        /\ s # "Terminated" => state[id] # "Terminated"
        /\ \/ s = state[id] /\ UNCHANGED <<pending, response>>
           \/ s = "Terminated" /\ UNCHANGED <<pending, response>>
           \/ /\ s = "Completed" /\ response' = [response EXCEPT ![id] = c]
              /\ Schedule(id, {"G", "H"})
  <2>1. state[id] \in State /\ state = [state EXCEPT ![id] = state[id]]
    BY <1>1 DEF TypeOK
  <2> QED
    BY <2>1
<1>3. /\ pending' \in [Id -> [Timer -> 0..MaxPending]]
      /\ \A i \in Id, t \in Timer : pending[i][t] > 0 => pending'[i][t] > 0
      /\ s = "Completed" => pending'[id]["G"] > 0 /\ pending'[id]["H"] > 0
  <2>1. {"G", "H"} \in SUBSET Timer
    BY DEF Timer
  <2> QED
    BY <1>1, <1>2, <2>1, ScheduleFacts DEF TypeOK, TimersArmed
<1>4. /\ answers' \in [ServerId -> SUBSET Final]
      /\ \A i \in ServerId : i # id => answers'[i] = answers[i]
  BY DEF Answer, TypeOK
<1>5. TypeOK'
  <2>1. state' \in [Id -> State]
    BY <1>1, <1>2 DEF TypeOK, State
  <2>2. response' \in [ServerId -> Final \cup {"none"}]
    BY <1>1, <1>2 DEF TypeOK
  <2> QED
    BY <1>3, <1>4, <2>1, <2>2 DEF TypeOK
<1>6. KindOK'
  BY <1>1, <1>2 DEF KindOK, TypeOK
<1>7. FreshOK' /\ CleanupSafe'
  BY <1>1, <1>2 DEF FreshOK, CleanupSafe, TypeOK, Id
<1>8. StoredOK' /\ OneAnswer'
  BY <1>1, <1>2, <1>4 DEF StoredOK, OneAnswer, TypeOK, Id, ServerId
<1>9. TimersArmed'
  BY <1>1, <1>2, <1>3 DEF TimersArmed, TypeOK, Id, ClientId, ServerId, Timer
<1>10. OneOutcome'
  BY <1>1, <1>2 DEF OneOutcome, Settled, TypeOK, Id
<1>11. SlotsOK'
  BY <1>1, <1>2, PresentKept, SlotsKept DEF State
<1> QED
  BY <1>5, <1>6, <1>7, <1>8, <1>9, <1>10, <1>11

LEMMA SendNonInviteAnswerStep ==
  ASSUME IInv, NEW id \in ServerId, NEW c \in Class, SendNonInviteAnswer(id, c)
  PROVE  IInv'
<1> USE DEF IInv, SendNonInviteAnswer, AwaitsAnswer, calls
<1>1. /\ id \in Id /\ id \in NonInviteServer /\ id \notin InviteServer
      /\ id \notin ClientId /\ state[id] \in {"Trying", "Proceeding"}
      /\ answers[id] = {}
  BY DEF Id, StoredOK
<1>2. \/ /\ state' = [state EXCEPT ![id] = "Proceeding"]
         /\ UNCHANGED <<pending, response, answers>>
      \/ /\ c \in Final
         /\ state' = [state EXCEPT ![id] = "Completed"]
         /\ response' = [response EXCEPT ![id] = c]
         /\ Schedule(id, {"J"})
         /\ answers' \in {answers, [answers EXCEPT ![id] = {c}]}
  BY <1>1 DEF Answer
<1>3. /\ pending' \in [Id -> [Timer -> 0..MaxPending]]
      /\ \A i \in Id, t \in Timer : pending[i][t] > 0 => pending'[i][t] > 0
      /\ state'[id] = "Completed" => pending'[id]["J"] > 0
  <2>1. {"J"} \in SUBSET Timer
    BY DEF Timer
  <2> QED
    BY <1>1, <1>2, <2>1, ScheduleFacts DEF TypeOK
<1>4. TypeOK'
  <2>1. state' \in [Id -> State]
    BY <1>1, <1>2 DEF TypeOK, State
  <2>2. response' \in [ServerId -> Final \cup {"none"}]
    BY <1>1, <1>2 DEF TypeOK
  <2>3. answers' \in [ServerId -> SUBSET Final]
    BY <1>1, <1>2 DEF TypeOK
  <2> QED
    BY <1>3, <2>1, <2>2, <2>3 DEF TypeOK
<1>5. KindOK'
  BY <1>1, <1>2 DEF KindOK, TypeOK
<1>6. FreshOK' /\ CleanupSafe'
  BY <1>1, <1>2 DEF FreshOK, CleanupSafe, TypeOK, Id
<1>7. StoredOK' /\ OneAnswer'
  <2>1. \A i \in ServerId : i # id => /\ state'[i] = state[i] /\ answers'[i] = answers[i]
                                     /\ response'[i] = response[i]
    BY <1>1, <1>2 DEF TypeOK, Id
  <2>2. /\ state'[id] = "Completed" => response'[id] \in Final
        /\ answers'[id] \subseteq {response'[id]}
        /\ state'[id] # "Completed" => answers'[id] = {}
    BY <1>1, <1>2 DEF TypeOK
  <2> QED
    BY <2>1, <2>2 DEF StoredOK, OneAnswer, ServerId
<1>8. TimersArmed'
  BY <1>1, <1>2, <1>3 DEF TimersArmed, TypeOK, Id, ClientId, ServerId, Timer
<1>9. OneOutcome'
  BY <1>1, <1>2 DEF OneOutcome, Settled, TypeOK, Id
<1>10. SlotsOK'
  BY <1>1, <1>2, PresentKept, SlotsKept DEF State
<1> QED
  BY <1>4, <1>5, <1>6, <1>7, <1>8, <1>9, <1>10

LEMMA AbsorbRetransmissionStep ==
  ASSUME IInv, NEW id \in ServerId, AbsorbRetransmission(id)
  PROVE  IInv'
<1> USE DEF IInv, AbsorbRetransmission, calls
<1>1. TypeOK'
  BY DEF TypeOK, StoredOK, Answer
<1>2. StoredOK' /\ OneAnswer'
  BY DEF StoredOK, OneAnswer, TypeOK, Answer, ServerId
<1>3. SlotsOK'
  BY DEF SlotsOK, Present
<1>4. (KindOK /\ FreshOK /\ TimersArmed /\ OneOutcome /\ CleanupSafe)'
  BY DEF KindOK, FreshOK, TimersArmed, OneOutcome, Settled, CleanupSafe
<1> QED
  BY <1>1, <1>2, <1>3, <1>4

LEMMA ReceiveAckStep ==
  ASSUME IInv, NEW id \in ServerId, ReceiveAck(id)
  PROVE  IInv'
<1> USE DEF IInv, ReceiveAck, calls
<1>1. /\ id \in Id /\ id \in InviteServer /\ id \notin NonInviteServer
      /\ id \notin ClientId /\ state[id] # "Absent"
  BY DEF Id
<1>2. /\ pending' \in [Id -> [Timer -> 0..MaxPending]]
      /\ \A i \in Id, t \in Timer : pending[i][t] > 0 => pending'[i][t] > 0
      /\ pending'[id]["I"] > 0
  <2>1. {"I"} \in SUBSET Timer
    BY DEF Timer
  <2> QED
    BY <1>1, <2>1, ScheduleFacts
<1>3. TypeOK'
  BY <1>1, <1>2 DEF TypeOK, State
<1>4. KindOK'
  BY <1>1 DEF KindOK, TypeOK
<1>5. FreshOK' /\ CleanupSafe'
  BY <1>1 DEF FreshOK, CleanupSafe, TypeOK, Id
<1>6. StoredOK' /\ OneAnswer'
  BY <1>1 DEF StoredOK, OneAnswer, TypeOK, Id, ServerId
<1>7. TimersArmed'
  BY <1>1, <1>2 DEF TimersArmed, TypeOK, Id, ClientId, ServerId, Timer
<1>8. OneOutcome'
  BY <1>1 DEF OneOutcome, Settled, TypeOK, Id
<1>9. SlotsOK'
  BY <1>1, PresentKept, SlotsKept DEF State
<1> QED
  BY <1>3, <1>4, <1>5, <1>6, <1>7, <1>8, <1>9

LEMMA RetransmitStep ==
  ASSUME IInv, NEW id \in Id, NEW t \in Timer, Retransmit(id, t)
  PROVE  IInv'
<1> USE DEF IInv, Retransmit, calls
<1>1. CASE id \in ClientId
  <2>1. UNCHANGED answers /\ onWire' \subseteq ClientId
    BY <1>1 DEF TypeOK
  <2>2. TypeOK'
    BY <2>1 DEF TypeOK
  <2>3. SlotsOK'
    BY DEF SlotsOK, Present
  <2>4. (KindOK /\ FreshOK /\ StoredOK /\ TimersArmed /\ OneOutcome /\ OneAnswer /\ CleanupSafe)'
    BY <2>1 DEF KindOK, FreshOK, StoredOK, TimersArmed, OneOutcome, Settled, OneAnswer,
               CleanupSafe
  <2> QED
    BY <2>2, <2>3, <2>4
<1>2. CASE id \in ServerId
  <2>1. state[id] = "Completed" /\ Answer(id, response[id]) /\ UNCHANGED onWire
    BY <1>2 DEF Repeats, ClientId
  <2>2. TypeOK'
    BY <1>2, <2>1 DEF TypeOK, StoredOK, Answer
  <2>3. StoredOK' /\ OneAnswer'
    BY <1>2, <2>1 DEF StoredOK, OneAnswer, TypeOK, Answer, ServerId
  <2>4. SlotsOK'
    BY DEF SlotsOK, Present
  <2>5. (KindOK /\ FreshOK /\ TimersArmed /\ OneOutcome /\ CleanupSafe)'
    BY DEF KindOK, FreshOK, TimersArmed, OneOutcome, Settled, CleanupSafe
  <2> QED
    BY <2>2, <2>3, <2>4, <2>5
<1> QED
  BY <1>1, <1>2 DEF Id

LEMMA TimeOutStep ==
  ASSUME IInv, NEW id \in Id, NEW t \in Timer, TimeOut(id, t)
  PROVE  IInv'
<1> USE DEF IInv, TimeOut, calls
<1>1. /\ state[id] \in {"Calling", "Trying", "Proceeding", "Completed"}
      /\ id \in InviteClient => state[id] = "Calling"
      /\ id \in NonInviteClient => state[id] \in {"Trying", "Proceeding"}
  BY DEF GivesUp, ClientId, ServerId
<1>2. /\ pending' \in [Id -> [Timer -> 0..MaxPending]]
      /\ \A i \in Id, u \in Timer : i # id => pending'[i][u] = pending[i][u]
  BY ConsumeFacts
<1>3. /\ told' \in [ClientId -> Outcome]
      /\ \A i \in ClientId : i # id => told'[i] = told[i]
      /\ id \in ClientId => /\ told[id].timeout = 0 /\ told[id].response = 0
                            /\ told'[id].timeout = 1 /\ told'[id].response = 0
  <2>1. CASE id \in ClientId
    <3>1. told[id].timeout = 0 /\ told[id].response = 0
      BY <1>1, <2>1 DEF OneOutcome, Settled, TypeOK, Outcome, ClientId
    <3>2. Tell(id, "timeout")
      BY <2>1
    <3> QED
      BY <2>1, <3>1, <3>2, TellFacts DEF Bump
  <2>2. CASE id \in ServerId
    BY <2>2 DEF TypeOK
  <2> QED
    BY <2>1, <2>2 DEF Id
<1>4. TypeOK'
  BY <1>2, <1>3 DEF TypeOK, State
<1>5. KindOK'
  BY DEF KindOK, TypeOK
<1>6. FreshOK'
  BY <1>1, <1>3 DEF FreshOK, TypeOK, Id
<1>7. StoredOK' /\ OneAnswer' /\ CleanupSafe'
  BY <1>1 DEF StoredOK, OneAnswer, CleanupSafe, TypeOK, Id, ServerId
<1>8. TimersArmed'
  BY <1>2 DEF TimersArmed, TypeOK, Id, ClientId, ServerId, Timer
<1>9. OneOutcome'
  BY <1>3 DEF OneOutcome, Settled, TypeOK, Id
<1>10. SlotsOK'
  BY <1>1, PresentKept, SlotsKept DEF State
<1> QED
  BY <1>4, <1>5, <1>6, <1>7, <1>8, <1>9, <1>10

LEMMA ExpireStep ==
  ASSUME IInv, NEW id \in Id, NEW t \in Timer, Expire(id, t)
  PROVE  IInv'
<1> USE DEF IInv, Expire, calls
<1>1. state[id] \in {"Completed", "Confirmed"}
  BY DEF Lapses
<1>2. /\ pending' \in [Id -> [Timer -> 0..MaxPending]]
      /\ \A i \in Id, u \in Timer : i # id => pending'[i][u] = pending[i][u]
  BY ConsumeFacts
<1>3. TypeOK'
  BY <1>2 DEF TypeOK, State
<1>4. KindOK'
  BY DEF KindOK, TypeOK
<1>5. FreshOK' /\ CleanupSafe'
  BY <1>1 DEF FreshOK, CleanupSafe, TypeOK, Id
<1>6. StoredOK' /\ OneAnswer'
  BY <1>1 DEF StoredOK, OneAnswer, TypeOK, Id, ServerId
<1>7. TimersArmed'
  BY <1>2 DEF TimersArmed, TypeOK, Id, ClientId, ServerId, Timer
<1>8. OneOutcome'
  <2>1. id \in ClientId => state[id] = "Completed"
    BY <1>1 DEF KindOK, ClientId, ServerId
  <2> QED
    BY <2>1 DEF OneOutcome, Settled, TypeOK, Id
<1>9. SlotsOK'
  BY <1>1, PresentKept, SlotsKept DEF State
<1> QED
  BY <1>3, <1>4, <1>5, <1>6, <1>7, <1>8, <1>9

\* A timer entry that limits or repeats a live state is never discarded.
LEMMA DiscardStep ==
  ASSUME IInv, NEW id \in Id, NEW t \in Timer, Discard(id, t)
  PROVE  IInv'
<1> USE DEF IInv, Discard, calls
<1>1. /\ pending' \in [Id -> [Timer -> 0..MaxPending]]
      /\ \A i \in Id, u \in Timer : i # id \/ u # t => pending'[i][u] = pending[i][u]
  BY ConsumeFacts
<1>2. TypeOK'
  BY <1>1 DEF TypeOK
<1>3. TimersArmed'
  BY <1>1 DEF TimersArmed, Repeats, GivesUp, Lapses, Id, ClientId, ServerId, Timer
<1>4. SlotsOK'
  BY DEF SlotsOK, Present
<1>5. (KindOK /\ FreshOK /\ StoredOK /\ OneOutcome /\ OneAnswer /\ CleanupSafe)'
  BY DEF KindOK, FreshOK, StoredOK, OneOutcome, Settled, OneAnswer, CleanupSafe
<1> QED
  BY <1>2, <1>3, <1>4, <1>5

LEMMA CollectStep ==
  ASSUME IInv, Collect
  PROVE  IInv'
<1> USE DEF IInv, Collect, calls
<1>1. TypeOK' /\ CleanupSafe'
  BY DEF TypeOK, CleanupSafe, Finished
<1>2. SlotsOK'
  BY DEF SlotsOK, Present
<1>3. (KindOK /\ FreshOK /\ StoredOK /\ TimersArmed /\ OneOutcome /\ OneAnswer)'
  BY DEF KindOK, FreshOK, StoredOK, TimersArmed, OneOutcome, Settled, OneAnswer
<1> QED
  BY <1>1, <1>2, <1>3

LEMMA RemoveStep ==
  ASSUME IInv, NEW id \in Id, Remove(id)
  PROVE  IInv'
<1> USE DEF IInv, Remove, calls
<1>1. TypeOK'
  BY DEF TypeOK, State
<1>2. KindOK' /\ CleanupSafe'
  BY DEF KindOK, CleanupSafe, TypeOK
<1>3. FreshOK'
  BY DEF FreshOK, TypeOK, Id
<1>4. StoredOK' /\ OneAnswer'
  BY DEF StoredOK, OneAnswer, TypeOK, Id, ServerId
<1>5. TimersArmed'
  BY DEF TimersArmed, TypeOK, Id, ClientId, ServerId
<1>6. OneOutcome'
  BY DEF OneOutcome, Settled, TypeOK, Id
<1>7. SlotsOK'
  <2>1. Present' \subseteq Present
    BY DEF Present, TypeOK
  <2> QED
    BY <2>1, SlotsKept
<1> QED
  BY <1>1, <1>2, <1>3, <1>4, <1>5, <1>6, <1>7

LEMMA NextIInv == IInv /\ [Next]_vars => IInv'
<1> SUFFICES ASSUME IInv, [Next]_vars PROVE IInv'
  OBVIOUS
<1>1. CASE UNCHANGED vars
  BY <1>1 DEF vars, IInv, TypeOK, KindOK, FreshOK, StoredOK, TimersArmed, OneOutcome,
              Settled, OneAnswer, CleanupSafe, SlotsOK, Present
<1>2. ASSUME NEW id \in ClientId, SendRequest(id) \/ InsertClient(id) \/ FirstTransmission(id)
      PROVE  IInv'
  BY <1>2, SendRequestStep, InsertClientStep, FirstTransmissionStep
<1>3. ASSUME NEW id \in ServerId,
             \/ ReceiveRequest(id) \/ InsertServer(id)
             \/ AbsorbRetransmission(id) \/ ReceiveAck(id)
      PROVE  IInv'
  BY <1>3, ReceiveRequestStep, InsertServerStep, AbsorbRetransmissionStep, ReceiveAckStep
<1>4. ASSUME NEW id \in ClientId, NEW c \in Class,
             InviteResponse(id, c) \/ NonInviteResponse(id, c)
      PROVE  IInv'
  BY <1>4, InviteResponseStep, NonInviteResponseStep
<1>5. ASSUME NEW id \in ServerId, NEW c \in Class,
             SendInviteAnswer(id, c) \/ SendNonInviteAnswer(id, c)
      PROVE  IInv'
  BY <1>5, SendInviteAnswerStep, SendNonInviteAnswerStep
<1>6. ASSUME NEW id \in Id, NEW t \in Timer, Fire(id, t)
      PROVE  IInv'
  BY <1>6, RetransmitStep, TimeOutStep, ExpireStep, DiscardStep DEF Fire
<1>7. CASE Collect
  BY <1>7, CollectStep
<1>8. ASSUME NEW id \in Id, Remove(id)
      PROVE  IInv'
  BY <1>8, RemoveStep
<1> QED
  BY <1>1, <1>2, <1>3, <1>4, <1>5, <1>6, <1>7, <1>8 DEF Next

LEMMA InductiveInvariant == Spec => []IInv
BY InitIInv, NextIInv, PTL DEF Spec

-----------------------------------------------------------------------------
\* The variables of the transaction layer keep their types: no timer queue
\* loses an entry it does not have, no answer is sent that was not given.
THEOREM TypeCorrect == Spec => []TypeOK
<1>1. IInv => TypeOK
  BY DEF IInv
<1> QED
  BY <1>1, InductiveInvariant, PTL

\* No transaction ever waits in the map without the timer that ends it.
THEOREM TimersAlwaysArmed == Spec => []TimersArmed
<1>1. IInv => TimersArmed
  BY DEF IInv
<1> QED
  BY <1>1, InductiveInvariant, PTL

\* With Tasks concurrent callers the map holds at most Tasks - 1 transactions
\* more than max_transactions, for any limit and any number of callers.
THEOREM CapacityOvershoot == Spec => []CapacityBound
<1>1. IInv => CapacityBound
  <2> SUFFICES ASSUME IInv PROVE CapacityBound
    OBVIOUS
  <2>1. TypeOK /\ SlotsOK
    BY DEF IInv
  <2> QED
    BY <2>1, PresentFinite, CheckedFinite DEF SlotsOK, CapacityBound
<1> QED
  BY <1>1, InductiveInvariant, PTL

\* With one caller at a time the documented limit holds as it stands: passing it
\* takes a second task between the check and the insertion of the first.
THEOREM LimitHoldsForOneTask == Spec => [](Tasks = 1 => LimitEnforced)
<1>1. CapacityBound => (Tasks = 1 => LimitEnforced)
  BY PresentFinite DEF CapacityBound, LimitEnforced
<1> QED
  BY <1>1, CapacityOvershoot, PTL

\* The user of a client transaction never hears both an answer and a timeout,
\* and never hears of a transaction that ended without either.
THEOREM OutcomeOnce == Spec => []OneOutcome
<1>1. IInv => OneOutcome
  BY DEF IInv
<1> QED
  BY <1>1, InductiveInvariant, PTL

\* A non-INVITE server transaction never sends two different final responses.
THEOREM AnswerOnce == Spec => []OneAnswer
<1>1. IInv => OneAnswer
  BY DEF IInv
<1> QED
  BY <1>1, InductiveInvariant, PTL

\* The delayed removal of cleanup_terminated never removes a live transaction.
THEOREM CleanupIsSafe == Spec => []CleanupSafe
<1>1. IInv => CleanupSafe
  BY DEF IInv
<1> QED
  BY <1>1, InductiveInvariant, PTL

\* Every step moves a stored transaction forward or leaves it, and only a
\* Terminated one leaves the map.
THEOREM AlwaysForward == Spec => ForwardOnly
<1> DEFINE Forward(id) ==
             \/ state'[id] = state[id]
             \/ Rank[state[id]] < Rank[state'[id]]
                  /\ (state'[id] = "Absent" => state[id] = "Terminated")
<1>1. ASSUME IInv, Next, NEW i \in Id, state[i] # "Absent"
      PROVE  Forward(i)
  <2> USE <1>1 DEF IInv, Rank
  <2>1. ASSUME NEW id \in Id, NEW s \in State, state' = [state EXCEPT ![id] = s],
               id = i => \/ s = state[i]
                         \/ state[i] = "Terminated" /\ s = "Absent"
                         \/ s # "Absent" /\ Rank[state[i]] < Rank[s]
        PROVE  Forward(i)
    BY <2>1 DEF TypeOK, State
  <2>2. CASE UNCHANGED state
    BY <2>2
  <2>3. ASSUME NEW id \in ClientId, InsertClient(id)
        PROVE  Forward(i)
    BY <2>1, <2>3 DEF InsertClient, FreshOK, Id, State
  <2>4. ASSUME NEW id \in ServerId, InsertServer(id)
        PROVE  Forward(i)
    BY <2>1, <2>4 DEF InsertServer, FreshOK, Id, State
  <2>5. ASSUME NEW id \in ClientId, NEW c \in Class,
               InviteResponse(id, c) \/ NonInviteResponse(id, c)
        PROVE  Forward(i)
    BY <2>1, <2>5 DEF InviteResponse, NonInviteResponse, Id, State
  <2>6. ASSUME NEW id \in ServerId, NEW c \in Class,
               SendInviteAnswer(id, c) \/ SendNonInviteAnswer(id, c)
        PROVE  Forward(i)
    BY <2>1, <2>2, <2>6 DEF SendInviteAnswer, SendNonInviteAnswer, AwaitsAnswer, Id, State
  <2>7. ASSUME NEW id \in ServerId, ReceiveAck(id)
        PROVE  Forward(i)
    BY <2>1, <2>7 DEF ReceiveAck, Id, State
  <2>8. ASSUME NEW id \in Id, NEW t \in Timer, TimeOut(id, t) \/ Expire(id, t)
        PROVE  Forward(i)
    BY <2>1, <2>8 DEF TimeOut, GivesUp, Expire, Lapses, State
  <2>9. ASSUME NEW id \in Id, Remove(id)
        PROVE  Forward(i)
    BY <2>1, <2>9 DEF Remove, CleanupSafe, State
  <2> QED
    BY <2>2, <2>3, <2>4, <2>5, <2>6, <2>7, <2>8, <2>9
    DEF Next, SendRequest, FirstTransmission, ReceiveRequest, AbsorbRetransmission,
        Fire, Retransmit, Discard, Collect
<1>2. IInv /\ [Next]_vars =>
        [\A id \in Id : state[id] # "Absent" => Forward(id)]_vars
  BY <1>1
<1> QED
  BY <1>2, InductiveInvariant, PTL DEF Spec, ForwardOnly
=============================================================================
