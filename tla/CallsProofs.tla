----------------------------- MODULE CallsProofs -----------------------------
(***************************************************************************)
(* The invariants of Calls, proved for any calls, limits, receive loops    *)
(* and bounds.  They are proved in layers, each of which is inductive      *)
(* given the ones before it:                                               *)
(*                                                                         *)
(*   BaseInv       the types, and what must have been sent before a        *)
(*                 response, a handler or a collected BYE exists           *)
(*   RunInv        what a cleanup still has to visit                       *)
(*   OwnInv        who has taken a dialog out of the map                   *)
(*   CountInv      the counter and the limit of the dialog manager         *)
(*   LedgerInv     the gauge active_dialogs                                *)
(*   LookupInv     a single receive loop keeps the dialog it looked up     *)
(*   EmptyInv      a reported step has left no dialog behind               *)
(*   OutcomeInv    the outcomes recorded for a call                        *)
(*   EndInv        how the two ends of a call agree that it is over        *)
(*   ChallengeInv  the requests that answer a challenge                    *)
(*   SetupInv      what an answered call has sent                          *)
(*   SoloInv       the challenge that a single receive loop answers        *)
(*   NumberInv     the CSeq numbers of INVITE and BYE                      *)
(***************************************************************************)
EXTENDS Calls, FiniteSetTheorems, TLAPS

\* TypeOK without the bound on the counter, which needs CountInv.
TypeInv ==
  /\ dialog \in [Call -> Dialog \cup {NoDialog}]
  /\ activeCount \in Int
  /\ sender \in [Call -> {"new", "checked", "inserted", "done"}]
  /\ handling \in [Receiver -> {Free} \cup Call \X (Response \cup Point)]
  /\ batch \subseteq InviteCall \X CSeq /\ byeSent \subseteq InviteCall \X CSeq
  /\ sleeping \in [Call -> 0..MaxRefresh] /\ updating \subseteq InviteCall \X CSeq
  /\ uas \in [InviteCall -> {"None", "Early", "Confirmed"}]
  /\ requests \in [Call -> SUBSET (Request \X CSeq)]
  /\ responses \in [Call -> SUBSET Response]
  /\ success \in [Call -> Nat] /\ failure \in [Call -> Nat]
  /\ active \in 0..(Wrap - 1)
  /\ phase \in {"sending", "draining", "cleaning", "reported", "stopping", "stopped"}
  /\ step \in Nat \ {0}
  /\ doomed \subseteq Call /\ removed \subseteq Call /\ leaving \subseteq Call
  /\ closed \subseteq InviteCall /\ drifted \in BOOLEAN

\* The points a handler of each response gets to, the response itself the first.
Reach(r) ==
  {r} \cup (IF r = "401/407" THEN {"resend"} ELSE {})
      \cup (IF r \in {"BYE 200", "REGISTER 200"} THEN {"taken", "record", "close"} ELSE {})
      \cup (IF r \in {"INVITE 4xx", "REGISTER 4xx", "BYE 481"}
              THEN {"failed", "dropped", "close"} ELSE {})

\* A receive loop works on what was received.
Traced ==
  \A w \in Receiver, c \in Call, p \in Response \cup Point :
    handling[w] = <<c, p>> => \E r \in responses[c] : p \in Reach(r)

\* Nothing happens to a call before it was sent.
SentInv ==
  /\ \A c \in Call : sender[c] # "done" => requests[c] = {}
  /\ \A c \in Call : requests[c] = {} => responses[c] = {}
  /\ Traced
  /\ \A c \in InviteCall, n \in CSeq :
       <<c, n>> \in batch \cup byeSent \cup updating => sender[c] = "done"
  /\ \A c \in Call : sender[c] \in {"new", "checked"} => dialog[c] = NoDialog
  /\ \A c \in Call : sender[c] = "inserted" =>
       dialog[c] = [state |-> "Initial", cseq |-> 1, auth |-> FALSE]
  /\ phase # "sending" => Sending = {}
  /\ phase \in {"sending", "draining", "reported"} => doomed = {}
  /\ phase # "cleaning" => removed \subseteq leaving
  /\ phase \notin {"stopping", "stopped"} => leaving = {}

BaseInv == TypeInv /\ SentInv

LEMMA CallsFinite ==
  /\ IsFiniteSet(Call)
  /\ Cardinality(Call) \in Nat
  /\ Wrap \in Nat /\ Wrap > 2 * Cardinality(Call)
BY CallsAssumption, FS_CardinalityType, FS_Union DEF CallsAssumption, Call

LEMMA WrapFacts ==
  /\ \A n \in Int : n % Wrap \in 0..(Wrap - 1)
  /\ \A n \in 0..(Wrap - 1) : n % Wrap = n
<1>1. Wrap \in Nat \ {0}
  BY CallsFinite, SMT
<1> QED BY <1>1, SMT

-----------------------------------------------------------------------------
(* Types. *)

LEMMA BaseInit == Init => BaseInv
<1> SUFFICES ASSUME Init PROVE BaseInv
  OBVIOUS
<1>1. 0 \in 0..(Wrap - 1) /\ 0 \in 0..MaxRefresh
  BY CallsAssumption, CallsFinite, SMT DEF CallsAssumption
<1>2. /\ dialog \in [Call -> Dialog \cup {NoDialog}] /\ activeCount \in Int
      /\ sender \in [Call -> {"new", "checked", "inserted", "done"}]
      /\ handling \in [Receiver -> {Free} \cup Call \X (Response \cup Point)]
      /\ sleeping \in [Call -> 0..MaxRefresh]
      /\ uas \in [InviteCall -> {"None", "Early", "Confirmed"}]
  BY <1>1 DEF Init
<1>3. /\ requests \in [Call -> SUBSET (Request \X CSeq)]
      /\ responses \in [Call -> SUBSET Response]
      /\ success \in [Call -> Nat] /\ failure \in [Call -> Nat]
  BY DEF Init
<1>4. /\ batch \subseteq InviteCall \X CSeq /\ byeSent \subseteq InviteCall \X CSeq
      /\ updating \subseteq InviteCall \X CSeq
      /\ doomed \subseteq Call /\ removed \subseteq Call /\ leaving \subseteq Call
      /\ closed \subseteq InviteCall /\ drifted \in BOOLEAN
  BY DEF Init
<1>4a. active \in 0..(Wrap - 1) /\ phase = "sending" /\ step \in Nat \ {0}
  BY <1>1, SMT DEF Init
<1>5. TypeInv
  BY <1>2, <1>3, <1>4, <1>4a DEF TypeInv
<1>6. SentInv
  BY DEF Init, SentInv, Traced, Sending, Free
<1> QED BY <1>5, <1>6 DEF BaseInv

\* The assignments to the fields of a dialog.
State == {"Initial", "Trying", "Confirmed", "Error"}

LEMMA FieldTypes ==
  ASSUME TypeInv, NEW c \in Call, dialog[c] \in Dialog
  PROVE  /\ \A s \in State :
              [dialog EXCEPT ![c].state = s] \in [Call -> Dialog \cup {NoDialog}]
         /\ \A n \in CSeq :
              [dialog EXCEPT ![c].cseq = n] \in [Call -> Dialog \cup {NoDialog}]
         /\ \A s \in State, n \in CSeq :
              [dialog EXCEPT ![c].state = s, ![c].cseq = n] \in [Call -> Dialog \cup {NoDialog}]
         /\ \A n \in CSeq :
              [dialog EXCEPT ![c].auth = TRUE, ![c].cseq = n] \in [Call -> Dialog \cup {NoDialog}]
<1> DEFINE D == dialog[c]
<1>1. \A e \in Dialog : [dialog EXCEPT ![c] = e] \in [Call -> Dialog \cup {NoDialog}]
  BY DEF TypeInv
<1>2. /\ D.state \in State /\ D.cseq \in CSeq /\ D.auth \in BOOLEAN
      /\ D = [state |-> D.state, cseq |-> D.cseq, auth |-> D.auth]
  BY DEF Dialog, State
<1>3. ASSUME NEW s \in State
      PROVE  [dialog EXCEPT ![c].state = s] \in [Call -> Dialog \cup {NoDialog}]
  <2>1. [D EXCEPT !.state = s] \in Dialog
    BY <1>2 DEF Dialog, State
  <2>2. [dialog EXCEPT ![c].state = s] = [dialog EXCEPT ![c] = [D EXCEPT !.state = s]]
    OBVIOUS
  <2> QED BY <1>1, <2>1, <2>2
<1>4. ASSUME NEW n \in CSeq
      PROVE  [dialog EXCEPT ![c].cseq = n] \in [Call -> Dialog \cup {NoDialog}]
  <2>1. [D EXCEPT !.cseq = n] \in Dialog
    BY <1>2 DEF Dialog, State
  <2>2. [dialog EXCEPT ![c].cseq = n] = [dialog EXCEPT ![c] = [D EXCEPT !.cseq = n]]
    OBVIOUS
  <2> QED BY <1>1, <2>1, <2>2
<1>5. ASSUME NEW s \in State, NEW n \in CSeq
      PROVE  [dialog EXCEPT ![c].state = s, ![c].cseq = n] \in [Call -> Dialog \cup {NoDialog}]
  <2>1. [D EXCEPT !.state = s, !.cseq = n] \in Dialog
    BY <1>2 DEF Dialog, State
  <2>2. [dialog EXCEPT ![c].state = s, ![c].cseq = n]
          = [dialog EXCEPT ![c] = [D EXCEPT !.state = s, !.cseq = n]]
    BY DEF TypeInv
  <2> QED BY <1>1, <2>1, <2>2
<1>6. ASSUME NEW n \in CSeq
      PROVE  [dialog EXCEPT ![c].auth = TRUE, ![c].cseq = n] \in [Call -> Dialog \cup {NoDialog}]
  <2>1. [D EXCEPT !.auth = TRUE, !.cseq = n] \in Dialog
    BY <1>2 DEF Dialog, State
  <2>2. [dialog EXCEPT ![c].auth = TRUE, ![c].cseq = n]
          = [dialog EXCEPT ![c] = [D EXCEPT !.auth = TRUE, !.cseq = n]]
    BY DEF TypeInv
  <2> QED BY <1>1, <2>1, <2>2
<1> QED BY <1>3, <1>4, <1>5, <1>6

\* One lemma for each kind of task.
LEMMA SenderTypes ==
  ASSUME BaseInv, NEW c \in Call, SendTask(c)
  PROVE  TypeInv'
<1> USE DEF BaseInv
<1> 1 \in CSeq
  BY CallsAssumption DEF CSeq, CallsAssumption
<1>1. CASE StartCall(c)
  BY <1>1 DEF TypeInv, StartCall, RecordFailure, wireVars, runVars
<1>2. CASE InsertDialog(c)
  <2>1. [state |-> "Initial", cseq |-> 1, auth |-> FALSE] \in Dialog
    BY DEF Dialog
  <2> QED BY <1>2, <2>1 DEF TypeInv, InsertDialog, wireVars, statVars, runVars
<1>3. CASE SendRequest(c)
  <2>1. (active + 1) % Wrap \in 0..(Wrap - 1)
    BY WrapFacts DEF TypeInv
  <2>2. dialog[c] = [state |-> "Initial", cseq |-> 1, auth |-> FALSE]
    BY <1>3 DEF SendRequest, SentInv
  <2>3. dialog' \in [Call -> Dialog \cup {NoDialog}]
    <3>1. dialog[c] \in Dialog
      BY <2>2 DEF Dialog
    <3> QED BY <1>3, <3>1, FieldTypes DEF SendRequest, State
  <2>4. requests' \in [Call -> SUBSET (Request \X CSeq)]
    BY <1>3 DEF TypeInv, SendRequest, Transmit, Request
  <2> QED BY <1>3, <2>1, <2>3, <2>4 DEF TypeInv, SendRequest, runVars
<1> QED BY <1>1, <1>2, <1>3 DEF SendTask

LEMMA DecrementTypes ==
  ASSUME TypeInv, DecrementActive
  PROVE  active' \in 0..(Wrap - 1)
<1>1. active - 1 \in Int
  BY CallsFinite, SMT DEF TypeInv
<1> QED BY <1>1, WrapFacts DEF DecrementActive

LEMMA RemoveTypes ==
  ASSUME TypeInv, NEW c \in Call, RemoveDialog(c)
  PROVE  dialog' \in [Call -> Dialog \cup {NoDialog}]
BY DEF TypeInv, RemoveDialog

LEMMA CountTypes ==
  ASSUME TypeInv, CountRemoval
  PROVE  activeCount' \in Int
BY DEF TypeInv, CountRemoval

LEMMA RecordTypes ==
  ASSUME TypeInv, NEW c \in Call
  PROVE  /\ RecordCall(c) => success' \in [Call -> Nat]
         /\ RecordFailure(c) => failure' \in [Call -> Nat]
<1>1. success \in [Call -> Nat] /\ failure \in [Call -> Nat]
  BY DEF TypeInv
<1> QED BY <1>1 DEF RecordCall, RecordFailure

LEMMA HandleTypes ==
  ASSUME TypeInv, NEW w \in Receiver, NEW c \in Call, NEW r,
         Handle(w, c, r) \/ \E p \in Response \cup Point : Continue(w, c, r, p)
  PROVE  handling' \in [Receiver -> {Free} \cup Call \X (Response \cup Point)]
<1>1. PICK h \in {Free} \cup Call \X (Response \cup Point) :
        handling' = [handling EXCEPT ![w] = h]
  BY DEF Handle, Continue
<1> QED BY <1>1 DEF TypeInv

LEMMA PresentTypes ==
  ASSUME TypeInv, NEW c \in Present
  PROVE  c \in Call /\ dialog[c] \in Dialog
BY DEF TypeInv, Present

LEMMA ReceiverTypes ==
  ASSUME BaseInv, NEW w \in Receiver, ReceiveLoop(w)
  PROVE  TypeInv'
<1> USE DEF BaseInv
<1> PICK c \in Call : HandleResponse(w, c)
  BY DEF ReceiveLoop
<1>1. ASSUME NEW r \in Response, Receive(w, c, r)
      PROVE  TypeInv'
  BY <1>1 DEF TypeInv, Receive, wireVars, statVars, runVars
<1>2. CASE CompleteCall(w, c) \/ DropCall(w, c)
  <2>1. PICK r \in Response \cup Point, p \in Point, q \in Point : RemoveOwn(w, c, r, p, q)
    BY <1>2 DEF CompleteCall, DropCall, Response, Point
  <2>2. /\ dialog' \in [Call -> Dialog \cup {NoDialog}] /\ drifted' \in BOOLEAN
        /\ handling' \in [Receiver -> {Free} \cup Call \X (Response \cup Point)]
    <3>1. CASE Continue(w, c, r, p) /\ RemoveDialog(c) /\ UNCHANGED drifted
      BY <3>1, RemoveTypes, HandleTypes DEF TypeInv
    <3>2. CASE Continue(w, c, r, q) /\ drifted' = TRUE /\ UNCHANGED dialog
      BY <3>2, HandleTypes DEF TypeInv
    <3> QED BY <2>1, <3>1, <3>2 DEF RemoveOwn
  <2> QED BY <1>2, <2>2 DEF TypeInv, CompleteCall, DropCall, wireVars, statVars, runVars
<1>2a. CASE RecordSuccess(w, c) \/ FailCall(w, c) \/ CountTaken(w, c) \/ CloseCall(w, c)
  <2>1. /\ handling' \in [Receiver -> {Free} \cup Call \X (Response \cup Point)]
    <3>1. PICK r : Handle(w, c, r) \/ \E p \in Response \cup Point : Continue(w, c, r, p)
      BY <1>2a DEF RecordSuccess, FailCall, CountTaken, CloseCall, Point
    <3> QED BY <3>1, HandleTypes
  <2>2. success' \in [Call -> Nat] /\ failure' \in [Call -> Nat]
    BY <1>2a, RecordTypes
    DEF TypeInv, RecordSuccess, FailCall, CountTaken, CloseCall, statVars
  <2>3. active' \in 0..(Wrap - 1) /\ activeCount' \in Int
    BY <1>2a, DecrementTypes, CountTypes
    DEF TypeInv, RecordSuccess, FailCall, CountTaken, CloseCall, statVars
  <2> QED
    BY <1>2a, <2>1, <2>2, <2>3
    DEF TypeInv, RecordSuccess, FailCall, CountTaken, CloseCall, wireVars, statVars, runVars
<1>3. CASE ConfirmCall(w, c)
  <2>1. dialog' \in [Call -> Dialog \cup {NoDialog}]
    <3>1. CASE c \in Present /\ dialog' = [dialog EXCEPT ![c].state = "Confirmed"]
      BY <3>1, PresentTypes, FieldTypes DEF State
    <3>2. CASE UNCHANGED dialog
      BY <3>2 DEF TypeInv
    <3> QED BY <1>3, <3>1, <3>2 DEF ConfirmCall
  <2>2. requests' \in [Call -> SUBSET (Request \X CSeq)]
    <3>1. CASE UNCHANGED requests
      BY <3>1 DEF TypeInv
    <3>2. CASE c \in Present /\ Transmit(c, "ACK", dialog[c].cseq)
      <4>1. <<"ACK", dialog[c].cseq>> \in Request \X CSeq
        BY <3>2, PresentTypes DEF Dialog, Request
      <4> QED BY <3>2, <4>1 DEF Transmit, TypeInv
    <3> QED BY <1>3, <3>1, <3>2 DEF ConfirmCall
  <2>3. sleeping' \in [Call -> 0..MaxRefresh]
    <3>1. sleeping \in [Call -> 0..MaxRefresh] /\ MaxRefresh \in Nat
      BY CallsAssumption DEF TypeInv, CallsAssumption
    <3>2. (IF sleeping[c] < MaxRefresh THEN sleeping[c] + 1 ELSE sleeping[c]) \in 0..MaxRefresh
      BY <3>1, SMT
    <3> QED BY <1>3, <3>1, <3>2 DEF ConfirmCall
  <2>4. handling' \in [Receiver -> {Free} \cup Call \X (Response \cup Point)]
    BY <1>3, HandleTypes DEF ConfirmCall
  <2> QED BY <1>3, <2>1, <2>2, <2>3, <2>4 DEF TypeInv, ConfirmCall, statVars, runVars
<1>4. CASE AcceptChallenge(w, c)
  <2>1. handling' \in [Receiver -> {Free} \cup Call \X (Response \cup Point)]
    BY <1>4, HandleTypes DEF AcceptChallenge, Point
  <2> QED BY <1>4, <2>1 DEF TypeInv, AcceptChallenge, wireVars, statVars, runVars
<1>5. CASE FailChallenge(w, c)
  <2>1. dialog' \in [Call -> Dialog \cup {NoDialog}]
    <3>1. CASE c \in Present /\ dialog' = [dialog EXCEPT ![c].state = "Error"]
      BY <3>1, PresentTypes, FieldTypes DEF State
    <3>2. CASE UNCHANGED dialog
      BY <3>2 DEF TypeInv
    <3> QED BY <1>5, <3>1, <3>2 DEF FailChallenge
  <2>2. handling' \in [Receiver -> {Free} \cup Call \X (Response \cup Point)]
    BY <1>5, HandleTypes DEF FailChallenge
  <2>3. failure' \in [Call -> Nat]
    BY <1>5 DEF TypeInv, FailChallenge, RecordFailure
  <2> QED BY <1>5, <2>1, <2>2, <2>3 DEF TypeInv, FailChallenge, wireVars, runVars
<1>6. CASE AnswerChallenge(w, c)
  <2>1. handling' \in [Receiver -> {Free} \cup Call \X (Response \cup Point)]
    BY <1>6, HandleTypes DEF AnswerChallenge
  <2>2. CASE c \in Present /\ dialog[c].cseq < MaxCSeq
    <3>1. dialog[c].cseq + 1 \in CSeq
      BY <2>2, PresentTypes, CallsAssumption, SMT DEF Dialog, CSeq, CallsAssumption
    <3>2. CASE dialog' = [dialog EXCEPT ![c].auth = TRUE, ![c].cseq = @ + 1]
               /\ Transmit(c, AuthMethod(c), dialog[c].cseq + 1)
      <4> DEFINE n == dialog[c].cseq + 1
      <4>1. dialog' = [dialog EXCEPT ![c].auth = TRUE, ![c].cseq = n]
        BY <3>2, <2>2, PresentTypes DEF Dialog, TypeInv
      <4>2. dialog' \in [Call -> Dialog \cup {NoDialog}]
        BY <4>1, <3>1, <2>2, PresentTypes, FieldTypes
      <4>3. <<AuthMethod(c), n>> \in Request \X CSeq
        BY <3>1 DEF AuthMethod, Request
      <4>4. requests' \in [Call -> SUBSET (Request \X CSeq)]
        BY <3>2, <4>3 DEF Transmit, TypeInv
      <4> QED BY <1>6, <2>1, <4>2, <4>4 DEF TypeInv, AnswerChallenge, statVars, runVars
    <3> QED
      BY <1>6, <2>1, <2>2, <3>2 DEF AnswerChallenge
  <2>3. CASE c \notin Present
    BY <1>6, <2>1, <2>3 DEF TypeInv, AnswerChallenge, statVars, runVars
  <2> QED BY <1>6, <2>2, <2>3 DEF AnswerChallenge
<1> QED BY <1>1, <1>2, <1>2a, <1>3, <1>4, <1>5, <1>6 DEF HandleResponse

LEMMA ByeLoopTypes ==
  ASSUME BaseInv, ByeLoop
  PROVE  TypeInv'
<1> USE DEF BaseInv
<1>1. ASSUME NEW due \in SUBSET InviteCall, CollectForBye(due)
      PROVE  TypeInv'
  <2>1. \A c \in due : <<c, dialog[c].cseq>> \in InviteCall \X CSeq
    BY <1>1, PresentTypes DEF CollectForBye, Confirmed, Dialog
  <2>2. batch' \subseteq InviteCall \X CSeq
    BY <1>1, <2>1 DEF CollectForBye
  <2> QED BY <1>1, <2>2 DEF TypeInv, CollectForBye, wireVars, statVars, runVars
<1>2. ASSUME NEW c \in InviteCall, NEW n \in CSeq, SendBye(c, n)
      PROVE  TypeInv'
  <2>1. n + 1 \in CSeq
    BY <1>2, CallsAssumption, SMT DEF SendBye, CSeq, CallsAssumption
  <2>2. <<"BYE", n + 1>> \in Request \X CSeq /\ c \in Call
    BY <2>1 DEF Request, Call
  <2>3. requests' \in [Call -> SUBSET (Request \X CSeq)]
    BY <1>2, <2>2 DEF SendBye, Transmit, TypeInv
  <2>4. batch' \subseteq InviteCall \X CSeq /\ byeSent' \subseteq InviteCall \X CSeq
    BY <1>2, <2>1 DEF SendBye, TypeInv
  <2> QED BY <1>2, <2>3, <2>4 DEF TypeInv, SendBye, statVars, runVars
<1>3. ASSUME NEW c \in InviteCall, NEW n \in CSeq, NoteBye(c, n)
      PROVE  TypeInv'
  <2>1. dialog' \in [Call -> Dialog \cup {NoDialog}]
    <3>1. CASE c \in Present
               /\ dialog' = [dialog EXCEPT ![c].state = "Trying", ![c].cseq = n]
      BY <3>1, PresentTypes, FieldTypes DEF State
    <3>2. CASE UNCHANGED dialog
      BY <3>2 DEF TypeInv
    <3> QED BY <1>3, <3>1, <3>2 DEF NoteBye
  <2>2. byeSent' \subseteq InviteCall \X CSeq
    BY <1>3 DEF NoteBye
  <2> QED BY <1>3, <2>1, <2>2 DEF TypeInv, NoteBye, wireVars, statVars, runVars
<1> QED BY <1>1, <1>2, <1>3 DEF ByeLoop

LEMMA ReinviteTypes ==
  ASSUME BaseInv, NEW c \in InviteCall, ReinviteTask(c)
  PROVE  TypeInv'
<1> USE DEF BaseInv
<1> c \in Call
  BY DEF Call
<1>1. CASE SendReinvite(c)
  <2>1. sleeping' \in [Call -> 0..MaxRefresh]
    <3>1. sleeping \in [Call -> 0..MaxRefresh] /\ MaxRefresh \in Nat
      BY CallsAssumption DEF TypeInv, CallsAssumption
    <3>2. sleeping[c] - 1 \in 0..MaxRefresh
      BY <1>1, <3>1, SMT DEF SendReinvite
    <3> QED BY <1>1, <3>1, <3>2 DEF SendReinvite
  <2>2. CASE c \in Confirmed /\ dialog[c].cseq < MaxCSeq
    <3>1. dialog[c].cseq + 1 \in CSeq
      BY <2>2, PresentTypes, CallsAssumption, SMT DEF Confirmed, Dialog, CSeq, CallsAssumption
    <3>2. <<"REINVITE", dialog[c].cseq + 1>> \in Request \X CSeq
      BY <3>1 DEF Request
    <3>3. requests' \in [Call -> SUBSET (Request \X CSeq)]
      BY <1>1, <2>2, <3>2 DEF SendReinvite, Transmit, TypeInv
    <3>4. updating' \subseteq InviteCall \X CSeq
      BY <1>1, <2>2, <3>1 DEF SendReinvite, TypeInv
    <3> QED BY <1>1, <2>1, <3>3, <3>4 DEF TypeInv, SendReinvite, statVars, runVars
  <2>3. CASE c \notin Confirmed
    BY <1>1, <2>1, <2>3 DEF TypeInv, SendReinvite, statVars, runVars
  <2> QED BY <1>1, <2>2, <2>3 DEF SendReinvite
<1>2. ASSUME NEW n \in CSeq, NoteReinvite(c, n)
      PROVE  TypeInv'
  <2>1. dialog' \in [Call -> Dialog \cup {NoDialog}]
    <3>1. CASE c \in Present /\ dialog' = [dialog EXCEPT ![c].cseq = n]
      BY <3>1, PresentTypes, FieldTypes
    <3>2. CASE UNCHANGED dialog
      BY <3>2 DEF TypeInv
    <3> QED BY <1>2, <3>1, <3>2 DEF NoteReinvite
  <2> QED BY <1>2, <2>1 DEF TypeInv, NoteReinvite, wireVars, statVars, runVars
<1> QED BY <1>1, <1>2 DEF ReinviteTask

LEMMA ReplyTypes ==
  ASSUME TypeInv, NEW c \in Call, NEW r \in Response, Reply(c, r)
  PROVE  responses' \in [Call -> SUBSET Response]
<1>1. responses \in [Call -> SUBSET Response]
  BY DEF TypeInv
<1> QED BY <1>1 DEF Reply

LEMMA FarEndTypes ==
  ASSUME BaseInv, FarEnd
  PROVE  TypeInv'
<1> USE DEF BaseInv
<1>1. ASSUME NEW c \in Call, Challenge(c) \/ Reject(c) \/ Register(c)
      PROVE  TypeInv'
  <2>1. PICK r \in Response : Reply(c, r)
    BY <1>1 DEF Challenge, Reject, Register, Response
  <2>2. UNCHANGED <<uacVars, uas, requests, statVars, runVars, closed, drifted>>
    BY <1>1 DEF Challenge, Reject, Register
  <2> QED BY <2>1, <2>2, ReplyTypes DEF TypeInv, uacVars, statVars, runVars
<1>2. ASSUME NEW c \in InviteCall, UasInvite(c)
      PROVE  TypeInv'
  <2>1. responses' \in [Call -> SUBSET Response]
    <3>1. CASE Reply(c, "INVITE 200")
      BY <3>1, ReplyTypes DEF Response, Call
    <3>2. CASE UNCHANGED responses
      BY <3>2 DEF TypeInv
    <3> QED BY <1>2, <3>1, <3>2 DEF UasInvite
  <2>2. active' \in 0..(Wrap - 1)
    <3>1. active \in 0..(Wrap - 1) /\ active + 1 \in Int
      BY CallsFinite, SMT DEF TypeInv
    <3> QED BY <1>2, <3>1, WrapFacts DEF UasInvite
  <2>3. /\ uas' \in [InviteCall -> {"None", "Early", "Confirmed"}]
        /\ drifted' \in BOOLEAN
    BY <1>2 DEF UasInvite, TypeInv
  <2> QED BY <1>2, <2>1, <2>2, <2>3 DEF TypeInv, UasInvite, uacVars, runVars
<1>3. ASSUME NEW c \in InviteCall, UasAck(c)
      PROVE  TypeInv'
  BY <1>3 DEF TypeInv, UasAck, uacVars, wireVars, statVars, runVars
<1>4. ASSUME NEW c \in InviteCall, UasBye(c)
      PROVE  TypeInv'
  <2>1. responses' \in [Call -> SUBSET Response]
    BY <1>4, ReplyTypes DEF UasBye, Response, Call
  <2>2. active' \in 0..(Wrap - 1)
    <3>1. active \in 0..(Wrap - 1) /\ active - 1 \in Int
      BY CallsFinite, SMT DEF TypeInv
    <3> QED BY <1>4, <3>1, WrapFacts DEF UasBye
  <2>3. /\ uas' \in [InviteCall -> {"None", "Early", "Confirmed"}]
        /\ closed' \subseteq InviteCall
    BY <1>4 DEF UasBye, TypeInv
  <2> QED BY <1>4, <2>1, <2>2, <2>3 DEF TypeInv, UasBye, uacVars, runVars
<1> QED BY <1>1, <1>2, <1>3, <1>4 DEF FarEnd

LEMMA OrchestratorTypes ==
  ASSUME BaseInv, Orchestrator
  PROVE  TypeInv'
<1> USE DEF BaseInv
<1>p. Present \subseteq Call
  BY DEF Present
<1>1. CASE Drain \/ Drained \/ CleanUp \/ NextStep \/ ShutDown
  <2>1. /\ phase' \in {"sending", "draining", "cleaning", "reported", "stopping", "stopped"}
        /\ doomed' \subseteq Call
        /\ UNCHANGED <<uacVars, uas, wireVars, statVars, removed, leaving, closed, drifted>>
    BY <1>1, <1>p DEF Drain, Drained, CleanUp, NextStep, ShutDown, TypeInv
  <2>2. step' \in Nat \ {0}
    BY <1>1 DEF Drain, Drained, CleanUp, NextStep, ShutDown, TypeInv
  <2> QED BY <2>1, <2>2 DEF TypeInv, uacVars, wireVars, statVars
<1>2. CASE CountRemoved
  <2>1. failure' \in [Call -> Nat]
    BY <1>2 DEF CountRemoved, TypeInv
  <2>2. active' \in 0..(Wrap - 1)
    <3>1. Cardinality(removed) \in Int
      BY CallsFinite, FS_Subset, FS_CardinalityType DEF TypeInv
    <3> QED BY <1>2, <3>1, WrapFacts DEF CountRemoved, TypeInv
  <2> QED BY <1>2, <2>1, <2>2 DEF TypeInv, CountRemoved, uacVars, wireVars
<1>3. CASE Exit
  BY <1>3 DEF TypeInv, Exit, uacVars, wireVars, statVars
<1>4. ASSUME NEW c \in Call, ForceRemove(c)
      PROVE  TypeInv'
  <2>1. dialog' \in [Call -> Dialog \cup {NoDialog}]
    BY <1>4, RemoveTypes DEF ForceRemove, TypeInv
  <2> QED BY <1>4, <2>1 DEF TypeInv, ForceRemove, wireVars, statVars
<1>4a. ASSUME NEW c \in Call, CountForced(c)
      PROVE  TypeInv'
  <2>1. activeCount' \in Int
    BY <1>4a, CountTypes DEF CountForced
  <2> QED BY <1>4a, <2>1 DEF TypeInv, CountForced, wireVars, statVars
<1>5. ASSUME NEW c \in Call, ShutDownBye(c)
      PROVE  TypeInv'
  <2>1. requests' \in [Call -> SUBSET (Request \X CSeq)]
    <3>1. CASE /\ c \in Confirmed /\ dialog[c].cseq < MaxCSeq
               /\ Transmit(c, "BYE", dialog[c].cseq + 1)
      <4>1. dialog[c].cseq + 1 \in CSeq
        BY <3>1, PresentTypes, CallsAssumption, SMT
        DEF Confirmed, Dialog, CSeq, CallsAssumption
      <4>2. <<"BYE", dialog[c].cseq + 1>> \in Request \X CSeq
        BY <4>1 DEF Request
      <4> QED BY <3>1, <4>2 DEF Transmit, TypeInv
    <3>2. CASE UNCHANGED requests
      BY <3>2 DEF TypeInv
    <3> QED BY <1>5, <3>1, <3>2 DEF ShutDownBye
  <2> QED BY <1>5, <2>1 DEF TypeInv, ShutDownBye, uacVars, statVars
<1>6. ASSUME NEW c \in Call, ShutDownRemove(c)
      PROVE  TypeInv'
  <2>1. dialog' \in [Call -> Dialog \cup {NoDialog}]
    BY <1>6, RemoveTypes DEF ShutDownRemove, TypeInv
  <2>2. active' \in 0..(Wrap - 1) /\ drifted' \in BOOLEAN
    BY <1>6, DecrementTypes DEF ShutDownRemove, TypeInv
  <2> QED BY <1>6, <2>1, <2>2 DEF TypeInv, ShutDownRemove, wireVars
<1>7. ASSUME NEW c \in Call, ShutDownCount(c)
      PROVE  TypeInv'
  <2>1. activeCount' \in Int /\ active' \in 0..(Wrap - 1)
    BY <1>7, CountTypes, DecrementTypes DEF ShutDownCount
  <2> QED BY <1>7, <2>1 DEF TypeInv, ShutDownCount, wireVars
<1> QED BY <1>1, <1>2, <1>3, <1>4, <1>4a, <1>5, <1>6, <1>7 DEF Orchestrator

-----------------------------------------------------------------------------
(* What was sent. *)

\* A handler at work is about a call that was sent.
LEMMA HandledSent ==
  ASSUME BaseInv, NEW w \in Receiver, NEW c \in Call, NEW p \in Response \cup Point,
         handling[w] = <<c, p>>
  PROVE  /\ sender[c] = "done"
         /\ requests[c] # {}
         /\ \E r \in responses[c] : p \in Reach(r)
         /\ p \in Response => p \in responses[c]
         /\ p = "resend" => "401/407" \in responses[c]
<1>1. PICK r \in responses[c] : p \in Reach(r)
  BY DEF BaseInv, SentInv, Traced
<1>2. requests[c] # {} /\ sender[c] = "done"
  BY <1>1 DEF BaseInv, SentInv
<1>3. p \in Response => p = r
  BY <1>1 DEF Reach, Response
<1>4. r \in Response
  BY DEF BaseInv, TypeInv
<1>5. p = "resend" => r = "401/407"
  BY <1>1, <1>4 DEF Reach, Response
<1> QED BY <1>1, <1>2, <1>3, <1>5

LEMMA EstablishedSent ==
  ASSUME BaseInv, NEW c \in Confirmed
  PROVE  c \in Call /\ sender[c] = "done"
BY DEF BaseInv, SentInv, TypeInv, Confirmed, Present, NoDialog

LEMMA TracedKept ==
  ASSUME BaseInv, \A c \in Call : responses[c] \subseteq responses'[c],
         \/ handling' = handling
         \/ \E w \in Receiver : handling' = [handling EXCEPT ![w] = Free]
         \/ \E w \in Receiver, c \in Call, p \in Response \cup Point :
              /\ handling' = [handling EXCEPT ![w] = <<c, p>>]
              /\ \E r \in responses[c] : p \in Reach(r)
  PROVE  Traced'
<1> SUFFICES ASSUME NEW v \in Receiver, NEW d \in Call, NEW q \in Response \cup Point,
                    handling'[v] = <<d, q>>
             PROVE  \E r \in responses[d] : q \in Reach(r)
  BY DEF Traced
<1>0. handling \in [Receiver -> {Free} \cup Call \X (Response \cup Point)]
  BY DEF BaseInv, TypeInv
<1>1. CASE handling'[v] = handling[v]
  BY <1>1 DEF BaseInv, SentInv, Traced
<1>2. Free # <<d, q>>
  BY DEF Free
<1>3. ASSUME NEW c \in Call, NEW p \in Response \cup Point, handling'[v] = <<c, p>>,
             \E r \in responses[c] : p \in Reach(r)
      PROVE  \E r \in responses[d] : q \in Reach(r)
  BY <1>3
<1> QED BY <1>0, <1>1, <1>2, <1>3

\* A step of the receive loops, the BYE loop, the re-INVITE tasks or the far end.
LEMMA SentKept ==
  ASSUME BaseInv, UNCHANGED <<sender, phase, doomed, removed, leaving>>, Traced',
         \A c \in Call : requests[c] \subseteq requests'[c],
         \A c \in Call : requests'[c] = requests[c] \/ sender[c] = "done",
         \A c \in Call : responses'[c] = responses[c] \/ requests[c] # {},
         \A c \in Call : dialog'[c] = dialog[c] \/ sender[c] = "done",
         \A c \in InviteCall, n \in CSeq :
           <<c, n>> \in batch' \cup byeSent' \cup updating' =>
             sender[c] = "done"
  PROVE  SentInv'
BY DEF BaseInv, SentInv, Sending

LEMMA SenderSent ==
  ASSUME BaseInv, NEW c \in Call, SendTask(c)
  PROVE  SentInv'
<1>1. phase = "sending" /\ sender[c] # "done"
  BY DEF SendTask, StartCall, InsertDialog, SendRequest, BaseInv, SentInv, Sending
<1>2. requests[c] = {} /\ responses[c] = {}
  BY <1>1 DEF BaseInv, SentInv
<1>3. Traced'
  <2>1. handling' = handling /\ responses' = responses
    BY DEF SendTask, StartCall, InsertDialog, SendRequest, wireVars
  <2> QED BY <2>1, TracedKept
<1>4. phase' = "sending" /\ doomed' = {} /\ removed' = {} /\ leaving' = {}
  BY <1>1 DEF SendTask, StartCall, InsertDialog, SendRequest, runVars, BaseInv, SentInv
<1>5. \A d \in InviteCall, n \in CSeq :
        <<d, n>> \in batch' \cup byeSent' \cup updating' => sender'[d] = "done"
  <2>1. UNCHANGED <<batch, byeSent, updating>>
    BY DEF SendTask, StartCall, InsertDialog, SendRequest
  <2>2. \A d \in Call : sender[d] = "done" => sender'[d] = "done"
    BY <1>1 DEF SendTask, StartCall, InsertDialog, SendRequest, BaseInv, TypeInv
  <2> QED BY <2>1, <2>2 DEF BaseInv, SentInv, Call
<1>6. CASE StartCall(c)
  <2>1. /\ UNCHANGED <<requests, responses, dialog>>
        /\ \A d \in Call : d # c => sender'[d] = sender[d]
        /\ sender'[c] \in {"checked", "done"} /\ sender[c] = "new"
    BY <1>6 DEF StartCall, wireVars, BaseInv, TypeInv
  <2> QED BY <1>2, <1>3, <1>4, <1>5, <2>1 DEF BaseInv, SentInv
<1>7. CASE InsertDialog(c)
  <2>1. /\ UNCHANGED <<requests, responses>>
        /\ \A d \in Call : d # c => sender'[d] = sender[d] /\ dialog'[d] = dialog[d]
        /\ sender'[c] = "inserted"
        /\ dialog'[c] = [state |-> "Initial", cseq |-> 1, auth |-> FALSE]
    BY <1>7 DEF InsertDialog, wireVars, BaseInv, TypeInv
  <2> QED BY <1>2, <1>3, <1>4, <1>5, <2>1 DEF BaseInv, SentInv
<1>8. CASE SendRequest(c)
  <2>1. /\ UNCHANGED responses
        /\ \A d \in Call : d # c => /\ sender'[d] = sender[d] /\ dialog'[d] = dialog[d]
                                    /\ requests'[d] = requests[d]
        /\ sender'[c] = "done"
    BY <1>8 DEF SendRequest, Transmit, BaseInv, TypeInv
  <2> QED BY <1>2, <1>3, <1>4, <1>5, <2>1 DEF BaseInv, SentInv
<1> QED BY <1>6, <1>7, <1>8 DEF SendTask

LEMMA RemovesOne ==
  ASSUME TypeInv, NEW c \in Call, RemoveDialog(c)
  PROVE  /\ \A d \in Call : d # c => dialog'[d] = dialog[d]
         /\ dialog'[c] = NoDialog
         /\ Present' = Present \ {c}
BY DEF TypeInv, RemoveDialog, Present

LEMMA TransmitGrows ==
  ASSUME TypeInv, NEW c \in Call, NEW r, NEW n, Transmit(c, r, n)
  PROVE  /\ \A d \in Call : requests[d] \subseteq requests'[d]
         /\ \A d \in Call : d # c => requests'[d] = requests[d]
         /\ requests'[c] = requests[c] \cup {<<r, n>>}
BY DEF TypeInv, Transmit

LEMMA ReplyGrows ==
  ASSUME TypeInv, NEW c \in Call, NEW r, Reply(c, r)
  PROVE  /\ \A d \in Call : responses[d] \subseteq responses'[d]
         /\ \A d \in Call : d # c => responses'[d] = responses[d]
         /\ responses'[c] = responses[c] \cup {r}
BY DEF TypeInv, Reply

\* The points that come next.
Onward(r) ==
  (IF r \in {"BYE 200", "REGISTER 200"} THEN {"taken", "record"} ELSE {})
    \cup (IF r = "taken" THEN {"record"} ELSE {})
    \cup (IF r = "record" THEN {"close"} ELSE {})
    \cup (IF r \in {"INVITE 4xx", "REGISTER 4xx", "BYE 481"} THEN {"failed"} ELSE {})
    \cup (IF r = "failed" THEN {"dropped", "close"} ELSE {})
    \cup (IF r = "dropped" THEN {"close"} ELSE {})
    \cup (IF r = "401/407" THEN {"resend"} ELSE {})

LEMMA HandlerMoves ==
  ASSUME NEW w \in Receiver, NEW c \in Call, HandleResponse(w, c)
  PROVE  /\ UNCHANGED <<sender, uas, batch, byeSent, updating, responses, runVars, closed>>
         /\ \/ \E r \in Response : Receive(w, c, r)
            \/ \E r \in Response \cup Point :
                 /\ handling[w] = <<c, r>>
                 /\ \/ handling' = [handling EXCEPT ![w] = Free]
                    \/ \E p \in Point \cap Onward(r) : handling' = [handling EXCEPT ![w] = <<c, p>>]
<1>1. CASE \E r \in Response : Receive(w, c, r)
  BY <1>1 DEF Receive, wireVars
<1>2. CASE CompleteCall(w, c) \/ DropCall(w, c)
  <2>1. PICK r \in {"BYE 200", "REGISTER 200", "failed"}, p \in Point, q \in Point :
          /\ RemoveOwn(w, c, r, p, q)
          /\ p \in Onward(r) /\ q \in Onward(r)
    BY <1>2 DEF CompleteCall, DropCall, Onward, Point
  <2>2. r \in Response \cup Point
    BY DEF Response, Point
  <2>3. handling[w] = <<c, r>> /\ \E t \in {p, q} : handling' = [handling EXCEPT ![w] = <<c, t>>]
    BY <2>1 DEF RemoveOwn, Continue
  <2> QED BY <1>2, <2>1, <2>2, <2>3 DEF CompleteCall, DropCall, wireVars
<1>3. CASE RecordSuccess(w, c) \/ FailCall(w, c) \/ CountTaken(w, c) \/ AcceptChallenge(w, c)
  <2>1. PICK r \in Response \cup Point, p \in Point : p \in Onward(r) /\ Continue(w, c, r, p)
    BY <1>3 DEF RecordSuccess, FailCall, CountTaken, AcceptChallenge, Onward, Response, Point
  <2> QED
    BY <1>3, <2>1 DEF RecordSuccess, FailCall, CountTaken, AcceptChallenge, Continue, wireVars
<1>4. CASE \/ CloseCall(w, c) \/ ConfirmCall(w, c) \/ FailChallenge(w, c)
           \/ AnswerChallenge(w, c)
  <2>1. PICK r \in Response \cup Point : Handle(w, c, r)
    BY <1>4 DEF CloseCall, ConfirmCall, FailChallenge, AnswerChallenge, Response, Point
  <2> QED
    BY <1>4, <2>1 DEF CloseCall, ConfirmCall, FailChallenge, AnswerChallenge, Handle, wireVars
<1> QED BY <1>1, <1>2, <1>3, <1>4 DEF HandleResponse

LEMMA ReceiverSent ==
  ASSUME BaseInv, NEW w \in Receiver, ReceiveLoop(w)
  PROVE  SentInv'
<1> USE DEF BaseInv
<1> PICK c \in Call : HandleResponse(w, c)
  BY DEF ReceiveLoop
<1>1. /\ UNCHANGED <<sender, phase, doomed, removed, leaving, batch, byeSent, updating>>
      /\ UNCHANGED responses
  BY HandlerMoves DEF runVars
<1>2. Traced'
  <2>1. CASE \E r \in Response : Receive(w, c, r)
    <3>1. PICK r \in Response : handling' = [handling EXCEPT ![w] = <<c, r>>] /\ r \in responses[c]
      BY <2>1 DEF Receive
    <3>2. r \in Reach(r)
      BY DEF Reach
    <3> QED BY <1>1, <3>1, <3>2, TracedKept
  <2>2. CASE handling' = [handling EXCEPT ![w] = Free]
    BY <1>1, <2>2, TracedKept
  <2>3. ASSUME NEW q \in Response \cup Point, NEW p \in Point \cap Onward(q),
               handling[w] = <<c, q>>, handling' = [handling EXCEPT ![w] = <<c, p>>]
        PROVE  Traced'
    <3>1. PICK r \in responses[c] : q \in Reach(r)
      BY <2>3, HandledSent
    <3>2. r \in Response
      BY DEF TypeInv
    <3>3. p \in Reach(r)
      BY <3>1, <3>2 DEF Reach, Onward, Response
    <3> QED BY <1>1, <2>3, <3>3, TracedKept
  <2> QED BY <2>1, <2>2, <2>3, HandlerMoves
<1>3. /\ \A d \in Call : d # c => dialog'[d] = dialog[d] /\ requests'[d] = requests[d]
      /\ \A d \in Call : requests[d] \subseteq requests'[d]
  <2>1. CASE \/ \E r \in Response : Receive(w, c, r)
             \/ AcceptChallenge(w, c) \/ RecordSuccess(w, c) \/ FailCall(w, c)
             \/ CountTaken(w, c) \/ CloseCall(w, c)
    BY <2>1 DEF Receive, AcceptChallenge, RecordSuccess, FailCall, CountTaken, CloseCall,
                wireVars
  <2>2. CASE CompleteCall(w, c) \/ DropCall(w, c)
    <3>1. (RemoveDialog(c) \/ UNCHANGED dialog) /\ UNCHANGED requests
      BY <2>2 DEF CompleteCall, DropCall, RemoveOwn, wireVars
    <3> QED BY <3>1, RemovesOne
  <2>3. CASE ConfirmCall(w, c)
    <3>1. \A d \in Call : d # c => dialog'[d] = dialog[d]
      BY <2>3 DEF ConfirmCall, TypeInv
    <3>2. UNCHANGED requests \/ Transmit(c, "ACK", dialog[c].cseq)
      BY <2>3 DEF ConfirmCall
    <3> QED BY <3>1, <3>2, TransmitGrows
  <2>4. CASE FailChallenge(w, c)
    BY <2>4 DEF FailChallenge, wireVars, TypeInv
  <2>5. CASE AnswerChallenge(w, c)
    <3>1. \A d \in Call : d # c => dialog'[d] = dialog[d]
      BY <2>5 DEF AnswerChallenge, TypeInv
    <3>2. UNCHANGED requests \/ Transmit(c, AuthMethod(c), dialog[c].cseq + 1)
      BY <2>5 DEF AnswerChallenge
    <3> QED BY <3>1, <3>2, TransmitGrows
  <2> QED BY <2>1, <2>2, <2>3, <2>4, <2>5 DEF HandleResponse
<1>4. UNCHANGED <<dialog, requests>> \/ sender[c] = "done"
  <2>1. CASE \E r \in Response : Receive(w, c, r)
    BY <2>1 DEF Receive, wireVars
  <2>2. CASE \E r \in Response \cup Point : handling[w] = <<c, r>>
    BY <2>2, HandledSent
  <2> QED BY <2>1, <2>2, HandlerMoves
<1>5. \A d \in InviteCall, n \in CSeq :
        <<d, n>> \in batch' \cup byeSent' \cup updating' => sender[d] = "done"
  BY <1>1 DEF SentInv
<1> QED BY <1>1, <1>2, <1>3, <1>4, <1>5, SentKept

LEMMA ByeLoopSent ==
  ASSUME BaseInv, ByeLoop
  PROVE  SentInv'
<1> USE DEF BaseInv
<1> InviteCall \subseteq Call
  BY DEF Call
<1>1. ASSUME NEW due \in SUBSET InviteCall, CollectForBye(due)
      PROVE  SentInv'
  <2>1. \A c \in due : sender[c] = "done"
    BY <1>1, EstablishedSent DEF CollectForBye
  <2>2. /\ UNCHANGED <<sender, phase, doomed, removed, leaving, handling, requests,
                       responses, dialog, byeSent, updating>>
        /\ batch' = {<<c, dialog[c].cseq>> : c \in due}
    BY <1>1 DEF CollectForBye, runVars, wireVars
  <2>3. \A c \in InviteCall, n \in CSeq :
          <<c, n>> \in batch' \cup byeSent' \cup updating' => sender[c] = "done"
    BY <2>1, <2>2 DEF SentInv
  <2>4. Traced'
    BY <2>2, TracedKept
  <2> QED BY <2>2, <2>3, <2>4, SentKept
<1>2. ASSUME NEW c \in InviteCall, NEW n \in CSeq, SendBye(c, n)
      PROVE  SentInv'
  <2>1. /\ UNCHANGED <<sender, phase, doomed, removed, leaving, handling, responses, dialog,
                       updating>>
        /\ batch' \subseteq batch /\ byeSent' = {<<c, n + 1>>} /\ <<c, n>> \in batch
        /\ Transmit(c, "BYE", n + 1)
    BY <1>2 DEF SendBye, runVars
  <2>2. sender[c] = "done"
    BY <2>1 DEF SentInv
  <2>3. \A d \in InviteCall, m \in CSeq :
          <<d, m>> \in batch' \cup byeSent' \cup updating' => sender[d] = "done"
    BY <2>1, <2>2 DEF SentInv
  <2>4. Traced'
    BY <2>1, TracedKept
  <2> QED BY <2>1, <2>2, <2>3, <2>4, TransmitGrows, SentKept
<1>3. ASSUME NEW c \in InviteCall, NEW n \in CSeq, NoteBye(c, n)
      PROVE  SentInv'
  <2>1. /\ UNCHANGED <<sender, phase, doomed, removed, leaving, handling, requests, responses,
                       batch, updating>>
        /\ byeSent' = {} /\ <<c, n>> \in byeSent
        /\ \A d \in Call : d # c => dialog'[d] = dialog[d]
    BY <1>3 DEF NoteBye, runVars, wireVars, TypeInv
  <2>2. sender[c] = "done"
    BY <2>1 DEF SentInv
  <2>3. \A d \in InviteCall, m \in CSeq :
          <<d, m>> \in batch' \cup byeSent' \cup updating' => sender[d] = "done"
    BY <2>1 DEF SentInv
  <2>4. Traced'
    BY <2>1, TracedKept
  <2> QED BY <2>1, <2>2, <2>3, <2>4, SentKept
<1> QED BY <1>1, <1>2, <1>3 DEF ByeLoop

LEMMA ReinviteSent ==
  ASSUME BaseInv, NEW c \in InviteCall, ReinviteTask(c)
  PROVE  SentInv'
<1> USE DEF BaseInv
<1> c \in Call
  BY DEF Call
<1>1. CASE SendReinvite(c)
  <2>1. /\ UNCHANGED <<sender, phase, doomed, removed, leaving, handling, responses, dialog,
                       batch, byeSent>>
        /\ \/ /\ c \in Confirmed
              /\ Transmit(c, "REINVITE", dialog[c].cseq + 1)
              /\ updating' = updating \cup {<<c, dialog[c].cseq + 1>>}
           \/ UNCHANGED <<requests, updating>>
    BY <1>1 DEF SendReinvite, runVars
  <2>2. UNCHANGED <<requests, updating>> \/ sender[c] = "done"
    BY <2>1, EstablishedSent
  <2>3. \A d \in InviteCall, m \in CSeq :
          <<d, m>> \in batch' \cup byeSent' \cup updating' => sender[d] = "done"
    BY <2>1, <2>2 DEF SentInv
  <2>4. Traced'
    BY <2>1, TracedKept
  <2> QED BY <2>1, <2>2, <2>3, <2>4, TransmitGrows, SentKept
<1>2. ASSUME NEW n \in CSeq, NoteReinvite(c, n)
      PROVE  SentInv'
  <2>1. /\ UNCHANGED <<sender, phase, doomed, removed, leaving, handling, requests, responses,
                       batch, byeSent>>
        /\ updating' \subseteq updating /\ <<c, n>> \in updating
        /\ \A d \in Call : d # c => dialog'[d] = dialog[d]
    BY <1>2 DEF NoteReinvite, runVars, wireVars, TypeInv
  <2>2. sender[c] = "done"
    BY <2>1 DEF SentInv
  <2>3. \A d \in InviteCall, m \in CSeq :
          <<d, m>> \in batch' \cup byeSent' \cup updating' => sender[d] = "done"
    BY <2>1 DEF SentInv
  <2>4. Traced'
    BY <2>1, TracedKept
  <2> QED BY <2>1, <2>2, <2>3, <2>4, SentKept
<1> QED BY <1>1, <1>2 DEF ReinviteTask

LEMMA FarEndSent ==
  ASSUME BaseInv, FarEnd
  PROVE  SentInv'
<1> USE DEF BaseInv
<1>1. /\ UNCHANGED <<sender, phase, doomed, removed, leaving, handling, requests, dialog,
                     batch, byeSent, updating>>
      /\ \/ UNCHANGED responses
         \/ \E c \in Call, r \in Response : Reply(c, r) /\ requests[c] # {}
  <2>1. ASSUME NEW c \in Call, Challenge(c) \/ Reject(c) \/ Register(c)
        PROVE  \E r \in Response : Reply(c, r) /\ requests[c] # {}
    BY <2>1 DEF Challenge, Reject, Register, OnWire, Response
  <2>2. ASSUME NEW c \in InviteCall, UasInvite(c) \/ UasAck(c) \/ UasBye(c)
        PROVE  UNCHANGED responses \/ \E r \in Response : Reply(c, r) /\ requests[c] # {}
    BY <2>2 DEF UasInvite, UasAck, UasBye, OnWire, Response, wireVars
  <2>3. UNCHANGED <<sender, phase, doomed, removed, leaving, handling, requests, dialog,
                    batch, byeSent, updating>>
    BY DEF FarEnd, Challenge, Reject, Register, UasInvite, UasAck, UasBye, uacVars, wireVars,
           runVars
  <2> QED BY <2>1, <2>2, <2>3 DEF FarEnd, Call
<1>2. /\ \A c \in Call : responses[c] \subseteq responses'[c]
      /\ \A c \in Call : responses'[c] = responses[c] \/ requests[c] # {}
  BY <1>1, ReplyGrows
<1>3. Traced'
  BY <1>1, <1>2, TracedKept
<1>4. \A d \in InviteCall, m \in CSeq :
        <<d, m>> \in batch' \cup byeSent' \cup updating' => sender[d] = "done"
  BY <1>1 DEF SentInv
<1> QED BY <1>1, <1>2, <1>3, <1>4, SentKept

LEMMA OrchestratorSent ==
  ASSUME BaseInv, Orchestrator
  PROVE  SentInv'
<1> USE DEF BaseInv
<1>1. /\ UNCHANGED <<sender, handling, batch, byeSent, updating, responses>>
      /\ Sending' = Sending
  BY DEF Orchestrator, Drain, Drained, CleanUp, CountRemoved, NextStep, ShutDown, Exit,
         ForceRemove, CountForced, ShutDownBye, ShutDownRemove, ShutDownCount, uacVars,
         wireVars, Sending
<1>2. Traced'
  BY <1>1, TracedKept
<1>3. \A d \in InviteCall, m \in CSeq :
        <<d, m>> \in batch' \cup byeSent' \cup updating' => sender'[d] = "done"
  BY <1>1 DEF SentInv
<1>4. /\ \A c \in Call : dialog'[c] = dialog[c] \/ sender[c] = "done"
      /\ \A c \in Call : requests[c] \subseteq requests'[c]
      /\ \A c \in Call : requests'[c] = requests[c] \/ sender[c] = "done"
  <2>1. CASE \/ Drain \/ Drained \/ CleanUp \/ CountRemoved \/ NextStep \/ ShutDown \/ Exit
             \/ \E c \in Call : CountForced(c) \/ ShutDownCount(c)
    BY <2>1 DEF Drain, Drained, CleanUp, CountRemoved, NextStep, ShutDown, Exit, CountForced,
                ShutDownCount, uacVars, wireVars
  <2>2. ASSUME NEW c \in Call, ForceRemove(c) \/ ShutDownRemove(c)
        PROVE  <1>4!:
    <3>1. UNCHANGED requests /\ (RemoveDialog(c) \/ UNCHANGED dialog)
      BY <2>2 DEF ForceRemove, ShutDownRemove, wireVars
    <3>2. RemoveDialog(c) => sender[c] = "done"
      BY <2>2 DEF ForceRemove, ShutDownRemove, RemoveDialog, Present, SentInv, Sending, TypeInv
    <3> QED BY <3>1, <3>2, RemovesOne
  <2>3. ASSUME NEW c \in Call, ShutDownBye(c)
        PROVE  <1>4!:
    <3>1. UNCHANGED dialog
      BY <2>3 DEF ShutDownBye, uacVars
    <3>2. CASE c \in Confirmed /\ Transmit(c, "BYE", dialog[c].cseq + 1)
      BY <3>1, <3>2, EstablishedSent, TransmitGrows
    <3>3. CASE UNCHANGED requests
      BY <3>1, <3>3
    <3> QED BY <2>3, <3>2, <3>3 DEF ShutDownBye
  <2> QED BY <2>1, <2>2, <2>3 DEF Orchestrator
<1>5. /\ phase' # "sending" => Sending = {}
      /\ phase' \in {"sending", "draining", "reported"} => doomed' = {}
      /\ phase' # "cleaning" => removed' \subseteq leaving'
      /\ phase' \notin {"stopping", "stopped"} => leaving' = {}
  <2>1. CASE Drain \/ Drained \/ CleanUp \/ CountRemoved \/ NextStep \/ ShutDown \/ Exit
    BY <2>1 DEF Drain, Drained, CleanUp, CountRemoved, NextStep, ShutDown, Exit, SentInv, Quiet
  <2>2. ASSUME NEW c \in Call,
               \/ ForceRemove(c) \/ CountForced(c) \/ ShutDownBye(c)
               \/ ShutDownRemove(c) \/ ShutDownCount(c)
        PROVE  <1>5!:
    BY <2>2 DEF ForceRemove, CountForced, ShutDownBye, ShutDownRemove, ShutDownCount, SentInv
  <2> QED BY <2>1, <2>2 DEF Orchestrator
<1> QED BY <1>1, <1>2, <1>3, <1>4, <1>5 DEF SentInv

LEMMA BaseStep ==
  ASSUME BaseInv, [Next]_vars
  PROVE  BaseInv'
<1>1. CASE UNCHANGED vars
  BY <1>1 DEF vars, uacVars, wireVars, statVars, runVars, BaseInv, TypeInv, SentInv, Traced,
              Sending
<1>2. CASE Next
  BY <1>2, SenderTypes, ReceiverTypes, ByeLoopTypes, ReinviteTypes, FarEndTypes,
     OrchestratorTypes, SenderSent, ReceiverSent, ByeLoopSent, ReinviteSent, FarEndSent,
     OrchestratorSent DEF Next, BaseInv
<1> QED BY <1>1, <1>2

LEMMA BaseHolds == Spec => []BaseInv
BY BaseInit, BaseStep, PTL DEF Spec

-----------------------------------------------------------------------------
(* Who is open: the dialogs of calls that were sent (Open), those being    *)
(* created (Sending), and the dialogs of the UAS.                          *)

Far == {c \in InviteCall : uas[c] # "None"}

LEMMA OpenFinite ==
  ASSUME TypeInv
  PROVE  /\ IsFiniteSet(Open) /\ IsFiniteSet(Sending) /\ IsFiniteSet(Far)
         /\ IsFiniteSet(removed) /\ IsFiniteSet(Present)
         /\ IsFiniteSet(Leaving) /\ IsFiniteSet(Settling)
         /\ Cardinality(Open) \in Nat /\ Cardinality(Sending) \in Nat
         /\ Cardinality(Far) \in Nat /\ Cardinality(removed) \in Nat
         /\ Cardinality(Leaving) \in Nat /\ Cardinality(Settling) \in Nat
         /\ Cardinality(Far) <= Cardinality(Call)
<1>1. /\ Open \subseteq Call /\ Sending \subseteq Call /\ Far \subseteq Call
      /\ removed \subseteq Call /\ Present \subseteq Call
      /\ Leaving \subseteq Call /\ Settling \subseteq Call
  BY DEF TypeInv, Open, Present, Sending, Far, Call, Leaving, Settling, At
<1>2. \A S \in SUBSET Call : IsFiniteSet(S) /\ Cardinality(S) \in Nat
                             /\ Cardinality(S) <= Cardinality(Call)
  BY CallsFinite, FS_Subset, FS_CardinalityType
<1> QED BY <1>1, <1>2

\* Assigning to a field does not remove a dialog.
LEMMA FieldsKeepPresent ==
  ASSUME TypeInv, NEW c \in Present, NEW s \in State, NEW n, NEW a,
         \/ dialog' = [dialog EXCEPT ![c].state = s]
         \/ dialog' = [dialog EXCEPT ![c].cseq = n]
         \/ dialog' = [dialog EXCEPT ![c].state = s, ![c].cseq = n]
         \/ dialog' = [dialog EXCEPT ![c].auth = a, ![c].cseq = n]
  PROVE  /\ Present' = Present
         /\ \A d \in Call : d # c => dialog'[d] = dialog[d]
<1>1. c \in Call /\ dialog[c] \in Dialog /\ dialog[c].state \in State
  BY PresentTypes DEF Dialog, State
<1>2. \A d \in Call : d # c => dialog'[d] = dialog[d]
  BY DEF TypeInv
<1>3. dialog'[c].state \in State
  BY <1>1 DEF TypeInv, Dialog
<1>4. dialog'[c] # NoDialog
  BY <1>3 DEF NoDialog, State
<1> QED BY <1>1, <1>2, <1>4 DEF Present

LEMMA RemoveEffect ==
  ASSUME BaseInv, NEW c \in Call, RemoveDialog(c), UNCHANGED sender, sender[c] = "done"
  PROVE  /\ Open' = Open \ {c} /\ c \in Open /\ Sending' = Sending
         /\ Present' = Present \ {c}
<1>1. Present' = Present \ {c} /\ c \in Present
  BY RemovesOne DEF BaseInv, RemoveDialog
<1> QED BY <1>1 DEF Open, Sending

LEMMA StartEffect ==
  ASSUME BaseInv, NEW c \in Call, StartCall(c)
  PROVE  /\ Open' = Open /\ Far' = Far /\ Present' = Present
         /\ UNCHANGED <<activeCount, active, handling, removed, doomed, leaving, drifted, phase>>
         /\ \/ Sending' = Sending
            \/ /\ activeCount < MaxDialogs /\ Cardinality(Sending) < Batch
               /\ Sending' = Sending \cup {c} /\ c \notin Sending
<1>1. sender \in [Call -> {"new", "checked", "inserted", "done"}] /\ activeCount \in Int
  BY DEF BaseInv, TypeInv
<1>2. dialog[c] = NoDialog /\ sender[c] = "new"
  BY DEF StartCall, BaseInv, SentInv
<1>3. \A d \in Call : d # c => sender'[d] = sender[d]
  BY <1>1 DEF StartCall
<1>4. Present' = Present /\ Far' = Far /\ c \notin Present
  BY <1>2 DEF StartCall, Present, Far
<1>5. UNCHANGED <<activeCount, active, handling, removed, doomed, leaving, drifted, phase>>
  BY DEF StartCall, runVars
<1>6. Open' = Open
  BY <1>3, <1>4 DEF Open, Present
<1>7. CASE sender'[c] = "done"
  BY <1>2, <1>3, <1>4, <1>5, <1>6, <1>7 DEF Sending
<1>8. CASE ~AtLimit /\ sender'[c] = "checked"
  <2>1. activeCount < MaxDialogs
    BY <1>1, <1>8, CallsAssumption, SMT DEF AtLimit, CallsAssumption
  <2>2. Sending' = Sending \cup {c} /\ c \notin Sending
    BY <1>2, <1>3, <1>8 DEF Sending
  <2> QED BY <1>4, <1>5, <1>6, <2>1, <2>2 DEF StartCall
<1> QED BY <1>1, <1>7, <1>8 DEF StartCall

LEMMA InsertEffect ==
  ASSUME BaseInv, NEW c \in Call, InsertDialog(c)
  PROVE  /\ Open' = Open /\ Far' = Far /\ Sending' = Sending
         /\ Present' = Present \cup {c}
         /\ UNCHANGED <<activeCount, active, handling, removed, doomed, leaving, drifted, phase>>
<1>1. /\ sender \in [Call -> {"new", "checked", "inserted", "done"}]
      /\ dialog \in [Call -> Dialog \cup {NoDialog}]
  BY DEF BaseInv, TypeInv
<1>2. /\ sender[c] = "checked" /\ sender'[c] = "inserted"
      /\ \A d \in Call : d # c => sender'[d] = sender[d] /\ dialog'[d] = dialog[d]
      /\ dialog'[c] # NoDialog
  BY <1>1 DEF InsertDialog, NoDialog
<1>3. Present' = Present \cup {c}
  BY <1>2 DEF Present
<1> QED BY <1>2, <1>3 DEF InsertDialog, Open, Sending, Far, statVars, runVars, Present

LEMMA SendEffect ==
  ASSUME BaseInv, NEW c \in Call, SendRequest(c)
  PROVE  /\ Open' = Open \cup {c} /\ c \notin Open /\ Far' = Far
         /\ Sending' = Sending \ {c} /\ c \in Sending
         /\ Present' = Present
         /\ activeCount' = activeCount + 1 /\ active' = (active + 1) % Wrap
         /\ UNCHANGED <<handling, removed, doomed, leaving, drifted, phase>>
<1>1. /\ sender[c] = "inserted" /\ c \in Present
  BY DEF SendRequest, BaseInv, SentInv, Present, NoDialog
<1>2. Present' = Present
  <2>1. dialog' = [dialog EXCEPT ![c].state = "Trying"]
    BY DEF SendRequest
  <2> QED BY <2>1, <1>1, FieldsKeepPresent DEF BaseInv, State
<1>3. sender'[c] = "done" /\ \A d \in Call : d # c => sender'[d] = sender[d]
  BY DEF SendRequest, BaseInv, TypeInv
<1> QED BY <1>1, <1>2, <1>3 DEF SendRequest, Open, Sending, Far, runVars, Present

\* What the receive loops do to the dialogs: nothing, or they end one.
LEMMA ReceiverDialogs ==
  ASSUME BaseInv, NEW w \in Receiver, NEW c \in Call, HandleResponse(w, c)
  PROVE  \/ /\ CompleteCall(w, c) \/ DropCall(w, c)
            /\ RemoveDialog(c) /\ sender[c] = "done" /\ UNCHANGED drifted
         \/ /\ CompleteCall(w, c) \/ DropCall(w, c)
            /\ Present' = Present /\ drifted' = TRUE
         \/ /\ ~(CompleteCall(w, c) \/ DropCall(w, c))
            /\ Present' = Present /\ UNCHANGED drifted
<1> USE DEF BaseInv
<1>1. CASE CompleteCall(w, c) \/ DropCall(w, c)
  <2>1. PICK r \in Response \cup Point, p \in Point, q \in Point : RemoveOwn(w, c, r, p, q)
    BY <1>1 DEF CompleteCall, DropCall, Response, Point
  <2>2. sender[c] = "done"
    BY <2>1, HandledSent DEF RemoveOwn, Continue
  <2> QED BY <1>1, <2>1, <2>2 DEF RemoveOwn, Present
<1>2. CASE /\ ~(CompleteCall(w, c) \/ DropCall(w, c))
           /\ ~(ConfirmCall(w, c) \/ FailChallenge(w, c) \/ AnswerChallenge(w, c))
  BY <1>2 DEF HandleResponse, Receive, RecordSuccess, FailCall, CountTaken, CloseCall,
              AcceptChallenge, Present
<1>3. CASE /\ ~(CompleteCall(w, c) \/ DropCall(w, c))
           /\ ConfirmCall(w, c) \/ FailChallenge(w, c) \/ AnswerChallenge(w, c)
  <2>1. UNCHANGED drifted
    BY <1>3 DEF ConfirmCall, FailChallenge, AnswerChallenge
  <2>2. CASE UNCHANGED dialog
    BY <1>3, <2>1, <2>2 DEF Present
  <2>3. CASE c \in Present /\ \E s \in State : dialog' = [dialog EXCEPT ![c].state = s]
    BY <1>3, <2>1, <2>3, FieldsKeepPresent
  <2>4. CASE c \in Present /\ dialog' = [dialog EXCEPT ![c].auth = TRUE, ![c].cseq = @ + 1]
    <3>1. dialog' = [dialog EXCEPT ![c].auth = TRUE, ![c].cseq = dialog[c].cseq + 1]
      BY <2>4, PresentTypes DEF Dialog, TypeInv
    <3> QED BY <1>3, <2>1, <2>4, <3>1, FieldsKeepPresent DEF State
  <2> QED
    BY <1>3, <2>2, <2>3, <2>4 DEF ConfirmCall, FailChallenge, AnswerChallenge, State
<1> QED BY <1>1, <1>2, <1>3

LEMMA LoopEffect ==
  ASSUME BaseInv, ByeLoop \/ \E c \in InviteCall : ReinviteTask(c)
  PROVE  /\ UNCHANGED <<sender, uas, activeCount, active, handling, removed, doomed, leaving,
                         drifted, phase>>
         /\ Present' = Present
<1> USE DEF BaseInv
<1>1. UNCHANGED <<sender, uas, activeCount, active, handling, removed, doomed, leaving,
                  drifted, phase>>
  BY DEF ByeLoop, ReinviteTask, CollectForBye, SendBye, NoteBye, SendReinvite, NoteReinvite,
         runVars, statVars
<1>2. CASE UNCHANGED dialog
  BY <1>1, <1>2 DEF Present
<1>3. ASSUME NEW c \in InviteCall, NEW n \in CSeq, NoteBye(c, n) \/ NoteReinvite(c, n)
      PROVE  Present' = Present
  <2>1. CASE UNCHANGED dialog
    BY <2>1 DEF Present
  <2>2. CASE c \in Present /\ ~UNCHANGED dialog
    BY <1>3, <2>2, FieldsKeepPresent DEF NoteBye, NoteReinvite, State
  <2> QED BY <1>3, <2>1, <2>2 DEF NoteBye, NoteReinvite
<1> QED BY <1>1, <1>2, <1>3 DEF ByeLoop, ReinviteTask, CollectForBye, SendBye, SendReinvite

LEMMA FarEndEffect ==
  ASSUME BaseInv, FarEnd
  PROVE  /\ UNCHANGED <<uacVars, removed, doomed, leaving, phase>>
         /\ Present' = Present
         /\ \/ Far' = Far /\ UNCHANGED <<active, drifted>>
            \/ \E c \in InviteCall : UasInvite(c) \/ UasBye(c)
<1> USE DEF BaseInv
<1>1. UNCHANGED <<uacVars, removed, doomed, leaving, phase>>
  BY DEF FarEnd, Challenge, Reject, Register, UasInvite, UasAck, UasBye, runVars
<1>2. Present' = Present
  BY <1>1 DEF Present, uacVars
<1>3. ASSUME NEW c \in InviteCall, UasAck(c)
      PROVE  Far' = Far /\ UNCHANGED <<active, drifted>>
  BY <1>3 DEF UasAck, Far, TypeInv, statVars
<1>4. ASSUME NEW c \in Call, Challenge(c) \/ Reject(c) \/ Register(c)
      PROVE  Far' = Far /\ UNCHANGED <<active, drifted>>
  BY <1>4 DEF Challenge, Reject, Register, Far, statVars
<1> QED BY <1>1, <1>2, <1>3, <1>4 DEF FarEnd

LEMMA OrchestratorEffect ==
  ASSUME BaseInv, Orchestrator
  PROVE  /\ UNCHANGED <<sender, handling>>
         /\ \/ /\ Drain \/ Drained \/ CleanUp \/ CountRemoved \/ NextStep \/ ShutDown \/ Exit
                  \/ \E c \in Call : ShutDownBye(c)
               /\ Present' = Present /\ UNCHANGED activeCount
            \/ \E c \in Call : /\ CountForced(c) \/ ShutDownCount(c)
                               /\ Present' = Present
            \/ \E c \in Call : /\ ForceRemove(c) \/ ShutDownRemove(c)
                               /\ c \notin Present /\ Present' = Present
            \/ \E c \in Call : /\ ForceRemove(c) \/ ShutDownRemove(c)
                               /\ RemoveDialog(c) /\ sender[c] = "done"
                               /\ removed' = removed \cup {c}
                               /\ UNCHANGED <<activeCount, active, doomed, leaving, drifted>>
<1> USE DEF BaseInv
<1>1. CASE \/ Drain \/ Drained \/ CleanUp \/ CountRemoved \/ NextStep \/ ShutDown \/ Exit
           \/ \E c \in Call : ShutDownBye(c)
  BY <1>1 DEF Drain, Drained, CleanUp, CountRemoved, NextStep, ShutDown, Exit, ShutDownBye,
              uacVars, Present
<1>2. ASSUME NEW c \in Call, CountForced(c) \/ ShutDownCount(c)
      PROVE  UNCHANGED <<sender, handling>> /\ Present' = Present
  BY <1>2 DEF CountForced, ShutDownCount, Present
<1>3. ASSUME NEW c \in Call, ForceRemove(c) \/ ShutDownRemove(c)
      PROVE  /\ UNCHANGED <<sender, handling>>
             /\ \/ c \notin Present /\ Present' = Present
                \/ /\ RemoveDialog(c) /\ sender[c] = "done" /\ removed' = removed \cup {c}
                   /\ UNCHANGED <<activeCount, active, doomed, leaving, drifted>>
  <2>1. Sending = {} /\ sender[c] \in {"new", "checked", "inserted", "done"}
    BY <1>3 DEF ForceRemove, ShutDownRemove, SentInv, TypeInv
  <2>2. c \in Present => sender[c] = "done"
    BY <2>1 DEF Sending, SentInv, Present
  <2>3. CASE RemoveDialog(c) /\ removed' = removed \cup {c}
    BY <1>3, <2>2, <2>3 DEF ForceRemove, ShutDownRemove, RemoveDialog, statVars
  <2>4. CASE c \notin Present /\ UNCHANGED dialog
    BY <1>3, <2>4 DEF ForceRemove, ShutDownRemove, Present
  <2> QED BY <1>3, <2>3, <2>4 DEF ForceRemove, ShutDownRemove
<1> QED BY <1>1, <1>2, <1>3 DEF Orchestrator

-----------------------------------------------------------------------------
(* What a cleanup has seen to. *)

RunInv ==
  /\ removed \cap Present = {}
  /\ phase = "cleaning" => Present \subseteq doomed

LEMMA RunInit == Init => RunInv
BY DEF Init, RunInv

LEMMA RunStep ==
  ASSUME BaseInv, RunInv, [Next]_vars
  PROVE  RunInv'
<1> USE DEF BaseInv
<1>1. CASE Present' = Present /\ UNCHANGED <<removed, phase, doomed>>
  BY <1>1 DEF RunInv
<1>2. ASSUME NEW c \in Call, RemoveDialog(c), UNCHANGED <<phase, doomed, removed>>
      PROVE  RunInv'
  BY <1>2, RemovesOne DEF RunInv
<1>3. ASSUME NEW c \in Call, SendTask(c)
      PROVE  RunInv'
  <2>1. UNCHANGED <<phase, removed, doomed>>
    BY <1>3 DEF SendTask, StartCall, InsertDialog, SendRequest, runVars
  <2>2. phase = "sending" /\ removed = {}
    BY <1>3 DEF SendTask, StartCall, InsertDialog, SendRequest, SentInv, Sending
  <2> QED BY <2>1, <2>2 DEF RunInv
<1>4. ASSUME NEW w \in Receiver, ReceiveLoop(w)
      PROVE  RunInv'
  <2>1. PICK c \in Call : HandleResponse(w, c)
    BY <1>4 DEF ReceiveLoop
  <2>2. UNCHANGED <<phase, removed, doomed>>
    BY <2>1, HandlerMoves DEF runVars
  <2> QED BY <1>1, <1>2, <2>1, <2>2, ReceiverDialogs
<1>5. CASE ByeLoop \/ \E c \in InviteCall : ReinviteTask(c)
  <2>1. UNCHANGED <<phase, removed, doomed>>
    BY <1>5 DEF ByeLoop, ReinviteTask, CollectForBye, SendBye, NoteBye, SendReinvite,
                NoteReinvite, runVars
  <2> QED BY <1>1, <1>5, <2>1, LoopEffect
<1>6. CASE FarEnd
  <2>1. UNCHANGED <<phase, removed, doomed>>
    BY <1>6 DEF FarEnd, Challenge, Reject, Register, UasInvite, UasAck, UasBye, runVars
  <2> QED BY <1>1, <1>6, <2>1, FarEndEffect
<1>7. CASE Orchestrator
  <2>1. CASE /\ Drain \/ Drained \/ CleanUp \/ CountRemoved \/ NextStep \/ ShutDown \/ Exit
                \/ \E c \in Call : ShutDownBye(c)
             /\ Present' = Present
    BY <2>1 DEF RunInv, SentInv, Drain, Drained, CleanUp, CountRemoved, NextStep, ShutDown,
                Exit, ShutDownBye
  <2>2. ASSUME NEW c \in Call, RemoveDialog(c), removed' = removed \cup {c},
               ForceRemove(c) \/ ShutDownRemove(c), UNCHANGED doomed
        PROVE  RunInv'
    <3>1. Present' = Present \ {c} /\ phase' = phase
      BY <2>2, RemovesOne DEF ForceRemove, ShutDownRemove
    <3> QED BY <2>2, <3>1 DEF RunInv
  <2>3. ASSUME NEW c \in Call, Present' = Present,
               \/ CountForced(c) \/ ShutDownCount(c)
               \/ (ForceRemove(c) \/ ShutDownRemove(c)) /\ c \notin Present
        PROVE  RunInv'
    BY <2>3 DEF RunInv, CountForced, ShutDownCount, ForceRemove, ShutDownRemove, RemoveDialog
  <2> QED BY <1>7, <2>1, <2>2, <2>3, OrchestratorEffect
<1>8. CASE UNCHANGED vars
  BY <1>1, <1>8 DEF vars, uacVars, runVars, Present
<1> QED BY <1>3, <1>4, <1>5, <1>6, <1>7, <1>8 DEF Next

LEMMA RunHolds == Spec => []RunInv
BY BaseHolds, RunInit, RunStep, PTL DEF Spec

-----------------------------------------------------------------------------
(* Which receive loop has taken a dialog out of the map. *)

\* Only one receive loop is at one of the points for a call, and then the dialog
\* is in nobody else's hands.
Exclusive(P) ==
  \A c \in Call, w \in Receiver : handling[w] \in {c} \X P =>
    /\ c \notin Present \cup removed
    /\ \A v \in Receiver : handling[v] \in {c} \X P => v = w

OwnInv ==
  /\ Exclusive(Uncounted)
  /\ ~drifted => Exclusive(Owing)

\* A receive loop goes on, or not, with the call it works on.
Moves(w, c, h) ==
  /\ handling' = [handling EXCEPT ![w] = h]
  /\ h \in {Free} \cup ({c} \X (Response \cup Point))
  /\ handling[w] \in {Free} \cup ({c} \X (Response \cup Point))

LEMMA AtMoves ==
  ASSUME TypeInv, NEW w \in Receiver, NEW c \in Call, NEW h, Moves(w, c, h), NEW P
  PROVE  /\ (handling[w] \in {c} \X P <=> h \in {c} \X P) => At(P)' = At(P)
         /\ h \in {c} \X P => At(P)' = At(P) \cup {c}
         /\ handling[w] \in {c} \X P /\ h \notin {c} \X P /\ Exclusive(P) =>
              At(P)' = At(P) \ {c} /\ c \in At(P)
<1>1. /\ \A v \in Receiver : v # w => handling'[v] = handling[v]
      /\ handling'[w] = h
  BY DEF Moves, TypeInv
<1>2. \A d \in Call : d # c => handling[w] \notin {d} \X P /\ h \notin {d} \X P
  BY DEF Moves, Free
<1>3. \A d \in Call : d # c => (d \in At(P)' <=> d \in At(P))
  BY <1>1, <1>2 DEF At
<1>4. At(P)' \subseteq Call /\ At(P) \subseteq Call
  BY DEF At
<1>5. (handling[w] \in {c} \X P <=> h \in {c} \X P) => (c \in At(P)' <=> c \in At(P))
  BY <1>1 DEF At
<1>6. h \in {c} \X P => c \in At(P)'
  BY <1>1 DEF At
<1>7. ASSUME handling[w] \in {c} \X P, h \notin {c} \X P, Exclusive(P)
      PROVE  c \notin At(P)' /\ c \in At(P)
  <2>1. \A v \in Receiver : handling[v] \in {c} \X P => v = w
    BY <1>7 DEF Exclusive
  <2> QED BY <1>1, <1>7, <2>1 DEF At
<1> QED BY <1>3, <1>4, <1>5, <1>6, <1>7

LEMMA ExclusiveKept ==
  ASSUME TypeInv, NEW P, Exclusive(P),
         \A d \in Call :
           d \in Present' \cup removed' => d \in Present \cup removed \/ d \notin At(P),
         \/ handling' = handling
         \/ \E w \in Receiver, c \in Call : \E h :
              Moves(w, c, h) /\ (h \in {c} \X P => handling[w] \in {c} \X P)
  PROVE  Exclusive(P)'
<1>1. \A v \in Receiver, d \in Call : handling'[v] \in {d} \X P => handling[v] \in {d} \X P
  <2>1. CASE handling' = handling
    BY <2>1
  <2>2. ASSUME NEW w \in Receiver, NEW c \in Call, NEW h, Moves(w, c, h),
               h \in {c} \X P => handling[w] \in {c} \X P
        PROVE  \A v \in Receiver, d \in Call :
                 handling'[v] \in {d} \X P => handling[v] \in {d} \X P
    <3>1. /\ \A v \in Receiver : v # w => handling'[v] = handling[v]
          /\ handling'[w] = h
      BY <2>2 DEF Moves, TypeInv
    <3>2. \A d \in Call : d # c => h \notin {d} \X P
      BY <2>2 DEF Moves, Free
    <3> QED BY <2>2, <3>1, <3>2
  <2> QED BY <2>1, <2>2
<1> QED BY <1>1 DEF Exclusive, At

LEMMA ExclusiveJoin ==
  ASSUME TypeInv, NEW P, Exclusive(P), NEW w \in Receiver, NEW c \in Call, NEW h,
         Moves(w, c, h), RemoveDialog(c), c \notin removed, UNCHANGED removed
  PROVE  Exclusive(P)'
<1>1. /\ \A v \in Receiver : v # w => handling'[v] = handling[v]
      /\ handling'[w] = h
  BY DEF Moves, TypeInv
<1>2. \A d \in Call : d # c => h \notin {d} \X P
  <2>1. h = Free \/ \E q : h = <<c, q>>
    BY DEF Moves
  <2> QED BY <2>1 DEF Free
<1>3. Present' = Present \ {c} /\ c \in Present
  BY RemovesOne DEF RemoveDialog
<1>4. \A v \in Receiver : handling[v] \notin {c} \X P
  BY <1>3 DEF Exclusive
<1>5. \A v \in Receiver, d \in Call : handling'[v] \in {d} \X P =>
        handling[v] \in {d} \X P \/ (v = w /\ d = c)
  BY <1>1, <1>2
<1> QED BY <1>3, <1>4, <1>5 DEF Exclusive

LEMMA ContinueMoves ==
  ASSUME NEW w \in Receiver, NEW c \in Call,
         NEW r \in Response \cup Point, NEW p \in Response \cup Point, Continue(w, c, r, p)
  PROVE  /\ Moves(w, c, <<c, p>>) /\ handling[w] = <<c, r>>
         /\ \A P : /\ handling[w] \in {c} \X P <=> r \in P
                   /\ <<c, p>> \in {c} \X P <=> p \in P
BY DEF Continue, Moves

LEMMA HandleMoves ==
  ASSUME NEW w \in Receiver, NEW c \in Call, NEW r \in Response \cup Point, Handle(w, c, r)
  PROVE  /\ Moves(w, c, Free)
         /\ \A P : /\ handling[w] \in {c} \X P <=> r \in P
                   /\ Free \notin {c} \X P
BY DEF Handle, Moves, Free

\* What the steps of a handler do to the sets of calls at Uncounted and Owing.
LEMMA HandlerPoints ==
  ASSUME BaseInv, NEW w \in Receiver, NEW c \in Call, HandleResponse(w, c)
  PROVE  \E h :
    /\ Moves(w, c, h)
    /\ \/ /\ CompleteCall(w, c) \/ DropCall(w, c)
          /\ handling[w] \notin {c} \X Owing /\ h \in {c} \X Owing
          /\ UNCHANGED <<activeCount, active>> /\ sender[c] = "done"
          /\ \/ RemoveDialog(c) /\ h \in {c} \X Uncounted /\ UNCHANGED drifted
             \/ UNCHANGED dialog /\ h \notin {c} \X Uncounted /\ drifted' = TRUE
       \/ /\ CountTaken(w, c)
          /\ handling[w] \in {c} \X Owing /\ h \in {c} \X Owing
          /\ handling[w] \in {c} \X Uncounted /\ h \notin {c} \X Uncounted
       \/ /\ CloseCall(w, c)
          /\ handling[w] \in {c} \X Owing /\ h \notin {c} \X Owing
          /\ handling[w] \notin {c} \X Uncounted /\ h \notin {c} \X Uncounted
       \/ /\ ~(CompleteCall(w, c) \/ DropCall(w, c))
          /\ handling[w] \in {c} \X Owing <=> h \in {c} \X Owing
          /\ handling[w] \notin {c} \X Uncounted /\ h \notin {c} \X Uncounted
          /\ UNCHANGED <<activeCount, active>>
<1>p. /\ \A r \in Response : r \notin Owing /\ r \notin Uncounted
      /\ Uncounted \subseteq Owing /\ Owing \subseteq Response \cup Point
      /\ "resend" \notin Owing /\ "failed" \notin Owing
      /\ {"record", "close"} \subseteq Owing
      /\ "record" \notin Uncounted /\ "close" \notin Uncounted
      /\ "taken" \in Uncounted /\ "dropped" \in Uncounted
  BY DEF Response, Point, Owing, Uncounted
<1>q. {"failed", "resend"} \subseteq Response \cup Point
  BY DEF Point
<1>1. CASE CompleteCall(w, c) \/ DropCall(w, c)
  <2>1. PICK r \in Response \cup {"failed"}, p \in Uncounted, q \in {"record", "close"} :
          RemoveOwn(w, c, r, p, q)
    BY <1>1 DEF CompleteCall, DropCall, Uncounted, Response
  <2>2. UNCHANGED <<activeCount, active>>
    BY <1>1 DEF CompleteCall, DropCall, statVars
  <2>3. CASE Continue(w, c, r, p) /\ RemoveDialog(c) /\ UNCHANGED drifted
    <3>1. /\ Moves(w, c, <<c, p>>) /\ handling[w] = <<c, r>>
          /\ \A P : /\ handling[w] \in {c} \X P <=> r \in P
                   /\ <<c, p>> \in {c} \X P <=> p \in P
      BY <1>p, <1>q, <2>3, ContinueMoves
    <3>2. sender[c] = "done"
      BY <1>q, <3>1, HandledSent
    <3>3. r \notin Owing /\ p \in Owing
      BY <1>p
    <3> QED BY <1>1, <2>2, <2>3, <3>1, <3>2, <3>3
  <2>4. CASE Continue(w, c, r, q) /\ UNCHANGED dialog /\ drifted' = TRUE
    <3>1. /\ Moves(w, c, <<c, q>>) /\ handling[w] = <<c, r>>
          /\ \A P : /\ handling[w] \in {c} \X P <=> r \in P
                   /\ <<c, q>> \in {c} \X P <=> q \in P
      BY <1>p, <1>q, <2>4, ContinueMoves
    <3>2. sender[c] = "done"
      BY <1>q, <3>1, HandledSent
    <3>3. r \notin Owing /\ q \in Owing /\ q \notin Uncounted
      BY <1>p
    <3>4. /\ handling[w] \notin {c} \X Owing
          /\ <<c, q>> \in {c} \X Owing /\ <<c, q>> \notin {c} \X Uncounted
      BY <3>1, <3>3
    <3> QED BY <1>1, <2>2, <2>4, <3>1, <3>2, <3>4
  <2> QED BY <2>1, <2>3, <2>4 DEF RemoveOwn
<1>2. CASE CountTaken(w, c)
  <2>1. PICK r \in Uncounted, p \in {"record", "close"} : Continue(w, c, r, p)
    BY <1>2 DEF CountTaken, Uncounted
  <2>2. Moves(w, c, <<c, p>>) /\ handling[w] = <<c, r>>
    BY <1>p, <2>1, ContinueMoves
  <2>3. r \in Owing /\ p \in Owing /\ p \notin Uncounted
    BY <1>p
  <2>4. handling[w] \in {c} \X Owing /\ handling[w] \in {c} \X Uncounted
    BY <2>2, <2>3
  <2>5. <<c, p>> \in {c} \X Owing /\ <<c, p>> \notin {c} \X Uncounted
    BY <2>3
  <2> QED BY <1>2, <2>2, <2>4, <2>5
<1>3. CASE CloseCall(w, c)
  <2>1. /\ Moves(w, c, Free)
        /\ \A P : /\ handling[w] \in {c} \X P <=> "close" \in P
                 /\ Free \notin {c} \X P
    BY <1>3, <1>p, HandleMoves DEF CloseCall
  <2> QED BY <1>3, <1>p, <2>1
<1>4. CASE /\ ~(CompleteCall(w, c) \/ DropCall(w, c))
           /\ ~(CountTaken(w, c) \/ CloseCall(w, c))
  <2>1. UNCHANGED <<activeCount, active>>
    BY <1>4 DEF HandleResponse, Receive, RecordSuccess, FailCall, ConfirmCall, AcceptChallenge,
                FailChallenge, AnswerChallenge, statVars
  <2>2. CASE \E r \in Response : Receive(w, c, r)
    <3>1. PICK r \in Response : Receive(w, c, r)
      BY <2>2
    <3>2. Moves(w, c, <<c, r>>) /\ handling[w] = Free
      BY <3>1 DEF Moves, Receive
    <3>3. \A P : handling[w] \notin {c} \X P /\ (<<c, r>> \in {c} \X P <=> r \in P)
      BY <3>2 DEF Free
    <3> QED BY <1>4, <1>p, <2>1, <3>2, <3>3
  <2>3. CASE RecordSuccess(w, c) \/ FailCall(w, c) \/ AcceptChallenge(w, c)
    <3>1. PICK r \in Response \cup {"record"}, p \in {"failed", "resend", "close"} :
            /\ Continue(w, c, r, p)
            /\ r = "record" <=> p = "close"
      BY <2>3 DEF RecordSuccess, FailCall, AcceptChallenge, Response
    <3>2. Moves(w, c, <<c, p>>) /\ handling[w] = <<c, r>>
      BY <1>p, <1>q, <3>1, ContinueMoves
    <3>3. (r \in Owing <=> p \in Owing) /\ r \notin Uncounted /\ p \notin Uncounted
      BY <1>p, <3>1
    <3>4. handling[w] \in {c} \X Owing <=> <<c, p>> \in {c} \X Owing
      BY <3>2, <3>3
    <3>5. handling[w] \notin {c} \X Uncounted
      BY <3>2, <3>3
    <3>6. <<c, p>> \notin {c} \X Uncounted
      BY <3>3
    <3> QED BY <1>4, <2>1, <3>2, <3>4, <3>5, <3>6
  <2>4. CASE ConfirmCall(w, c) \/ FailChallenge(w, c) \/ AnswerChallenge(w, c)
    <3>1. PICK r \in Response \cup {"resend"} : Handle(w, c, r)
      BY <2>4 DEF ConfirmCall, FailChallenge, AnswerChallenge, Response
    <3>2. /\ Moves(w, c, Free)
          /\ \A P : /\ handling[w] \in {c} \X P <=> r \in P
                   /\ Free \notin {c} \X P
      BY <1>q, <3>1, HandleMoves
    <3>3. r \notin Owing /\ r \notin Uncounted
      BY <1>p, <3>1
    <3> QED BY <1>4, <2>1, <3>2, <3>3
  <2> QED BY <1>4, <2>2, <2>3, <2>4 DEF HandleResponse
<1> QED BY <1>1, <1>2, <1>3, <1>4

\* A handler that is past its lookup is about a call that was sent, so its
\* dialog is not about to be inserted.
LEMMA AtSent ==
  ASSUME BaseInv, NEW P \in SUBSET (Response \cup Point)
  PROVE  \A c \in At(P) : sender[c] = "done"
<1> SUFFICES ASSUME NEW c \in At(P) PROVE sender[c] = "done"
  OBVIOUS
<1>1. PICK w \in Receiver : handling[w] \in {c} \X P
  BY DEF At
<1>2. PICK q \in P : handling[w] = <<c, q>>
  BY <1>1
<1> QED BY <1>2, HandledSent DEF At

LEMMA OwnInit == Init => OwnInv
BY DEF Init, OwnInv, Exclusive, Free

LEMMA OwnStep ==
  ASSUME BaseInv, RunInv, OwnInv, [Next]_vars
  PROVE  OwnInv'
<1> USE DEF BaseInv
<1>p. Uncounted \in SUBSET (Response \cup Point) /\ Owing \in SUBSET (Response \cup Point)
  BY DEF Uncounted, Owing, Point
<1>1. ASSUME Present' \cup removed' \subseteq Present \cup removed, handling' = handling,
             drifted' \/ UNCHANGED drifted
      PROVE  OwnInv'
  BY <1>1, ExclusiveKept DEF OwnInv
<1>2. ASSUME NEW c \in Call, SendTask(c)
      PROVE  OwnInv'
  <2>1. /\ Present' \subseteq Present \cup {c} /\ UNCHANGED <<removed, handling, drifted>>
        /\ sender[c] # "done"
    BY <1>2, StartEffect, InsertEffect, SendEffect
    DEF SendTask, StartCall, InsertDialog, SendRequest
  <2>2. \A P \in {Uncounted, Owing} : c \notin At(P)
    BY <2>1, <1>p, AtSent
  <2> QED BY <2>1, <2>2, ExclusiveKept DEF OwnInv
<1>3. ASSUME NEW w \in Receiver, ReceiveLoop(w)
      PROVE  OwnInv'
  <2>1. PICK c \in Call : HandleResponse(w, c)
    BY <1>3 DEF ReceiveLoop
  <2>2. UNCHANGED removed
    BY <2>1, HandlerMoves DEF runVars
  <2>3. CASE RemoveDialog(c) /\ UNCHANGED drifted
    <3>1. PICK h : Moves(w, c, h)
      BY <2>1, HandlerPoints
    <3>2. c \notin removed
      BY <2>3 DEF RemoveDialog, RunInv
    <3> QED BY <2>2, <2>3, <3>1, <3>2, ExclusiveJoin DEF OwnInv
  <2>4. CASE Present' = Present /\ drifted' = TRUE
    <3>1. ~RemoveDialog(c)
      BY <2>4, RemovesOne DEF RemoveDialog
    <3>2. PICK h : Moves(w, c, h) /\ (h \in {c} \X Uncounted => handling[w] \in {c} \X Uncounted)
      BY <2>1, <3>1, HandlerPoints
    <3> QED BY <2>2, <2>4, <3>2, ExclusiveKept DEF OwnInv
  <2>5. CASE /\ ~(CompleteCall(w, c) \/ DropCall(w, c))
             /\ Present' = Present /\ UNCHANGED drifted
    <3>1. PICK h : /\ Moves(w, c, h)
                   /\ h \in {c} \X Uncounted => handling[w] \in {c} \X Uncounted
                   /\ h \in {c} \X Owing => handling[w] \in {c} \X Owing
      BY <2>1, <2>5, HandlerPoints
    <3> QED BY <2>2, <2>5, <3>1, ExclusiveKept DEF OwnInv
  <2> QED BY <2>1, <2>3, <2>4, <2>5, ReceiverDialogs
<1>4. CASE ByeLoop \/ \E c \in InviteCall : ReinviteTask(c)
  BY <1>1, <1>4, LoopEffect
<1>5. CASE FarEnd
  <2>1. drifted' \/ UNCHANGED drifted
    BY <1>5 DEF FarEnd, Challenge, Reject, Register, UasInvite, UasAck, UasBye
  <2> QED BY <1>1, <1>5, <2>1, FarEndEffect DEF uacVars
<1>6. CASE Orchestrator
  <2>1. handling' = handling /\ (drifted' \/ UNCHANGED drifted)
    BY <1>6, OrchestratorEffect
    DEF Orchestrator, Drain, Drained, CleanUp, CountRemoved, NextStep, ShutDown, Exit,
        ForceRemove, CountForced, ShutDownBye, ShutDownRemove, ShutDownCount
  <2>2. CASE Present' = Present /\ removed' \subseteq removed
    BY <1>1, <2>1, <2>2
  <2>3. ASSUME NEW c \in Call, RemoveDialog(c), removed' = removed \cup {c}
        PROVE  OwnInv'
    <3>1. Present' = Present \ {c} /\ c \in Present
      BY <2>3, RemovesOne DEF RemoveDialog
    <3> QED BY <1>1, <2>1, <2>3, <3>1
  <2>4. CASE \/ Drain \/ Drained \/ CleanUp \/ CountRemoved \/ NextStep \/ ShutDown \/ Exit
             \/ \E c \in Call : ShutDownBye(c) \/ CountForced(c) \/ ShutDownCount(c)
             \/ \E c \in Call : (ForceRemove(c) \/ ShutDownRemove(c)) /\ c \notin Present
    <3>1. removed' \subseteq removed
      BY <2>4 DEF Drain, Drained, CleanUp, CountRemoved, NextStep, ShutDown, Exit, CountForced,
                  ShutDownBye, ShutDownCount, ForceRemove, ShutDownRemove, RemoveDialog
    <3>2. CASE Present' = Present
      BY <2>2, <3>1, <3>2
    <3> QED
      BY <1>6, <2>3, <3>2, OrchestratorEffect
  <2> QED BY <1>6, <2>3, <2>4, OrchestratorEffect
<1>7. CASE UNCHANGED vars
  BY <1>1, <1>7 DEF vars, uacVars, runVars, Present
<1> QED BY <1>2, <1>3, <1>4, <1>5, <1>6, <1>7 DEF Next

LEMMA OwnHolds == Spec => []OwnInv
BY BaseHolds, RunHolds, OwnInit, OwnStep, PTL DEF Spec

-----------------------------------------------------------------------------
(* The counter and the limit of the dialog manager. *)

\* What the receive loops do to the dialogs and to what is left of them: nothing,
\* or they find that a dialog is gone, take it, count it out, or close its call.
LEMMA ReceiverEffect ==
  ASSUME BaseInv, RunInv, OwnInv, NEW w \in Receiver, ReceiveLoop(w)
  PROVE
    /\ UNCHANGED <<sender, uas, removed, doomed, leaving, phase>>
    /\ \/ /\ Present' = Present /\ UNCHANGED <<activeCount, active, drifted>>
          /\ Leaving' = Leaving /\ Settling' = Settling
       \/ /\ Present' = Present /\ UNCHANGED <<activeCount, active>> /\ drifted' = TRUE
          /\ Leaving' = Leaving
       \/ \E c \in Call :
            /\ RemoveDialog(c) /\ sender[c] = "done"
            /\ UNCHANGED <<activeCount, active, drifted>>
            /\ Leaving' = Leaving \cup {c} /\ c \notin Leaving
            /\ Settling' = Settling \cup {c} /\ (drifted \/ c \notin Settling)
       \/ \E c \in Call :
            /\ Present' = Present /\ CountRemoval /\ UNCHANGED <<active, drifted>>
            /\ Leaving' = Leaving \ {c} /\ c \in Leaving /\ Settling' = Settling
       \/ \E c \in Call :
            /\ Present' = Present /\ DecrementActive /\ UNCHANGED <<activeCount, drifted>>
            /\ Leaving' = Leaving
            /\ drifted \/ (Settling' = Settling \ {c} /\ c \in Settling)
<1> USE DEF BaseInv
<1>1. PICK c \in Call : HandleResponse(w, c)
  BY DEF ReceiveLoop
<1>2. UNCHANGED <<sender, uas, removed, doomed, leaving, phase>>
  BY <1>1, HandlerMoves DEF runVars
<1>3. At(Uncounted)' = At(Uncounted) => Leaving' = Leaving
  BY <1>2 DEF Leaving
<1>4. PICK h :
    /\ Moves(w, c, h)
    /\ \/ /\ CompleteCall(w, c) \/ DropCall(w, c)
          /\ handling[w] \notin {c} \X Owing /\ h \in {c} \X Owing
          /\ UNCHANGED <<activeCount, active>> /\ sender[c] = "done"
          /\ \/ RemoveDialog(c) /\ h \in {c} \X Uncounted /\ UNCHANGED drifted
             \/ UNCHANGED dialog /\ h \notin {c} \X Uncounted /\ drifted' = TRUE
       \/ /\ CountTaken(w, c)
          /\ handling[w] \in {c} \X Owing /\ h \in {c} \X Owing
          /\ handling[w] \in {c} \X Uncounted /\ h \notin {c} \X Uncounted
       \/ /\ CloseCall(w, c)
          /\ handling[w] \in {c} \X Owing /\ h \notin {c} \X Owing
          /\ handling[w] \notin {c} \X Uncounted /\ h \notin {c} \X Uncounted
       \/ /\ ~(CompleteCall(w, c) \/ DropCall(w, c))
          /\ handling[w] \in {c} \X Owing <=> h \in {c} \X Owing
          /\ handling[w] \notin {c} \X Uncounted /\ h \notin {c} \X Uncounted
          /\ UNCHANGED <<activeCount, active>>
  BY <1>1, HandlerPoints
<1>5. CASE /\ RemoveDialog(c) /\ UNCHANGED <<activeCount, active, drifted>>
           /\ h \in {c} \X Uncounted /\ h \in {c} \X Owing
           /\ sender[c] = "done"
  <2>1. c \in Present
    BY <1>5 DEF RemoveDialog
  <2>2. c \notin At(Uncounted) /\ (drifted \/ c \notin At(Owing))
    BY <2>1 DEF OwnInv, Exclusive, At
  <2>3. c \notin removed
    BY <2>1 DEF RunInv
  <2>4. At(Uncounted)' = At(Uncounted) \cup {c} /\ At(Owing)' = At(Owing) \cup {c}
    BY <1>4, <1>5, AtMoves
  <2> QED BY <1>2, <1>5, <2>2, <2>3, <2>4 DEF Leaving, Settling
<1>6. CASE /\ Present' = Present /\ UNCHANGED <<activeCount, active>> /\ drifted' = TRUE
           /\ handling[w] \notin {c} \X Owing /\ h \notin {c} \X Uncounted
  <2>1. handling[w] \notin {c} \X Uncounted
    BY <1>6 DEF Uncounted, Owing
  <2>2. At(Uncounted)' = At(Uncounted)
    BY <1>4, <1>6, <2>1, AtMoves
  <2> QED BY <1>2, <1>3, <1>6, <2>2
<1>7. CASE /\ CountTaken(w, c)
           /\ handling[w] \in {c} \X Owing /\ h \in {c} \X Owing
           /\ handling[w] \in {c} \X Uncounted /\ h \notin {c} \X Uncounted
  <2>1. Present' = Present /\ CountRemoval /\ UNCHANGED <<active, drifted>>
    BY <1>7 DEF CountTaken, Present, statVars
  <2>3. At(Uncounted)' = At(Uncounted) \ {c} /\ c \in At(Uncounted) /\ At(Owing)' = At(Owing)
    BY <1>4, <1>7, AtMoves DEF OwnInv
  <2>4. c \notin removed
    BY <1>7 DEF OwnInv, Exclusive
  <2> QED BY <1>2, <2>1, <2>3, <2>4 DEF Leaving, Settling
<1>8. CASE /\ CloseCall(w, c)
           /\ handling[w] \in {c} \X Owing /\ h \notin {c} \X Owing
           /\ handling[w] \notin {c} \X Uncounted /\ h \notin {c} \X Uncounted
  <2>1. Present' = Present /\ DecrementActive /\ UNCHANGED <<activeCount, drifted>>
    BY <1>8 DEF CloseCall, Present
  <2>3. At(Uncounted)' = At(Uncounted)
    BY <1>4, <1>8, AtMoves
  <2>4. drifted \/ (At(Owing)' = At(Owing) \ {c} /\ c \in At(Owing))
    BY <1>4, <1>8, AtMoves DEF OwnInv
  <2> QED BY <1>2, <1>3, <2>1, <2>3, <2>4 DEF Settling
<1>9. CASE /\ Present' = Present /\ UNCHANGED <<activeCount, active, drifted>>
           /\ handling[w] \in {c} \X Owing <=> h \in {c} \X Owing
           /\ handling[w] \notin {c} \X Uncounted /\ h \notin {c} \X Uncounted
  <2>1. At(Uncounted)' = At(Uncounted) /\ At(Owing)' = At(Owing)
    BY <1>4, <1>9, AtMoves
  <2> QED BY <1>2, <1>3, <1>9, <2>1 DEF Settling
<1>10. UNCHANGED dialog => Present' = Present
  BY DEF Present
<1>11. ~(CompleteCall(w, c) \/ DropCall(w, c)) => Present' = Present /\ UNCHANGED drifted
  BY <1>1, ReceiverDialogs
<1> QED BY <1>4, <1>5, <1>6, <1>7, <1>8, <1>9, <1>10, <1>11

\* The same for the orchestrator.
LEMMA OrchestratorCounts ==
  ASSUME BaseInv, RunInv, OwnInv, Orchestrator
  PROVE  /\ UNCHANGED sender /\ Settling' = Settling
         /\ \/ /\ Present' = Present /\ UNCHANGED activeCount /\ Leaving' = Leaving
            \/ \E c \in Call :
                 /\ RemoveDialog(c) /\ sender[c] = "done" /\ UNCHANGED activeCount
                 /\ Leaving' = Leaving \cup {c} /\ c \notin Leaving
            \/ \E c \in Call :
                 /\ Present' = Present /\ CountRemoval
                 /\ Leaving' = Leaving \ {c} /\ c \in Leaving
<1> USE DEF BaseInv
<1>1. /\ UNCHANGED <<sender, handling>>
      /\ Settling' = Settling /\ At(Uncounted)' = At(Uncounted)
  BY OrchestratorEffect DEF Settling, At
<1>2. CASE /\ Drain \/ Drained \/ CleanUp \/ CountRemoved \/ NextStep \/ ShutDown \/ Exit
              \/ \E c \in Call : ShutDownBye(c)
           /\ Present' = Present /\ UNCHANGED activeCount
  <2>1. removed' \cap (doomed' \cup leaving') = removed \cap (doomed \cup leaving)
    BY <1>2 DEF Drain, Drained, CleanUp, CountRemoved, NextStep, ShutDown, Exit, ShutDownBye,
                SentInv
  <2> QED BY <1>1, <1>2, <2>1 DEF Leaving
<1>3. ASSUME NEW c \in Call, CountForced(c) \/ ShutDownCount(c), Present' = Present
      PROVE  /\ CountRemoval
             /\ Leaving' = Leaving \ {c} /\ c \in Leaving
  <2>1. c \in removed /\ c \notin At(Uncounted)
    BY <1>3 DEF CountForced, ShutDownCount, OwnInv, Exclusive, At
  <2>2. CountRemoval
    BY <1>3 DEF CountForced, ShutDownCount
  <2>3. CASE CountForced(c)
    <3>1. leaving = {} /\ leaving' = {} /\ doomed' = doomed \ {c} /\ removed' = removed
          /\ c \in doomed
      BY <2>3 DEF CountForced, SentInv
    <3> QED BY <1>1, <2>1, <2>2, <3>1 DEF Leaving
  <2>4. CASE ShutDownCount(c)
    <3>1. leaving' = leaving \ {c} /\ doomed' = doomed /\ removed' = removed \ {c}
          /\ c \in leaving
      BY <2>4 DEF ShutDownCount
    <3> QED BY <1>1, <2>1, <2>2, <3>1 DEF Leaving
  <2> QED BY <1>3, <2>3, <2>4
<1>4. ASSUME NEW c \in Call, ForceRemove(c) \/ ShutDownRemove(c), c \notin Present,
             Present' = Present
      PROVE  UNCHANGED activeCount /\ Leaving' = Leaving
  <2>1. /\ UNCHANGED <<activeCount, removed>> /\ c \notin removed
        /\ doomed \cup leaving \subseteq doomed' \cup leaving' \cup {c}
        /\ doomed' \cup leaving' \subseteq doomed \cup leaving
    BY <1>4 DEF ForceRemove, ShutDownRemove, RemoveDialog
  <2> QED BY <1>1, <2>1 DEF Leaving
<1>5. ASSUME NEW c \in Call, ForceRemove(c) \/ ShutDownRemove(c), RemoveDialog(c),
             removed' = removed \cup {c}, UNCHANGED <<activeCount, doomed, leaving>>
      PROVE  UNCHANGED activeCount /\ Leaving' = Leaving \cup {c} /\ c \notin Leaving
  <2>1. c \in Present /\ c \in doomed \cup leaving
    BY <1>5 DEF ForceRemove, ShutDownRemove, RemoveDialog
  <2>2. c \notin removed /\ c \notin At(Uncounted)
    BY <2>1 DEF RunInv, OwnInv, Exclusive, At
  <2> QED BY <1>1, <1>5, <2>1, <2>2 DEF Leaving
<1> QED BY <1>1, <1>2, <1>3, <1>4, <1>5, OrchestratorEffect

\* The slots counted are those of the open calls and of the dialogs half removed;
\* those taken, of the open calls and of the tasks that passed the check and have
\* not finished.
CountInv ==
  /\ activeCount = Cardinality(Open) + Cardinality(Leaving)
  /\ Cardinality(Open) + Cardinality(Sending) <= MaxDialogs + Batch - 1

LEMMA CountInit == Init => CountInv
<1> SUFFICES ASSUME Init PROVE CountInv
  OBVIOUS
<1>1. Open = {} /\ Sending = {} /\ Leaving = {} /\ activeCount = 0
  BY DEF Init, Open, Present, Sending, Leaving, At, Free
<1> QED BY <1>1, FS_EmptySet, CallsAssumption, SMT DEF CountInv, CallsAssumption

LEMMA CountStep ==
  ASSUME BaseInv, RunInv, OwnInv, CountInv, [Next]_vars
  PROVE  CountInv'
<1>f. /\ IsFiniteSet(Open) /\ IsFiniteSet(Sending) /\ IsFiniteSet(Leaving)
      /\ Cardinality(Open) \in Nat /\ Cardinality(Sending) \in Nat
      /\ Cardinality(Leaving) \in Nat /\ activeCount \in Int
  BY OpenFinite DEF BaseInv, TypeInv
<1>l. MaxDialogs \in Nat \ {0} /\ Batch \in Nat \ {0}
  BY CallsAssumption DEF CallsAssumption
<1>1. ASSUME Present' = Present, UNCHANGED <<sender, activeCount>>, Leaving' = Leaving
      PROVE  CountInv'
  <2>1. Open' = Open /\ Sending' = Sending
    BY <1>1 DEF Open, Sending
  <2> QED BY <1>1, <2>1 DEF CountInv
<1>2. ASSUME NEW c \in Call, RemoveDialog(c), UNCHANGED <<sender, activeCount>>,
             sender[c] = "done", Leaving' = Leaving \cup {c}, c \notin Leaving
      PROVE  CountInv'
  <2>1. Open' = Open \ {c} /\ c \in Open /\ Sending' = Sending
    BY <1>2, RemoveEffect
  <2>2. Cardinality(Open') = Cardinality(Open) - 1
    BY <1>f, <2>1, FS_RemoveElement
  <2>3. Cardinality(Leaving') = Cardinality(Leaving) + 1
    BY <1>f, <1>2, FS_AddElement
  <2> QED BY <1>f, <1>l, <1>2, <2>1, <2>2, <2>3, SMT DEF CountInv
<1>2a. ASSUME NEW c \in Call, Present' = Present, CountRemoval, UNCHANGED sender,
              Leaving' = Leaving \ {c}, c \in Leaving
       PROVE  CountInv'
  <2>1. Open' = Open /\ Sending' = Sending
    BY <1>2a DEF Open, Sending
  <2>2. Cardinality(Leaving') = Cardinality(Leaving) - 1
    BY <1>f, <1>2a, FS_RemoveElement
  <2> QED BY <1>f, <1>l, <1>2a, <2>1, <2>2, SMT DEF CountInv, CountRemoval
<1>k. ASSUME UNCHANGED <<handling, removed, doomed, leaving>>
      PROVE  Leaving' = Leaving
  BY <1>k DEF Leaving, At
<1>3. ASSUME NEW c \in Call, StartCall(c)
      PROVE  CountInv'
  <2>1. Open' = Open /\ activeCount' = activeCount /\ Leaving' = Leaving
    BY <1>3, <1>k, StartEffect
  <2>2. CASE Sending' = Sending
    BY <2>1, <2>2 DEF CountInv
  <2>3. CASE /\ activeCount < MaxDialogs /\ Cardinality(Sending) < Batch
             /\ Sending' = Sending \cup {c} /\ c \notin Sending
    <3>1. Cardinality(Sending') = Cardinality(Sending) + 1
      BY <1>f, <2>3, FS_AddElement
    <3> QED BY <1>f, <1>l, <2>1, <2>3, <3>1, SMT DEF CountInv
  <2> QED BY <1>3, <2>2, <2>3, StartEffect
<1>4. ASSUME NEW c \in Call, InsertDialog(c)
      PROVE  CountInv'
  <2>1. /\ Open' = Open /\ Sending' = Sending /\ activeCount' = activeCount
        /\ Leaving' = Leaving
    BY <1>4, <1>k, InsertEffect
  <2> QED BY <2>1 DEF CountInv
<1>5. ASSUME NEW c \in Call, SendRequest(c)
      PROVE  CountInv'
  <2>1. /\ Open' = Open \cup {c} /\ c \notin Open
        /\ Sending' = Sending \ {c} /\ c \in Sending
        /\ activeCount' = activeCount + 1 /\ Leaving' = Leaving
    BY <1>5, <1>k, SendEffect
  <2>2. Cardinality(Open') = Cardinality(Open) + 1
    BY <1>f, <2>1, FS_AddElement
  <2>3. Cardinality(Sending') = Cardinality(Sending) - 1
    BY <1>f, <2>1, FS_RemoveElement
  <2> QED BY <1>f, <1>l, <2>1, <2>2, <2>3, SMT DEF CountInv
<1>6. CASE UNCHANGED vars
  BY <1>1, <1>k, <1>6 DEF vars, uacVars, runVars, Present
<1>7. ASSUME NEW w \in Receiver, ReceiveLoop(w)
      PROVE  CountInv'
  BY <1>1, <1>2, <1>2a, <1>7, ReceiverEffect
<1>8. CASE ByeLoop \/ \E c \in InviteCall : ReinviteTask(c)
  BY <1>1, <1>k, <1>8, LoopEffect
<1>9. CASE FarEnd
  BY <1>1, <1>k, <1>9, FarEndEffect DEF uacVars
<1>10. CASE Orchestrator
  BY <1>1, <1>2, <1>2a, <1>10, OrchestratorCounts
<1> QED BY <1>3, <1>4, <1>5, <1>6, <1>7, <1>8, <1>9, <1>10 DEF Next, SendTask

LEMMA CountHolds == Spec => []CountInv
BY BaseHolds, RunHolds, OwnHolds, CountInit, CountStep, PTL DEF Spec

\* The counter of the dialog manager is that of its map, but for the dialogs that
\* create_dialog has inserted and not yet counted (dialog/mod.rs:63-86), and those
\* remove_dialog has removed and not yet counted (dialog/mod.rs:107-108).
THEOREM CounterExact == Spec => []DialogsCounted
<1>1. BaseInv /\ CountInv => DialogsCounted
  <2> SUFFICES ASSUME BaseInv, CountInv PROVE DialogsCounted
    OBVIOUS
  <2>1. Present = Open \cup Entering /\ Open \cap Entering = {}
    <3>1. \A c \in Call : sender[c] = "inserted" => dialog[c] # NoDialog
      BY DEF BaseInv, SentInv, NoDialog
    <3>2. \A c \in Present : sender[c] \in {"inserted", "done"}
      BY DEF BaseInv, SentInv, TypeInv, Present
    <3> QED BY <3>1, <3>2 DEF Open, Present, Entering
  <2>2. /\ IsFiniteSet(Open) /\ IsFiniteSet(Entering) /\ Cardinality(Entering) \in Nat
        /\ Cardinality(Open) \in Nat /\ Cardinality(Leaving) \in Nat
    BY OpenFinite, CallsFinite, FS_Subset, FS_CardinalityType DEF BaseInv, Entering
  <2>3. Cardinality(Open \cap Entering) = 0
    BY <2>1, FS_EmptySet
  <2>4. Cardinality(Present)
          = Cardinality(Open) + Cardinality(Entering) - Cardinality(Open \cap Entering)
    BY <2>1, <2>2, FS_Union
  <2> QED BY <2>2, <2>3, <2>4, SMT DEF CountInv, DialogsCounted
<1> QED BY <1>1, BaseHolds, CountHolds, PTL

\* Concurrent senders pass max_dialogs together by one dialog less than their number,
\* and never by more.
THEOREM LimitOvershoot == Spec => []DialogBound
<1>1. BaseInv /\ CountInv => DialogBound
  <2> SUFFICES ASSUME BaseInv, CountInv PROVE DialogBound
    OBVIOUS
  <2>1. Present \subseteq Open \cup Sending
    BY DEF Open, Sending, BaseInv, SentInv, TypeInv, Present
  <2>2. /\ IsFiniteSet(Open) /\ IsFiniteSet(Sending)
        /\ Cardinality(Open) \in Nat /\ Cardinality(Sending) \in Nat
    BY OpenFinite DEF BaseInv
  <2>3. /\ IsFiniteSet(Open \cup Sending)
        /\ Cardinality(Open \cup Sending)
             = Cardinality(Open) + Cardinality(Sending) - Cardinality(Open \cap Sending)
    BY <2>2, FS_Union
  <2>4. Cardinality(Open \cap Sending) \in Nat
    BY <2>2, FS_Intersection, FS_CardinalityType
  <2>5. Cardinality(Present) <= Cardinality(Open \cup Sending) /\ Cardinality(Present) \in Nat
    BY <2>1, <2>3, FS_Subset, FS_CardinalityType
  <2> QED BY <2>2, <2>3, <2>4, <2>5, CallsAssumption, SMT
          DEF DialogBound, CountInv, CallsAssumption
<1> QED BY <1>1, BaseHolds, CountHolds, PTL

LEMMA SameCardinality == \A S : Dialogs!Cardinality(S) = Cardinality(S)
BY DEF Cardinality, Dialogs!Cardinality

\* The map of the dialogs is a table with a limit that is checked first and
\* filled later: every dialog passed a check of its own, and no copy of a dialog
\* that a task read earlier is written back to a map that no longer has it.
THEOREM DialogsAdmitted == Spec => ImplementsAdmission
<1>1. Init => Dialogs!Init
  BY DEF Init, Dialogs!Init, Open, Present, Sending
<1>2. ASSUME BaseInv, RunInv, OwnInv, CountInv, [Next]_vars
      PROVE  Dialogs!Next \/ UNCHANGED Dialogs!vars
  <2> DEFINE Still == Open' = Open /\ Sending' = Sending
  <2>1. Still => UNCHANGED Dialogs!vars
    BY DEF Dialogs!vars
  <2>2. Present' = Present /\ UNCHANGED sender => Still
    BY DEF Open, Sending
  <2>3. ASSUME NEW c \in Call, RemoveDialog(c), UNCHANGED sender, sender[c] = "done"
        PROVE  Dialogs!Next
    <3>1. Open' = Open \ {c} /\ c \in Open /\ Sending' = Sending
      BY <1>2, <2>3, RemoveEffect
    <3> QED BY <3>1 DEF Dialogs!Next, Dialogs!Leave
  <2>4. ASSUME NEW c \in Call, StartCall(c)
        PROVE  Dialogs!Next \/ Still
    <3>1. CASE Sending' # Sending
      <4>1. /\ Open' = Open /\ Sending' = Sending \cup {c} /\ c \notin Sending
            /\ activeCount < MaxDialogs /\ Cardinality(Sending) < Batch
        BY <1>2, <2>4, <3>1, StartEffect
      <4>1a. Cardinality(Open) < MaxDialogs
        BY <1>2, <4>1, OpenFinite, CallsAssumption, SMT DEF BaseInv, CountInv, CallsAssumption
      <4>2. c \notin Open
        BY <2>4 DEF StartCall, Open
      <4>3. Dialogs!Enter(c)
        BY <4>1, <4>1a, <4>2, SameCardinality DEF Dialogs!Enter
      <4> QED BY <4>3 DEF Dialogs!Next
    <3> QED BY <1>2, <2>4, <3>1, StartEffect
  <2>5. ASSUME NEW c \in Call, InsertDialog(c)
        PROVE  Still
    BY <1>2, <2>5, InsertEffect
  <2>6. ASSUME NEW c \in Call, SendRequest(c)
        PROVE  Dialogs!Next
    <3>1. Dialogs!Admit(c)
      BY <1>2, <2>6, SendEffect DEF Dialogs!Admit
    <3> QED BY <3>1 DEF Dialogs!Next
  <2>7. ASSUME NEW w \in Receiver, ReceiveLoop(w)
        PROVE  Dialogs!Next \/ Still
    BY <1>2, <2>2, <2>3, <2>7, ReceiverEffect
  <2>8. CASE ByeLoop \/ \E c \in InviteCall : ReinviteTask(c)
    BY <1>2, <2>1, <2>2, <2>8, LoopEffect
  <2>9. CASE FarEnd
    BY <1>2, <2>1, <2>2, <2>9, FarEndEffect DEF uacVars
  <2>10. CASE Orchestrator
    BY <1>2, <2>1, <2>2, <2>3, <2>10, OrchestratorEffect
  <2>11. CASE UNCHANGED vars
    BY <2>1, <2>2, <2>11 DEF vars, uacVars, Present
  <2> HIDE DEF Still
  <2> QED BY <1>2, <2>1, <2>4, <2>5, <2>6, <2>7, <2>8, <2>9, <2>10, <2>11 DEF Next, SendTask
<1>3. BaseInv /\ RunInv /\ OwnInv /\ CountInv /\ [Next]_vars => [Dialogs!Next]_(Dialogs!vars)
  BY <1>2
<1> QED
  BY <1>1, <1>3, BaseHolds, RunHolds, OwnHolds, CountHolds, PTL
  DEF Spec, ImplementsAdmission, Dialogs!Spec

\* Every variable keeps its type; the counter is never negative.
THEOREM CallsTypeCorrect == Spec => []TypeOK
<1>1. BaseInv /\ RunInv /\ OwnInv /\ CountInv => TypeOK
  <2> SUFFICES ASSUME BaseInv, RunInv, OwnInv, CountInv PROVE TypeOK
    OBVIOUS
  <2>1. Open \cup Leaving \subseteq Call
    BY DEF Open, Present, Leaving, At, BaseInv, TypeInv
  <2>2. Open \cap Leaving = {}
    BY DEF Open, Leaving, RunInv, OwnInv, Exclusive, At
  <2>3. /\ Cardinality(Open \cup Leaving)
             = Cardinality(Open) + Cardinality(Leaving) - Cardinality(Open \cap Leaving)
        /\ Cardinality(Open) \in Nat /\ Cardinality(Leaving) \in Nat
    BY OpenFinite, FS_Union DEF BaseInv
  <2>4. Cardinality(Open \cap Leaving) = 0
    BY <2>2, FS_EmptySet
  <2>5. Cardinality(Open \cup Leaving) <= Cardinality(Call)
    BY <2>1, CallsFinite, FS_Subset
  <2>6. activeCount \in 0..Cardinality(Call)
    BY <2>3, <2>4, <2>5, CallsFinite, SMT DEF CountInv
  <2> QED BY <2>6 DEF BaseInv, TypeInv, TypeOK
<1> QED BY <1>1, BaseHolds, RunHolds, OwnHolds, CountHolds, PTL

-----------------------------------------------------------------------------
(* The gauge active_dialogs. *)

\* What the gauge stands for: the dialogs of both ends, and those that a cleanup, a
\* shutdown or a receive loop has removed and not yet subtracted.
Total ==
  Cardinality(Open) + Cardinality(Far) + Cardinality(removed) + Cardinality(Settling)

LedgerInv == ~drifted /\ phase # "stopped" => active = Total

\* The gauge is nowhere near its width, so its steps do not wrap.
TotalInv == ~drifted => Total \in 0..(Wrap - 1)

LEMMA TotalBound ==
  ASSUME BaseInv, RunInv, OwnInv
  PROVE  TotalInv
<1> SUFFICES ASSUME ~drifted PROVE Total \in 0..(Wrap - 1)
  BY DEF TotalInv
<1> DEFINE Gone == removed \cup Settling
<1>f. /\ IsFiniteSet(Open) /\ IsFiniteSet(removed) /\ IsFiniteSet(Settling)
      /\ Cardinality(Open) \in Nat /\ Cardinality(Far) \in Nat /\ Cardinality(removed) \in Nat
      /\ Cardinality(Settling) \in Nat
      /\ Cardinality(Far) <= Cardinality(Call) /\ Cardinality(Call) \in Nat
      /\ Wrap \in Nat /\ Wrap > 2 * Cardinality(Call)
  BY OpenFinite, CallsFinite DEF BaseInv
<1>1. removed \cap Settling = {} /\ Open \cap Gone = {}
  BY DEF Open, RunInv, OwnInv, Exclusive, Settling, At
<1>2. /\ IsFiniteSet(Gone)
      /\ Cardinality(Gone)
           = Cardinality(removed) + Cardinality(Settling) - Cardinality(removed \cap Settling)
  BY <1>f, FS_Union
<1>3. Open \cup Gone \subseteq Call
  BY DEF Open, Present, Settling, At, BaseInv, TypeInv
<1> HIDE DEF Gone
<1>4. Cardinality(Open \cup Gone)
        = Cardinality(Open) + Cardinality(Gone) - Cardinality(Open \cap Gone)
  BY <1>f, <1>2, FS_Union
<1>5. Cardinality(removed \cap Settling) = 0 /\ Cardinality(Open \cap Gone) = 0
  BY <1>1, FS_EmptySet
<1>6. Cardinality(Open \cup Gone) <= Cardinality(Call)
  BY <1>3, CallsFinite, FS_Subset
<1> QED BY <1>f, <1>2, <1>4, <1>5, <1>6, SMT DEF Total

LEMMA TotalHolds == Spec => []TotalInv
BY BaseHolds, RunHolds, OwnHolds, TotalBound, PTL

LEMMA GaugeFollows ==
  ASSUME TotalInv', ~drifted', active = Total, NEW d \in Int,
         Total' = Total + d, active' = (active + d) % Wrap
  PROVE  active' = Total'
BY WrapFacts DEF TotalInv

LEMMA LedgerStep ==
  ASSUME BaseInv, RunInv, OwnInv, TotalInv', LedgerInv, [Next]_vars
  PROVE  LedgerInv'
<1> USE DEF BaseInv
<1> SUFFICES ASSUME ~drifted', phase' # "stopped"
             PROVE  active' = Total'
  BY DEF LedgerInv
<1>f. /\ IsFiniteSet(Open) /\ IsFiniteSet(Far) /\ IsFiniteSet(removed) /\ IsFiniteSet(Settling)
      /\ Cardinality(Open) \in Nat /\ Cardinality(Far) \in Nat /\ Cardinality(removed) \in Nat
      /\ Cardinality(Settling) \in Nat /\ active \in Int
  BY OpenFinite DEF TypeInv
<1>g. ASSUME ~drifted, phase # "stopped"
      PROVE  active = Total
  BY <1>g DEF LedgerInv
<1>k. UNCHANGED handling => Settling' = Settling
  BY DEF Settling, At
<1>1. CASE /\ Open' = Open /\ Far' = Far /\ Settling' = Settling
           /\ UNCHANGED <<removed, active, drifted, phase>>
  BY <1>1, <1>g DEF Total
<1>2. ASSUME NEW c \in Call, RemoveDialog(c), sender[c] = "done",
             UNCHANGED <<sender, uas, removed, active, drifted, phase>>,
             Settling' = Settling \cup {c}, c \notin Settling
      PROVE  active' = Total'
  <2>1. Open' = Open \ {c} /\ c \in Open /\ Far' = Far
    BY <1>2, RemoveEffect DEF Far
  <2>2. Cardinality(Open') = Cardinality(Open) - 1
    BY <1>f, <2>1, FS_RemoveElement
  <2>3. Cardinality(Settling') = Cardinality(Settling) + 1
    BY <1>f, <1>2, FS_AddElement
  <2>4. Total' = Total
    BY <1>2, <1>f, <2>1, <2>2, <2>3, SMT DEF Total
  <2> QED BY <1>2, <1>g, <2>4
<1>2a. ASSUME NEW c \in Call, Present' = Present, DecrementActive,
              UNCHANGED <<sender, uas, removed, drifted, phase>>,
              Settling' = Settling \ {c}, c \in Settling
       PROVE  active' = Total'
  <2>1. Open' = Open /\ Far' = Far
    BY <1>2a DEF Open, Far
  <2>2. Cardinality(Settling') = Cardinality(Settling) - 1
    BY <1>f, <1>2a, FS_RemoveElement
  <2>3. Total' = Total + (-1) /\ active' = (active + (-1)) % Wrap
    BY <1>2a, <1>f, <2>1, <2>2, SMT DEF Total, DecrementActive
  <2> QED BY <1>2a, <1>g, <2>3, GaugeFollows, -1 \in Int
<1>3. ASSUME NEW c \in Call, SendTask(c)
      PROVE  active' = Total'
  <2>1. CASE StartCall(c)
    BY <1>1, <1>k, <2>1, StartEffect
  <2>2. CASE InsertDialog(c)
    BY <1>1, <1>k, <2>2, InsertEffect
  <2>3. CASE SendRequest(c)
    <3>1. /\ Open' = Open \cup {c} /\ c \notin Open /\ Far' = Far /\ Settling' = Settling
          /\ active' = (active + 1) % Wrap /\ UNCHANGED <<removed, drifted, phase>>
      BY <1>k, <2>3, SendEffect
    <3>2. Cardinality(Open') = Cardinality(Open) + 1
      BY <1>f, <3>1, FS_AddElement
    <3>3. Total' = Total + 1
      BY <1>f, <3>1, <3>2, SMT DEF Total
    <3> QED BY <1>g, <3>1, <3>3, GaugeFollows, 1 \in Int
  <2> QED BY <1>3, <2>1, <2>2, <2>3 DEF SendTask
<1>4. ASSUME NEW w \in Receiver, ReceiveLoop(w)
      PROVE  active' = Total'
  <2>1. CASE /\ Present' = Present /\ Settling' = Settling
             /\ UNCHANGED <<sender, uas, removed, phase, active, drifted>>
    BY <1>1, <2>1 DEF Open, Far
  <2>2. ASSUME NEW c \in Call,
               Present' = Present, DecrementActive,
               UNCHANGED <<sender, uas, removed, phase, drifted>>,
               drifted \/ (Settling' = Settling \ {c} /\ c \in Settling)
        PROVE  active' = Total'
    BY <1>2a, <2>2
  <2>3. ASSUME NEW c \in Call, RemoveDialog(c), sender[c] = "done",
               UNCHANGED <<sender, uas, removed, phase, active, drifted>>,
               Settling' = Settling \cup {c}, drifted \/ c \notin Settling
        PROVE  active' = Total'
    BY <1>2, <2>3
  <2> QED BY <1>4, <2>1, <2>2, <2>3, ReceiverEffect
<1>5. CASE ByeLoop \/ \E c \in InviteCall : ReinviteTask(c)
  BY <1>1, <1>k, <1>5, LoopEffect DEF Open, Far
<1>6. CASE FarEnd
  <2>1. Open' = Open /\ Settling' = Settling /\ UNCHANGED <<removed, phase>>
    BY <1>6, <1>k, FarEndEffect DEF Open, uacVars
  <2>2. CASE Far' = Far /\ UNCHANGED <<active, drifted>>
    BY <1>1, <2>1, <2>2
  <2>3. ASSUME NEW c \in InviteCall, UasInvite(c)
        PROVE  active' = Total'
    <3>1. ~drifted
      BY <2>3 DEF UasInvite
    <3>2. CASE UNCHANGED <<uas, active, drifted>>
      BY <1>1, <2>1, <3>2 DEF Far
    <3>3. CASE /\ uas[c] = "None" /\ uas' = [uas EXCEPT ![c] = "Early"]
               /\ active' = (active + 1) % Wrap
      <4>1. Far' = Far \cup {c} /\ c \notin Far
        BY <3>3 DEF Far, TypeInv
      <4>2. Cardinality(Far') = Cardinality(Far) + 1
        BY <1>f, <4>1, FS_AddElement
      <4>3. Total' = Total + 1
        BY <1>f, <2>1, <4>2, SMT DEF Total
      <4> QED BY <1>g, <2>1, <3>1, <3>3, <4>3, GaugeFollows, 1 \in Int
    <3> QED BY <2>3, <3>2, <3>3 DEF UasInvite
  <2>4. ASSUME NEW c \in InviteCall, UasBye(c)
        PROVE  active' = Total'
    <3>1. ~drifted
      BY <2>4 DEF UasBye
    <3>2. CASE UNCHANGED <<uas, active>>
      BY <1>1, <2>1, <2>4, <3>2 DEF Far, UasBye
    <3>3. CASE /\ uas[c] # "None" /\ uas' = [uas EXCEPT ![c] = "None"]
               /\ active' = (active - 1) % Wrap
      <4>1. Far' = Far \ {c} /\ c \in Far
        BY <3>3 DEF Far, TypeInv
      <4>2. Cardinality(Far') = Cardinality(Far) - 1
        BY <1>f, <4>1, FS_RemoveElement
      <4>3. Total' = Total + (-1) /\ active' = (active + (-1)) % Wrap
        BY <1>f, <2>1, <3>3, <4>2, SMT DEF Total
      <4> QED BY <1>g, <2>1, <3>1, <4>3, GaugeFollows, -1 \in Int
    <3> QED BY <2>4, <3>2, <3>3 DEF UasBye
  <2> QED BY <1>6, <2>1, <2>2, <2>3, <2>4, FarEndEffect
<1>7. ASSUME Orchestrator, phase # "stopped"
      PROVE  active' = Total'
  <2>k. Settling' = Settling /\ UNCHANGED sender
    BY <1>7, <1>k, OrchestratorEffect
  <2>1. CASE /\ Drain \/ Drained \/ CleanUp \/ NextStep \/ ShutDown
                \/ \E c \in Call : ShutDownBye(c)
             /\ Present' = Present
    <3>1. UNCHANGED <<uas, removed, active, drifted>>
      BY <2>1 DEF Drain, Drained, CleanUp, NextStep, ShutDown, ShutDownBye, statVars
    <3> QED BY <1>7, <1>g, <2>k, <2>1, <3>1 DEF Total, Open, Far
  <2>2. CASE CountRemoved /\ Present' = Present
    <3>1. /\ Open' = Open /\ Far' = Far /\ UNCHANGED drifted
          /\ removed' = {} /\ active' = (active - Cardinality(removed)) % Wrap
      BY <2>2 DEF CountRemoved, Open, Far, uacVars
    <3>2. Cardinality(removed') = 0
      BY <3>1, FS_EmptySet
    <3> DEFINE d == -Cardinality(removed)
    <3>3. d \in Int /\ Total' = Total + d /\ active' = (active + d) % Wrap
      BY <1>f, <2>k, <3>1, <3>2, SMT DEF Total
    <3> HIDE DEF d
    <3> QED BY <1>7, <1>g, <3>1, <3>3, GaugeFollows
  <2>3. CASE Exit
    BY <2>3 DEF Exit
  <2>4. ASSUME NEW c \in Call, ForceRemove(c) \/ ShutDownRemove(c), RemoveDialog(c),
               sender[c] = "done", removed' = removed \cup {c}, UNCHANGED <<active, drifted>>
        PROVE  active' = Total'
    <3>1. /\ Open' = Open \ {c} /\ c \in Open /\ Far' = Far
      BY <2>k, <2>4, RemoveEffect DEF ForceRemove, ShutDownRemove, Far
    <3>2. c \notin removed
      BY <2>4 DEF RunInv, RemoveDialog
    <3>3. Cardinality(Open') = Cardinality(Open) - 1
      BY <1>f, <3>1, FS_RemoveElement
    <3>4. Cardinality(removed') = Cardinality(removed) + 1
      BY <1>f, <2>4, <3>2, FS_AddElement
    <3>5. Total' = Total
      BY <1>f, <2>k, <3>1, <3>3, <3>4, SMT DEF Total
    <3> QED BY <1>7, <1>g, <2>4, <3>5
  <2>5. ASSUME NEW c \in Call, ForceRemove(c) \/ ShutDownRemove(c), c \notin Present,
               Present' = Present
        PROVE  active' = Total'
    <3>1. ForceRemove(c) /\ UNCHANGED <<uas, removed, active, drifted>>
      BY <2>5 DEF ForceRemove, ShutDownRemove, RemoveDialog, statVars
    <3> QED BY <1>7, <1>g, <2>k, <2>5, <3>1 DEF Total, Open, Far
  <2>6. ASSUME NEW c \in Call, CountForced(c), Present' = Present
        PROVE  active' = Total'
    <3>1. UNCHANGED <<uas, removed, active, drifted>>
      BY <2>6 DEF CountForced, statVars
    <3> QED BY <1>7, <1>g, <2>k, <2>6, <3>1 DEF Total, Open, Far
  <2>7. ASSUME NEW c \in Call, ShutDownCount(c), Present' = Present
        PROVE  active' = Total'
    <3>1. /\ Open' = Open /\ Far' = Far /\ UNCHANGED drifted
          /\ removed' = removed \ {c} /\ c \in removed /\ active' = (active - 1) % Wrap
      BY <2>k, <2>7 DEF ShutDownCount, Open, Far, DecrementActive
    <3>2. Cardinality(removed') = Cardinality(removed) - 1
      BY <1>f, <3>1, FS_RemoveElement
    <3>3. Total' = Total + (-1) /\ active' = (active + (-1)) % Wrap
      BY <1>f, <2>k, <3>1, <3>2, SMT DEF Total
    <3> QED BY <1>7, <1>g, <3>1, <3>3, GaugeFollows, -1 \in Int
  <2> QED BY <1>7, <2>1, <2>2, <2>3, <2>4, <2>5, <2>6, <2>7, OrchestratorEffect
<1>8. CASE UNCHANGED vars
  BY <1>1, <1>k, <1>8 DEF vars, uacVars, statVars, runVars, Open, Present, Far
<1> QED BY <1>3, <1>4, <1>5, <1>6, <1>7, <1>8 DEF Next

LEMMA LedgerHolds == Spec => []LedgerInv
<1>1. Init => LedgerInv
  <2> SUFFICES ASSUME Init PROVE active = Total
    BY DEF LedgerInv
  <2>1. Open = {} /\ Far = {} /\ removed = {} /\ Settling = {} /\ active = 0
    BY DEF Init, Open, Present, Far, Settling, At, Free
  <2> QED BY <2>1, FS_EmptySet, SMT DEF Total
<1> QED BY <1>1, BaseHolds, RunHolds, OwnHolds, TotalHolds, LedgerStep, PTL DEF Spec

\* The gauge that both ends share is the number of their dialogs and of those somebody
\* has removed and still has to subtract, in every interleaving of the handlers with a
\* cleanup, unless it is known to have drifted.
THEOREM GaugeExact == Spec => []Ledger
<1>1. LedgerInv => Ledger
  BY DEF LedgerInv, Ledger, Total, Open, Far
<1> QED BY <1>1, LedgerHolds, PTL

\* What a handler works on is still in the map, as long as nothing but the one
\* receive loop removes dialogs.
Undisturbed ==
  /\ Cardinality(Receiver) = 1 /\ ~SendFailures
  /\ step = 1 /\ phase \in {"sending", "draining"}

\* The points of a handler that has not removed its dialog.
Owner == Response \cup {"resend", "failed"}

Found == At(Owner) \subseteq Present

LookupInv == Undisturbed => ~drifted /\ Found

\* The loop looks the dialog up before it works on it, and is done with it once
\* it has removed it.
LEMMA LookupReceiver ==
  ASSUME BaseInv, ~drifted, Found, NEW w \in Receiver, Receiver = {w}, ReceiveLoop(w)
  PROVE  ~drifted' /\ Found'
<1> USE DEF BaseInv
<1> PICK c \in Call : HandleResponse(w, c)
  BY DEF ReceiveLoop
<1>t. handling \in [Receiver -> {Free} \cup Call \X (Response \cup Point)]
  BY DEF TypeInv
<1>1. CASE CompleteCall(w, c) \/ DropCall(w, c)
  <2>1. PICK r \in Owner, p \in Uncounted, q \in Point : RemoveOwn(w, c, r, p, q)
    BY <1>1 DEF CompleteCall, DropCall, Owner, Uncounted, Response, Point
  <2>2. c \in Present
    BY <2>1 DEF Found, At, RemoveOwn, Continue
  <2>3. Continue(w, c, r, p) /\ UNCHANGED drifted
    BY <2>1, <2>2 DEF RemoveOwn
  <2>4. At(Owner)' = {}
    <3>1. handling'[w] = <<c, p>> /\ p \notin Owner
      BY <1>t, <2>3 DEF Continue, Uncounted, Owner, Response
    <3> QED BY <3>1 DEF At
  <2> QED BY <2>3, <2>4 DEF Found
<1>2. CASE /\ ~(CompleteCall(w, c) \/ DropCall(w, c))
           /\ Present' = Present /\ UNCHANGED drifted
  <2>1. CASE \E r \in Response : Receive(w, c, r)
    <3>1. c \in Present /\ \E q : handling'[w] = <<c, q>>
      BY <1>t, <2>1 DEF Receive
    <3> QED BY <1>2, <3>1 DEF Found, At
  <2>2. CASE FailCall(w, c) \/ AcceptChallenge(w, c)
    <3>1. PICK r \in Owner, p \in Point : Continue(w, c, r, p)
      BY <2>2 DEF FailCall, AcceptChallenge, Owner, Response, Point
    <3>2. c \in Present /\ handling'[w] = <<c, p>>
      BY <1>t, <3>1 DEF Found, At, Continue
    <3> QED BY <1>2, <3>2 DEF Found, At
  <2>3. CASE \/ RecordSuccess(w, c) \/ CountTaken(w, c) \/ CloseCall(w, c)
             \/ ConfirmCall(w, c) \/ FailChallenge(w, c) \/ AnswerChallenge(w, c)
    <3>1. handling'[w] = Free \/ \E p \in {"record", "close"} : handling'[w] = <<c, p>>
      BY <1>t, <2>3 DEF RecordSuccess, CountTaken, CloseCall, ConfirmCall, FailChallenge,
                        AnswerChallenge, Continue, Handle
    <3>2. \A d \in Call : handling'[w] \notin {d} \X Owner
      <4>1. "record" \notin Owner /\ "close" \notin Owner
        BY DEF Owner, Response
      <4> QED BY <3>1, <4>1 DEF Free
    <3>3. At(Owner)' = {}
      BY <3>2 DEF At
    <3> QED BY <1>2, <3>3 DEF Found
  <2> QED BY <1>2, <2>1, <2>2, <2>3 DEF HandleResponse
<1>3. CASE (CompleteCall(w, c) \/ DropCall(w, c)) \/ (Present' = Present /\ UNCHANGED drifted)
  BY <1>1, <1>2, <1>3
<1> QED BY <1>3, ReceiverDialogs

LEMMA LookupStep ==
  ASSUME BaseInv, LookupInv, [Next]_vars
  PROVE  LookupInv'
<1> SUFFICES ASSUME Undisturbed' PROVE ~drifted' /\ Found'
  BY DEF LookupInv
<1>1. Undisturbed /\ ~drifted /\ Found
  <2>1. UNCHANGED <<phase, step>> \/ Orchestrator
    <3>1. UNCHANGED phase \/ Orchestrator
      BY StartEffect, InsertEffect, SendEffect, HandlerMoves, LoopEffect, FarEndEffect
      DEF Next, SendTask, ReceiveLoop, vars, runVars
    <3>2. ASSUME NEW c \in Call, SendTask(c)
          PROVE  UNCHANGED step
      BY <3>2 DEF SendTask, StartCall, InsertDialog, SendRequest, runVars
    <3>3. ASSUME NEW w \in Receiver, ReceiveLoop(w)
          PROVE  UNCHANGED step
      BY <3>3, HandlerMoves DEF ReceiveLoop, runVars
    <3>4. CASE ByeLoop \/ \E c \in InviteCall : ReinviteTask(c)
      BY <3>4 DEF ByeLoop, ReinviteTask, CollectForBye, SendBye, NoteBye, SendReinvite,
                  NoteReinvite, runVars
    <3>5. FarEnd => UNCHANGED step
      BY DEF FarEnd, Challenge, Reject, Register, UasInvite, UasAck, UasBye, runVars
    <3> QED
      BY <3>1, <3>2, <3>3, <3>4, <3>5 DEF Next, vars, runVars
  <2>2. step \in Nat \ {0}
    BY DEF BaseInv, TypeInv
  <2>3. Orchestrator /\ Undisturbed' => step = 1 /\ phase \in {"sending", "draining"}
    BY <2>2 DEF Undisturbed, Orchestrator, Drain, Drained, CleanUp, CountRemoved, NextStep,
         ShutDown, Exit, ForceRemove, CountForced, ShutDownBye, ShutDownRemove, ShutDownCount
  <2> QED BY <2>1, <2>3 DEF Undisturbed, LookupInv
<1>2. CASE Present \subseteq Present' /\ UNCHANGED <<handling, drifted>>
  BY <1>1, <1>2 DEF Found, At
<1>3. ASSUME NEW c \in Call, SendTask(c)
      PROVE  ~drifted' /\ Found'
  <2>1. UNCHANGED <<handling, drifted>>
    BY <1>3 DEF SendTask, StartCall, InsertDialog, SendRequest
  <2> QED BY <1>2, <1>3, <2>1, StartEffect, InsertEffect, SendEffect DEF SendTask
<1>4. ASSUME NEW w \in Receiver, ReceiveLoop(w)
      PROVE  ~drifted' /\ Found'
  <2>1. Receiver = {w}
    <3>1. PICK v : Receiver = {v}
      BY <1>1, CallsAssumption, FS_Singleton DEF CallsAssumption, Undisturbed
    <3> QED BY <3>1
  <2> QED BY <1>1, <1>4, <2>1, LookupReceiver
<1>5. CASE ByeLoop \/ \E c \in InviteCall : ReinviteTask(c)
  <2>1. UNCHANGED handling
    BY <1>5 DEF ByeLoop, ReinviteTask, CollectForBye, SendBye, NoteBye, SendReinvite,
                NoteReinvite
  <2> QED BY <1>2, <1>5, <2>1, LoopEffect
<1>6. CASE FarEnd
  <2>1. UNCHANGED drifted
    BY <1>1, <1>6 DEF Undisturbed, FarEnd, Challenge, Reject, Register, UasInvite, UasAck,
                      UasBye
  <2> QED BY <1>2, <1>6, <2>1, FarEndEffect DEF uacVars
<1>7. CASE Orchestrator
  <2>1. Drain
    BY <1>1, <1>7 DEF Undisturbed, Orchestrator, Drained, CleanUp, CountRemoved, NextStep,
         ShutDown, Exit, ForceRemove, CountForced, ShutDownBye, ShutDownRemove, ShutDownCount
  <2> QED BY <1>2, <2>1 DEF Drain, uacVars, Present
<1>8. CASE UNCHANGED vars
  BY <1>2, <1>8 DEF vars, uacVars, Present
<1> QED BY <1>3, <1>4, <1>5, <1>6, <1>7, <1>8 DEF Next

LEMMA LookupHolds == Spec => []LookupInv
<1>1. Init => LookupInv
  BY DEF Init, LookupInv, Found, At, Free
<1> QED BY <1>1, BaseHolds, LookupStep, PTL DEF Spec

\* One receive loop never decrements the gauge for a dialog that somebody else has
\* removed, until the first cleanup or shutdown: the drain of the first step
\* waits for a gauge that is exact.
THEOREM GaugeExactUntilCleanup == Spec => []GaugeUndisturbed
<1>1. LookupInv => GaugeUndisturbed
  BY DEF LookupInv, Undisturbed, GaugeUndisturbed
<1> QED BY <1>1, LookupHolds, PTL

-----------------------------------------------------------------------------
(* The outcomes recorded for a call. *)

\* A step that is reported has left no dialog behind.
EmptyInv == phase = "reported" /\ ~drifted => Present = {}

LEMMA EmptyStep ==
  ASSUME BaseInv, RunInv, OwnInv, LedgerInv, EmptyInv, [Next]_vars
  PROVE  EmptyInv'
<1> USE DEF BaseInv
<1>1. CASE Present' \subseteq Present /\ UNCHANGED <<phase, drifted>>
  BY <1>1 DEF EmptyInv
<1>2. ASSUME NEW c \in Call, RemoveDialog(c), UNCHANGED phase, drifted => drifted'
      PROVE  EmptyInv'
  BY <1>2, RemovesOne DEF EmptyInv, TypeInv
<1>3. ASSUME NEW c \in Call, SendTask(c)
      PROVE  EmptyInv'
  BY <1>3 DEF SendTask, StartCall, InsertDialog, SendRequest, SentInv, Sending, EmptyInv, runVars
<1>4. ASSUME NEW w \in Receiver, ReceiveLoop(w)
      PROVE  EmptyInv'
  <2>1. PICK c \in Call : HandleResponse(w, c)
    BY <1>4 DEF ReceiveLoop
  <2>2. UNCHANGED phase /\ (Present' = Present \/ RemoveDialog(c)) /\ (drifted => drifted')
    BY <2>1, HandlerMoves, ReceiverDialogs DEF runVars
  <2>3. Present' \subseteq Present
    BY <2>2, RemovesOne
  <2> QED BY <2>2, <2>3 DEF EmptyInv, TypeInv
<1>5. CASE ByeLoop \/ \E c \in InviteCall : ReinviteTask(c)
  BY <1>1, <1>5, LoopEffect
<1>6. CASE FarEnd
  <2>1. drifted => drifted'
    BY <1>6 DEF FarEnd, Challenge, Reject, Register, UasInvite, UasAck, UasBye
  <2> QED BY <1>6, <2>1, FarEndEffect DEF EmptyInv, TypeInv
<1>7. CASE Orchestrator
  <2>1. CASE Drain \/ CleanUp \/ NextStep \/ ShutDown \/ Exit \/ \E c \in Call : ShutDownBye(c)
    BY <2>1 DEF Drain, CleanUp, NextStep, ShutDown, Exit, ShutDownBye, EmptyInv
  <2>2. CASE Drained
    <3>1. /\ UNCHANGED <<dialog, drifted>> /\ active = 0 /\ phase = "draining"
      BY <2>2 DEF Drained, uacVars
    <3>2. SUFFICES ASSUME ~drifted PROVE Present = {}
      BY <3>1 DEF EmptyInv, Present
    <3>3. Cardinality(Open) = 0
      BY <3>1, <3>2, OpenFinite, SMT DEF LedgerInv, Total
    <3>4. Open = {}
      BY <3>3, OpenFinite, FS_EmptySet
    <3>5. Sending = {}
      BY <3>1 DEF SentInv
    <3> QED BY <3>4, <3>5 DEF Open, Sending, SentInv, TypeInv, Present
  <2>3. CASE CountRemoved
    BY <2>3 DEF CountRemoved, RunInv, EmptyInv, uacVars, Present
  <2>4. ASSUME NEW c \in Call,
               ForceRemove(c) \/ CountForced(c) \/ ShutDownRemove(c) \/ ShutDownCount(c)
        PROVE  EmptyInv'
    BY <2>4 DEF ForceRemove, CountForced, ShutDownRemove, ShutDownCount, EmptyInv
  <2> QED BY <1>7, <2>1, <2>2, <2>3, <2>4 DEF Orchestrator
<1>8. CASE UNCHANGED vars
  BY <1>1, <1>8 DEF vars, uacVars, runVars, Present
<1> QED BY <1>3, <1>4, <1>5, <1>6, <1>7, <1>8 DEF Next

LEMMA EmptyHolds == Spec => []EmptyInv
<1>1. Init => EmptyInv
  BY DEF Init, EmptyInv
<1> QED BY <1>1, BaseHolds, RunHolds, OwnHolds, LedgerHolds, EmptyStep, PTL DEF Spec

\* A proxy that asks for no credentials challenges nobody.
NoChallenge == ~AuthRequired => \A c \in Call : "401/407" \notin responses[c]

LEMMA NoChallengeHolds == Spec => []NoChallenge
<1>1. Init => NoChallenge
  BY DEF Init, NoChallenge
<1>2. ASSUME BaseInv, NoChallenge, [Next]_vars
      PROVE  NoChallenge'
  <2> USE DEF BaseInv
  <2>0. SUFFICES ASSUME ~AuthRequired, \A c \in Call : "401/407" \notin responses[c]
                 PROVE  \A c \in Call : "401/407" \notin responses'[c]
    BY <1>2, CallsAssumption DEF NoChallenge, CallsAssumption
  <2>1. CASE UNCHANGED responses
    BY <2>0, <2>1
  <2>2. CASE FarEnd
    <3>1. ASSUME NEW c \in Call, NEW r \in Response, Reply(c, r), r # "401/407"
          PROVE  \A d \in Call : "401/407" \notin responses'[d]
      BY <1>2, <2>0, <3>1, ReplyGrows
    <3>2. ASSUME NEW c \in Call, Challenge(c)
          PROVE  \A d \in Call : "401/407" \notin responses'[d]
      BY <2>0, <3>2 DEF Challenge
    <3>3. ASSUME NEW c \in Call, Reject(c) \/ Register(c)
          PROVE  \A d \in Call : "401/407" \notin responses'[d]
      <4>1. \E r \in Response : Reply(c, r) /\ r # "401/407"
        BY <3>3 DEF Reject, Register, Response
      <4> QED BY <3>1, <4>1
    <3>4. ASSUME NEW c \in InviteCall, UasInvite(c) \/ UasAck(c) \/ UasBye(c)
          PROVE  \A d \in Call : "401/407" \notin responses'[d]
      <4>1. UNCHANGED responses \/ \E r \in Response : Reply(c, r) /\ r # "401/407"
        BY <3>4 DEF UasInvite, UasAck, UasBye, Response, wireVars
      <4> QED BY <2>1, <3>1, <4>1 DEF Call
    <3> QED BY <2>2, <3>2, <3>3, <3>4 DEF FarEnd
  <2>3. ASSUME NEW w \in Receiver, ReceiveLoop(w)
        PROVE  UNCHANGED responses
    BY <2>3, HandlerMoves DEF ReceiveLoop
  <2>4. CASE (\E c \in Call : SendTask(c)) \/ ByeLoop \/ (\E c \in InviteCall : ReinviteTask(c))
    BY <2>1, <2>4 DEF SendTask, StartCall, InsertDialog, SendRequest, ByeLoop, ReinviteTask,
                CollectForBye, SendBye, NoteBye, SendReinvite, NoteReinvite, wireVars
  <2>5. CASE Orchestrator
    BY <2>1, <2>5 DEF Orchestrator, Drain, Drained, CleanUp, CountRemoved, NextStep, ShutDown,
                Exit, ForceRemove, CountForced, ShutDownBye, ShutDownRemove, ShutDownCount,
                wireVars
  <2>6. CASE UNCHANGED vars
    BY <2>1, <2>6 DEF vars, wireVars
  <2> QED BY <1>2, <2>1, <2>2, <2>3, <2>4, <2>5, <2>6 DEF Next
<1> QED BY <1>1, <1>2, BaseHolds, PTL DEF Spec

Taking == {"taken", "record"}

\* An outcome is still to come for a call that has a dialog, or had one that a
\* cleanup has not counted yet, or a receive loop has not yet recorded.
Held == Present \cup removed \cup At(Taking)

\* The receive loops that have recorded a failure and not yet dropped the dialog.
Ahead(c) == {w \in Receiver : handling[w] = <<c, "failed">>}

\* What the outcomes of a call amount to, if every handler finds its dialog.  Of
\* several handlers that are ahead only the first will find it.
Once(c) ==
  /\ Ahead(c) = {} => Outcomes(c) <= 1
  /\ Ahead(c) = {} /\ (c \in Held \/ sender[c] # "done") => Outcomes(c) = 0
  /\ c \in Present /\ (\A v, w \in Ahead(c) : v = w) => Outcomes(c) <= 1

OutcomeOf(c) ==
  /\ Ahead(c) # {} => Outcomes(c) > 0
  /\ ~AuthRequired /\ ~drifted => Once(c)
  /\ phase \notin {"stopping", "stopped"} /\ sender[c] = "done" => Outcomes(c) > 0 \/ c \in Held

OutcomeInv ==
  /\ \A c \in removed : sender[c] = "done"
  /\ \A c \in Call : OutcomeOf(c)

LEMMA OutcomeNat ==
  ASSUME TypeInv, NEW c \in Call
  PROVE  success[c] \in Nat /\ failure[c] \in Nat /\ Outcomes(c) \in Nat
<1>1. success[c] \in Nat /\ failure[c] \in Nat
  BY DEF TypeInv
<1> QED BY <1>1, SMT DEF Outcomes

LEMMA OutcomeSame ==
  ASSUME UNCHANGED <<success, failure>>
  PROVE  \A c \in Call : Outcomes(c)' = Outcomes(c)
BY DEF Outcomes

LEMMA OutcomeCounted ==
  ASSUME TypeInv, NEW c \in Call,
         \/ RecordCall(c) /\ UNCHANGED failure
         \/ RecordFailure(c) /\ UNCHANGED success
  PROVE  /\ \A d \in Call : d # c => Outcomes(d)' = Outcomes(d)
         /\ Outcomes(c)' > 0 /\ (Outcomes(c) = 0 => Outcomes(c)' <= 1)
<1>1. success[c] \in Nat /\ failure[c] \in Nat /\ Outcomes(c) \in Nat
  BY OutcomeNat
<1>2. CASE RecordCall(c) /\ UNCHANGED failure
  <2>1. /\ \A d \in Call : d # c => success'[d] = success[d]
        /\ success'[c] = success[c] + 1
    BY <1>2 DEF RecordCall, TypeInv
  <2> QED BY <1>1, <1>2, <2>1, SMT DEF Outcomes
<1>3. CASE RecordFailure(c) /\ UNCHANGED success
  <2>1. /\ \A d \in Call : d # c => failure'[d] = failure[d]
        /\ failure'[c] = failure[c] + 1
    BY <1>3 DEF RecordFailure, TypeInv
  <2> QED BY <1>1, <1>3, <2>1, SMT DEF Outcomes
<1> QED BY <1>2, <1>3

\* A step that records no outcome and starts no call.
LEMMA OutcomeKept ==
  ASSUME BaseInv, OutcomeInv, UNCHANGED <<sender, success, failure>>, drifted => drifted',
         \A c \in removed' : sender[c] = "done",
         \A c \in Call : Ahead(c)' = Ahead(c),
         drifted' \/ (Held' \subseteq Held /\ Present' \subseteq Present),
         phase \in {"stopping", "stopped"} => phase' \in {"stopping", "stopped"},
         Held \subseteq Held' \/ phase' \in {"stopping", "stopped"}
  PROVE  OutcomeInv'
<1>1. \A c \in Call : Outcomes(c)' = Outcomes(c)
  BY OutcomeSame
<1>2. drifted' \/ ~drifted
  BY DEF BaseInv, TypeInv
<1>3. ASSUME NEW c \in Call
      PROVE  OutcomeOf(c)'
  <2>1. OutcomeOf(c) /\ Outcomes(c)' = Outcomes(c) /\ Ahead(c)' = Ahead(c)
    BY <1>1 DEF OutcomeInv
  <2>2. ~AuthRequired /\ ~drifted' => Once(c)'
    BY <1>2, <2>1 DEF OutcomeOf, Once
  <2> QED BY <2>1, <2>2 DEF OutcomeOf
<1> QED BY <1>3 DEF OutcomeInv

\* A step about one call.
LEMMA OutcomeLocal ==
  ASSUME BaseInv, OutcomeInv, NEW c \in Call, drifted => drifted', UNCHANGED phase,
         \A d \in removed' : sender'[d] = "done",
         \A d \in Call : d # c =>
           /\ sender'[d] = sender[d] /\ Outcomes(d)' = Outcomes(d) /\ Ahead(d)' = Ahead(d)
           /\ d \in Held' <=> d \in Held
           /\ d \in Present' <=> d \in Present,
         OutcomeOf(c)'
  PROVE  OutcomeInv'
<1>1. drifted' \/ ~drifted
  BY DEF BaseInv, TypeInv
<1>2. ASSUME NEW d \in Call, d # c
      PROVE  OutcomeOf(d)'
  <2>1. /\ OutcomeOf(d) /\ Outcomes(d)' = Outcomes(d) /\ Ahead(d)' = Ahead(d)
        /\ sender'[d] = sender[d] /\ (d \in Held' <=> d \in Held)
        /\ d \in Present' <=> d \in Present
    BY <1>2 DEF OutcomeInv
  <2>2. ~AuthRequired /\ ~drifted' => Once(d)'
    BY <1>1, <2>1 DEF OutcomeOf, Once
  <2> QED BY <2>1, <2>2 DEF OutcomeOf
<1> QED BY <1>2 DEF OutcomeInv

LEMMA PointFacts ==
  ASSUME NEW c, NEW q, q # "failed"
  PROVE  /\ <<c, q>> \in {c} \X Taking <=> q \in Taking
         /\ <<c, q>> # <<c, "failed">>
         /\ Free \notin {c} \X Taking /\ Free # <<c, "failed">>
BY DEF Free

\* What a handler's step does to the sets the outcomes depend on.
LEMMA HandlerHeld ==
  ASSUME TypeInv, NEW w \in Receiver, NEW c \in Call, NEW h, Moves(w, c, h)
  PROVE  /\ \A d \in Call : d # c => /\ d \in At(Taking)' <=> d \in At(Taking)
                                     /\ Ahead(d)' = Ahead(d)
         /\ Ahead(c)' = IF h = <<c, "failed">> THEN Ahead(c) \cup {w} ELSE Ahead(c) \ {w}
         /\ handling[w] # <<c, "failed">> /\ h # <<c, "failed">> =>
              \A d \in Call : Ahead(d)' = Ahead(d)
         /\ h \in {c} \X Taking => At(Taking)' = At(Taking) \cup {c}
<1>1. /\ \A v \in Receiver : v # w => handling'[v] = handling[v]
      /\ handling'[w] = h
  BY DEF Moves, TypeInv
<1>2. \A d \in Call : d # c => handling[w] \notin {d} \X Taking /\ h \notin {d} \X Taking
  BY DEF Moves, Free
<1>3. \A d \in Call : d # c => handling[w] # <<d, "failed">> /\ h # <<d, "failed">>
  BY DEF Moves, Free
<1>4. \A d \in Call : d # c => (d \in At(Taking)' <=> d \in At(Taking))
  BY <1>1, <1>2 DEF At
<1>5. \A d \in Call : d # c => Ahead(d)' = Ahead(d)
  BY <1>1, <1>3 DEF Ahead
<1>6. Ahead(c)' = IF h = <<c, "failed">> THEN Ahead(c) \cup {w} ELSE Ahead(c) \ {w}
  BY <1>1 DEF Ahead
<1>7. handling[w] # <<c, "failed">> /\ h # <<c, "failed">> => Ahead(c)' = Ahead(c)
  BY <1>1 DEF Ahead
<1>8. ASSUME h \in {c} \X Taking
      PROVE  At(Taking)' = At(Taking) \cup {c}
  <2>1. c \in At(Taking)'
    BY <1>1, <1>8 DEF At
  <2>2. At(Taking)' \subseteq Call /\ At(Taking) \subseteq Call
    BY DEF At
  <2> QED BY <1>4, <2>1, <2>2
<1> QED BY <1>4, <1>5, <1>6, <1>7, <1>8

\* A call that was not sent is in nobody's hands.
LEMMA UnsentFree ==
  ASSUME BaseInv, OutcomeInv, NEW c \in Call, sender[c] # "done"
  PROVE  c \notin At(Taking) /\ Ahead(c) = {} /\ c \notin removed
<1>1. Taking \in SUBSET (Response \cup Point) /\ "failed" \in Response \cup Point
  BY DEF Taking, Point
<1>2. c \notin At(Taking)
  BY <1>1, AtSent
<1>3. Ahead(c) = {}
  BY <1>1, HandledSent DEF Ahead, BaseInv
<1> QED BY <1>2, <1>3 DEF OutcomeInv

\* The handlers.
LEMMA OutcomeReceiver ==
  ASSUME BaseInv, RunInv, OwnInv, NoChallenge, OutcomeInv, NEW w \in Receiver, ReceiveLoop(w)
  PROVE  OutcomeInv'
<1> USE DEF BaseInv
<1> PICK c \in Call : HandleResponse(w, c)
  BY DEF ReceiveLoop
<1>0. /\ UNCHANGED <<sender, removed, phase>>
      /\ \A d \in removed' : sender[d] = "done" /\ sender'[d] = "done"
  BY HandlerMoves DEF runVars, OutcomeInv
<1>t. {"taken", "record", "failed", "dropped", "close", "resend"} \subseteq Response \cup Point
  BY DEF Point
<1>o. Taking \subseteq Owing
  BY DEF Taking, Owing
\* The steps that take, record and drop nothing.
<1>1. ASSUME NEW h, Moves(w, c, h), UNCHANGED <<success, failure, drifted>>,
             Present' = Present,
             handling[w] \in {c} \X Taking <=> h \in {c} \X Taking,
             handling[w] # <<c, "failed">>, h # <<c, "failed">>
      PROVE  OutcomeInv'
  <2>1. At(Taking)' = At(Taking)
    BY <1>1, AtMoves
  <2>2. \A d \in Call : Ahead(d)' = Ahead(d)
    BY <1>1, HandlerHeld DEF Ahead
  <2>3. Held' = Held
    BY <1>0, <1>1, <2>1 DEF Held
  <2> QED BY <1>0, <1>1, <2>2, <2>3, OutcomeKept
<1>2. ASSUME NEW r \in Response, Receive(w, c, r)
      PROVE  OutcomeInv'
  <2>1. Moves(w, c, <<c, r>>) /\ handling[w] = Free
    BY <1>2 DEF Moves, Receive
  <2>2. r \notin Taking /\ r # "failed"
    BY DEF Response, Taking
  <2>3. UNCHANGED <<success, failure, drifted>> /\ Present' = Present
    BY <1>2 DEF Receive, Present, statVars
  <2>4. <<c, r>> \notin {c} \X Taking /\ handling[w] \notin {c} \X Taking
    BY <2>1, <2>2 DEF Free
  <2>5. <<c, r>> # <<c, "failed">> /\ handling[w] # <<c, "failed">>
    BY <2>1, <2>2 DEF Free
  <2> QED BY <1>1, <2>1, <2>3, <2>4, <2>5
<1>3. CASE AcceptChallenge(w, c) \/ CountTaken(w, c)
  <2>1. PICK r \in {"401/407", "taken", "dropped"}, p \in {"resend", "record", "close"} :
          /\ Continue(w, c, r, p)
          /\ r = "taken" <=> p = "record"
    BY <1>3 DEF AcceptChallenge, CountTaken
  <2>2. r \in Response \cup Point /\ p \in Response \cup Point
    BY DEF Response, Point
  <2>3. Moves(w, c, <<c, p>>) /\ handling[w] = <<c, r>>
    BY <2>1, <2>2, ContinueMoves
  <2>4. (r \in Taking <=> p \in Taking) /\ r # "failed" /\ p # "failed"
    BY <2>1 DEF Taking
  <2>5. UNCHANGED <<success, failure, drifted>> /\ Present' = Present
    BY <1>3 DEF AcceptChallenge, CountTaken, Present, statVars
  <2>6. handling[w] \in {c} \X Taking <=> <<c, p>> \in {c} \X Taking
    BY <2>3, <2>4
  <2>7. handling[w] # <<c, "failed">> /\ <<c, p>> # <<c, "failed">>
    BY <2>3, <2>4
  <2> QED BY <1>1, <2>3, <2>5, <2>6, <2>7
<1>4. CASE CloseCall(w, c) \/ ConfirmCall(w, c) \/ FailChallenge(w, c) \/ AnswerChallenge(w, c)
  <2>1. PICK r \in Response \cup Point :
          /\ r \in {"close", "INVITE 200", "401/407", "resend"}
          /\ Handle(w, c, r) /\ (FailChallenge(w, c) => r = "401/407")
    BY <1>4 DEF CloseCall, ConfirmCall, FailChallenge, AnswerChallenge, Response, Point
  <2>3. Moves(w, c, Free) /\ handling[w] = <<c, r>>
    BY <2>1, HandleMoves DEF Handle
  <2>4. r \notin Taking /\ r # "failed"
    BY <2>1 DEF Taking
  <2>5. handling[w] \notin {c} \X Taking /\ Free \notin {c} \X Taking
    BY <2>3, <2>4, PointFacts
  <2>6. handling[w] # <<c, "failed">> /\ Free # <<c, "failed">>
    BY <2>3, <2>4, PointFacts
  <2>7. Present' = Present /\ UNCHANGED drifted
    <3>1. ASSUME CompleteCall(w, c) \/ DropCall(w, c)
          PROVE  FALSE
      <4>1. PICK p \in Response \cup Point : handling' = [handling EXCEPT ![w] = <<c, p>>]
        BY <3>1 DEF CompleteCall, DropCall, RemoveOwn, Continue, Response, Point
      <4>2. handling'[w] = <<c, p>> /\ handling'[w] = Free
        BY <2>3, <4>1 DEF Moves, TypeInv
      <4> QED BY <4>2 DEF Free
    <3> QED BY <3>1, ReceiverDialogs
  <2>8. CASE UNCHANGED <<success, failure>>
    BY <1>1, <2>3, <2>5, <2>6, <2>7, <2>8
  <2>9. CASE FailChallenge(w, c) /\ ~UNCHANGED <<success, failure>>
    <3>1. AuthRequired
      <4>1. "401/407" \in responses[c]
        BY <2>1, <2>3, <2>9, HandledSent DEF Response
      <4> QED BY <4>1 DEF NoChallenge
    <3>2. RecordFailure(c) /\ UNCHANGED success
      BY <2>9 DEF FailChallenge
    <3>3. \A d \in Call : d # c => Outcomes(d)' = Outcomes(d)
      BY <3>2, OutcomeCounted
    <3>4. Outcomes(c)' > 0
      BY <3>2, OutcomeCounted
    <3>5. At(Taking)' = At(Taking) /\ \A d \in Call : Ahead(d)' = Ahead(d)
      <4>1. At(Taking)' = At(Taking)
        BY <2>3, <2>5, AtMoves
      <4>2. \A d \in Call : Ahead(d)' = Ahead(d)
        BY <2>3, <2>6, HandlerHeld
      <4> QED BY <4>1, <4>2
    <3>6. Held' = Held
      BY <1>0, <2>7, <3>5 DEF Held
    <3>7. OutcomeOf(c)'
      BY <3>1, <3>4 DEF OutcomeOf
    <3> QED BY <1>0, <2>7, <3>3, <3>5, <3>6, <3>7, OutcomeLocal
  <2> QED BY <1>4, <2>8, <2>9 DEF CloseCall, ConfirmCall, FailChallenge, AnswerChallenge, statVars
\* The dialog is taken out of the map, or is found to be gone.
<1>5. CASE CompleteCall(w, c)
  <2>1. PICK r \in Response, p \in Taking : Continue(w, c, r, p)
    BY <1>5 DEF CompleteCall, RemoveOwn, Taking, Response
  <2>2. r \in Response \cup Point /\ p \in Response \cup Point /\ r # "failed" /\ p # "failed"
    BY DEF Response, Point, Taking
  <2>3. PICK h : /\ Moves(w, c, h) /\ h \in {c} \X Taking
                 /\ handling[w] # <<c, "failed">> /\ h # <<c, "failed">>
    <3>1. Moves(w, c, <<c, p>>) /\ handling[w] = <<c, r>>
      BY <2>1, <2>2, ContinueMoves
    <3>2. handling[w] # <<c, "failed">> /\ <<c, p>> # <<c, "failed">>
      BY <2>2, <3>1, PointFacts
    <3>3. <<c, p>> \in {c} \X Taking
      OBVIOUS
    <3> QED BY <3>1, <3>2, <3>3
  <2>4. At(Taking)' = At(Taking) \cup {c}
    BY <2>3, HandlerHeld
  <2>5. \A d \in Call : Ahead(d)' = Ahead(d)
    BY <2>3, HandlerHeld
  <2>6. UNCHANGED <<success, failure>>
    BY <1>5 DEF CompleteCall, statVars
  <2>7. CASE RemoveDialog(c) /\ UNCHANGED drifted
    <3>1. Present' = Present \ {c} /\ c \in Present
      BY <2>7, RemovesOne DEF RemoveDialog
    <3>2. Held' = Held
      BY <1>0, <2>4, <3>1 DEF Held
    <3> QED BY <1>0, <2>5, <2>6, <2>7, <3>1, <3>2, OutcomeKept
  <2>8. CASE UNCHANGED dialog /\ drifted' = TRUE
    <3>1. Held \subseteq Held'
      BY <1>0, <2>4, <2>8 DEF Held, Present
    <3> QED BY <1>0, <2>5, <2>6, <2>8, <3>1, OutcomeKept
  <2> QED BY <1>5, <2>7, <2>8 DEF CompleteCall, RemoveOwn
\* The call is recorded.
<1>6. CASE RecordSuccess(w, c)
  <2>1. Moves(w, c, <<c, "close">>) /\ handling[w] = <<c, "record">>
    BY <1>6, <1>t, ContinueMoves DEF RecordSuccess
  <2>2. /\ \A d \in Call : d # c => Outcomes(d)' = Outcomes(d)
        /\ Outcomes(c)' > 0 /\ (Outcomes(c) = 0 => Outcomes(c)' <= 1)
    BY <1>6, OutcomeCounted DEF RecordSuccess
  <2>3. Present' = Present /\ UNCHANGED drifted
    BY <1>6 DEF RecordSuccess, Present
  <2>4. /\ \A d \in Call : d # c => (d \in At(Taking)' <=> d \in At(Taking))
        /\ \A d \in Call : Ahead(d)' = Ahead(d)
    <3>1. handling[w] # <<c, "failed">> /\ <<c, "close">> # <<c, "failed">>
      BY <2>1
    <3> QED BY <2>1, <3>1, HandlerHeld DEF Ahead
  <2>5. c \in At(Taking)
    BY <2>1 DEF At, Taking
  <2>6. \A d \in Call : d # c => (d \in Held' <=> d \in Held)
    BY <1>0, <2>3, <2>4 DEF Held
  <2>8. ASSUME ~AuthRequired, ~drifted'
        PROVE  Once(c)'
    <3>1. ~drifted /\ Once(c)
      BY <2>3, <2>8 DEF OutcomeInv, OutcomeOf, TypeInv
    <3>2. handling[w] \in {c} \X Owing
      BY <1>o, <2>1 DEF Taking
    <3>3. c \notin Present \cup removed /\ \A v \in Receiver : handling[v] \in {c} \X Owing => v = w
      BY <3>1, <3>2 DEF OwnInv, Exclusive
    <3>4. c \notin At(Taking)'
      <4>1. \A v \in Receiver : handling'[v] \notin {c} \X Taking
        <5>1. /\ \A v \in Receiver : v # w => handling'[v] = handling[v]
              /\ handling'[w] = <<c, "close">>
          BY <2>1 DEF Moves, TypeInv
        <5>2. \A v \in Receiver : v # w => handling[v] \notin {c} \X Taking
          BY <1>o, <3>3
        <5>3. <<c, "close">> \notin {c} \X Taking
          BY DEF Taking
        <5> QED BY <5>1, <5>2, <5>3
      <4> QED BY <4>1 DEF At
    <3>5. c \notin Held' /\ c \notin Present' /\ sender'[c] = "done"
      <4>1. sender[c] = "done"
        BY <1>t, <2>1, HandledSent
      <4> QED BY <1>0, <2>3, <3>3, <3>4, <4>1 DEF Held
    <3>6. Ahead(c)' = {} => Outcomes(c)' <= 1
      <4>1. Ahead(c) = {} => Outcomes(c) = 0
        BY <2>5, <3>1 DEF Once, Held
      <4> QED BY <2>2, <2>4, <4>1
    <3> QED BY <3>5, <3>6 DEF Once
  <2>9. OutcomeOf(c)'
    BY <2>2, <2>8 DEF OutcomeOf
  <2> QED BY <1>0, <2>2, <2>3, <2>4, <2>6, <2>9, OutcomeLocal
<1>7. CASE FailCall(w, c)
  <2>1. PICK r \in Response : Continue(w, c, r, "failed")
    BY <1>7 DEF FailCall, Response
  <2>2. r \in Response \cup Point /\ r \notin Taking /\ r # "failed"
    BY DEF Response, Taking
  <2>3. Moves(w, c, <<c, "failed">>) /\ handling[w] = <<c, r>>
    <3>1. "failed" \in Response \cup Point
      BY DEF Point
    <3> QED BY <2>1, <2>2, <3>1, ContinueMoves
  <2>4. /\ \A d \in Call : d # c => Outcomes(d)' = Outcomes(d)
        /\ Outcomes(c)' > 0 /\ (Outcomes(c) = 0 => Outcomes(c)' <= 1)
    BY <1>7, OutcomeCounted DEF FailCall
  <2>5. Present' = Present /\ UNCHANGED drifted
    BY <1>7 DEF FailCall, Present
  <2>6. At(Taking)' = At(Taking)
    <3>1. handling[w] \notin {c} \X Taking
      BY <2>2, <2>3, PointFacts
    <3>2. <<c, "failed">> \notin {c} \X Taking
      BY DEF Taking
    <3> QED BY <2>3, <3>1, <3>2, AtMoves
  <2>7. Held' = Held
    BY <1>0, <2>5, <2>6 DEF Held
  <2>8. /\ \A d \in Call : d # c => Ahead(d)' = Ahead(d)
        /\ Ahead(c)' = Ahead(c) \cup {w} /\ w \notin Ahead(c)
    BY <2>2, <2>3, HandlerHeld DEF Ahead
  <2>10. ASSUME ~AuthRequired, ~drifted'
         PROVE  Once(c)'
    <3>1. ~drifted /\ Once(c)
      BY <2>5, <2>10 DEF OutcomeInv, OutcomeOf, TypeInv
    <3>2. ASSUME c \in Present', \A u, v \in Ahead(c)' : u = v
          PROVE  Outcomes(c)' <= 1
      <4>1. Ahead(c) = {} /\ c \in Held
        BY <2>5, <2>8, <3>2 DEF Held
      <4>2. Outcomes(c) = 0
        BY <3>1, <4>1 DEF Once
      <4> QED BY <2>4, <4>2
    <3> QED BY <2>8, <3>2 DEF Once
  <2>11. OutcomeOf(c)'
    BY <2>4, <2>10 DEF OutcomeOf
  <2> QED BY <1>0, <2>4, <2>5, <2>7, <2>8, <2>11, OutcomeLocal
<1>8. CASE DropCall(w, c)
  <2>1. PICK p \in {"dropped", "close"} :
          /\ Continue(w, c, "failed", p)
          /\ \/ RemoveDialog(c) /\ UNCHANGED drifted
             \/ UNCHANGED dialog /\ drifted' = TRUE
    BY <1>8 DEF DropCall, RemoveOwn
  <2>2. p \notin Taking /\ p # "failed"
    BY DEF Taking
  <2>3. Moves(w, c, <<c, p>>) /\ handling[w] = <<c, "failed">>
    BY <1>t, <2>1, ContinueMoves
  <2>4. At(Taking)' = At(Taking)
    <3>1. handling[w] \notin {c} \X Taking /\ <<c, p>> \notin {c} \X Taking
      BY <2>2, <2>3 DEF Taking
    <3> QED BY <2>3, <3>1, AtMoves
  <2>5. /\ \A d \in Call : d # c => Ahead(d)' = Ahead(d)
        /\ Ahead(c)' = Ahead(c) \ {w} /\ w \in Ahead(c)
    <3>1. <<c, p>> # <<c, "failed">>
      BY <2>2
    <3> QED BY <2>3, <3>1, HandlerHeld DEF Ahead
  <2>6. UNCHANGED <<success, failure>> /\ \A d \in Call : Outcomes(d)' = Outcomes(d)
    BY <1>8, OutcomeSame DEF DropCall, statVars
  <2>7. /\ Outcomes(c) > 0 /\ Outcomes(c) \in Nat
        /\ ~AuthRequired /\ ~drifted => Once(c)
    BY <2>5, OutcomeNat DEF OutcomeInv, OutcomeOf
  <2>8. \A d \in Call : d # c => /\ d \in Present' <=> d \in Present
                                 /\ d \in Held' <=> d \in Held
    <3>1. \A d \in Call : d # c => (d \in Present' <=> d \in Present)
      BY <2>1, RemovesOne DEF Present
    <3> QED BY <1>0, <2>4, <3>1 DEF Held
  <2>9. ASSUME ~AuthRequired, ~drifted'
        PROVE  Once(c)'
    <3>1. RemoveDialog(c) /\ ~drifted /\ Once(c)
      BY <2>1, <2>7, <2>9 DEF TypeInv
    <3>2. c \in Present /\ c \notin Present'
      BY <3>1, RemovesOne DEF RemoveDialog
    <3>3. c \notin At(Taking) /\ c \notin removed
      BY <1>o, <3>1, <3>2 DEF OwnInv, Exclusive, At, RunInv
    <3>4. c \notin Held' /\ sender'[c] = "done"
      BY <1>0, <1>t, <2>3, <2>4, <3>2, <3>3, HandledSent DEF Held
    <3>5. Ahead(c)' = {} => Outcomes(c)' <= 1
      <4>1. SUFFICES ASSUME Ahead(c)' = {} PROVE Outcomes(c) <= 1
        BY <2>6
      <4>2. \A u, v \in Ahead(c) : u = v
        BY <2>5, <4>1
      <4> QED BY <3>1, <3>2, <4>2 DEF Once
    <3> QED BY <3>2, <3>4, <3>5 DEF Once
  <2>10. OutcomeOf(c)'
    BY <2>6, <2>7, <2>9 DEF OutcomeOf
  <2>11. drifted => drifted'
    BY <2>1
  <2> QED BY <1>0, <2>5, <2>6, <2>8, <2>10, <2>11, OutcomeLocal
<1> QED BY <1>2, <1>3, <1>4, <1>5, <1>6, <1>7, <1>8 DEF HandleResponse

\* The send tasks.
LEMMA OutcomeSender ==
  ASSUME BaseInv, OutcomeInv, NEW c \in Call, SendTask(c)
  PROVE  OutcomeInv'
<1> USE DEF BaseInv
<1>0. /\ UNCHANGED <<phase, removed, drifted, success, handling>>
      /\ \A d \in Call : d # c => sender'[d] = sender[d]
      /\ sender[c] # "done"
  <2>1. UNCHANGED <<phase, removed, drifted, success, handling>>
    BY DEF SendTask, StartCall, InsertDialog, SendRequest, runVars, statVars
  <2>2. \A d \in Call : d # c => sender'[d] = sender[d]
    BY DEF SendTask, StartCall, InsertDialog, SendRequest, TypeInv
  <2>3. sender[c] # "done"
    BY DEF SendTask, StartCall, InsertDialog, SendRequest
  <2> QED BY <2>1, <2>2, <2>3
<1>1. /\ At(Taking)' = At(Taking) /\ \A d \in Call : Ahead(d)' = Ahead(d)
      /\ \A d \in removed' : sender'[d] = "done"
  BY <1>0 DEF At, Ahead, OutcomeInv, TypeInv
<1>2. c \notin At(Taking) /\ Ahead(c) = {} /\ c \notin removed
  BY <1>0, UnsentFree
<1>3. Outcomes(c) \in Nat /\ (~AuthRequired /\ ~drifted => Outcomes(c) = 0)
  BY <1>0, <1>2, OutcomeNat DEF OutcomeInv, OutcomeOf, Once
<1>4. ASSUME \A d \in Call : d # c => (d \in Present' <=> d \in Present)
      PROVE  \A d \in Call : d # c => (d \in Held' <=> d \in Held)
  BY <1>0, <1>1, <1>4 DEF Held
<1>5. CASE StartCall(c)
  <2>1. Present' = Present /\ c \notin Present
    BY <1>5, StartEffect DEF StartCall, SentInv, Present
  <2>2. CASE sender'[c] = "checked" /\ UNCHANGED failure
    <3>1. \A d \in Call : Outcomes(d)' = Outcomes(d)
      BY <1>0, <2>2 DEF Outcomes
    <3>2. OutcomeOf(c)'
      BY <1>0, <1>1, <1>2, <1>3, <2>1, <2>2, <3>1, SMT DEF OutcomeOf, Once
    <3> QED BY <1>0, <1>1, <1>4, <2>1, <3>1, <3>2, OutcomeLocal
  <2>3. CASE sender'[c] = "done" /\ RecordFailure(c)
    <3>1. \A d \in Call : d # c => Outcomes(d)' = Outcomes(d)
      BY <1>0, <2>3, OutcomeCounted
    <3>2. Outcomes(c)' > 0 /\ (~AuthRequired /\ ~drifted => Outcomes(c)' <= 1)
      BY <1>0, <1>3, <2>3, OutcomeCounted
    <3>3. c \notin Held'
      BY <1>0, <1>1, <1>2, <2>1 DEF Held
    <3>4. ASSUME ~AuthRequired, ~drifted' PROVE Once(c)'
      BY <1>0, <2>1, <2>3, <3>2, <3>3, <3>4, SMT DEF Once
    <3>5. OutcomeOf(c)'
      BY <3>2, <3>4 DEF OutcomeOf
    <3> QED BY <1>0, <1>1, <1>4, <2>1, <3>1, <3>5, OutcomeLocal
  <2> QED BY <1>5, <2>2, <2>3 DEF StartCall, TypeInv
<1>6. CASE InsertDialog(c) \/ SendRequest(c)
  <2>1. Present' = Present \cup {c}
    <3>1. CASE InsertDialog(c)
      BY <3>1, InsertEffect
    <3>2. CASE SendRequest(c)
      BY <3>2, SendEffect DEF SendRequest, SentInv, Present, NoDialog
    <3> QED BY <1>6, <3>1, <3>2
  <2>2. UNCHANGED failure
    BY <1>6 DEF InsertDialog, SendRequest, statVars
  <2>3. \A d \in Call : Outcomes(d)' = Outcomes(d)
    BY <1>0, <2>2 DEF Outcomes
  <2>4. c \in Held'
    BY <2>1 DEF Held
  <2>5. ASSUME ~AuthRequired, ~drifted' PROVE Once(c)'
    BY <1>0, <1>3, <2>3, <2>5, SMT DEF Once
  <2>6. OutcomeOf(c)'
    BY <1>1, <1>2, <2>4, <2>5 DEF OutcomeOf
  <2> QED BY <1>0, <1>1, <1>4, <2>1, <2>3, <2>6, OutcomeLocal
<1> QED BY <1>5, <1>6 DEF SendTask

\* The orchestrator.
LEMMA OutcomeOrchestrator ==
  ASSUME BaseInv, RunInv, OwnInv, OutcomeInv, Orchestrator
  PROVE  OutcomeInv'
<1> USE DEF BaseInv
<1>0. /\ UNCHANGED <<sender, handling>>
      /\ At(Taking)' = At(Taking) /\ \A c \in Call : Ahead(c)' = Ahead(c)
  BY OrchestratorEffect DEF At, Ahead
<1>1. CASE /\ Drain \/ Drained \/ CleanUp \/ NextStep \/ ShutDown \/ Exit
              \/ \E c \in Call : ShutDownBye(c)
           /\ Present' = Present
  <2>1. /\ UNCHANGED <<success, failure, removed, drifted>>
        /\ phase \in {"stopping", "stopped"} => phase' \in {"stopping", "stopped"}
    BY <1>1 DEF Drain, Drained, CleanUp, NextStep, ShutDown, Exit, ShutDownBye, statVars
  <2>2. Held' = Held
    BY <1>0, <1>1, <2>1 DEF Held
  <2> QED BY <1>0, <1>1, <2>1, <2>2, OutcomeKept DEF OutcomeInv
<1>2. ASSUME NEW c \in Call, CountForced(c) \/ ShutDownCount(c), Present' = Present
      PROVE  OutcomeInv'
  <2>1. /\ UNCHANGED <<success, failure, drifted, phase>> /\ removed' \subseteq removed
        /\ removed' = removed \/ phase = "stopping"
    BY <1>2 DEF CountForced, ShutDownCount, statVars
  <2>2. Held' \subseteq Held /\ (Held \subseteq Held' \/ phase = "stopping")
    BY <1>0, <1>2, <2>1 DEF Held
  <2> QED BY <1>0, <1>2, <2>1, <2>2, OutcomeKept DEF OutcomeInv
<1>3. ASSUME NEW c \in Call, ForceRemove(c) \/ ShutDownRemove(c), c \notin Present,
             Present' = Present
      PROVE  OutcomeInv'
  <2>1. UNCHANGED <<success, failure, removed, phase>> /\ (drifted => drifted')
    BY <1>3 DEF ForceRemove, ShutDownRemove, RemoveDialog, statVars
  <2>2. Held' = Held
    BY <1>0, <1>3, <2>1 DEF Held
  <2> QED BY <1>0, <1>3, <2>1, <2>2, OutcomeKept DEF OutcomeInv
<1>4. ASSUME NEW c \in Call, ForceRemove(c) \/ ShutDownRemove(c), RemoveDialog(c),
             sender[c] = "done", removed' = removed \cup {c}, UNCHANGED drifted
      PROVE  OutcomeInv'
  <2>1. UNCHANGED <<success, failure, phase>>
    BY <1>4 DEF ForceRemove, ShutDownRemove, statVars
  <2>2. Present' = Present \ {c} /\ c \in Present
    BY <1>4, RemovesOne DEF RemoveDialog
  <2>3. Held' = Held
    BY <1>0, <1>4, <2>2 DEF Held
  <2> QED BY <1>0, <1>4, <2>1, <2>2, <2>3, OutcomeKept DEF OutcomeInv
<1>5. CASE CountRemoved
  <2>1. /\ UNCHANGED <<dialog, success, drifted>> /\ removed' = {}
        /\ phase = "cleaning" /\ phase' = "reported"
        /\ \A c \in Call : failure'[c] = failure[c] + (IF c \in removed THEN 1 ELSE 0)
    BY <1>5 DEF CountRemoved, uacVars
  <2>2. \A c \in Call : success[c] \in Nat /\ failure[c] \in Nat /\ Outcomes(c) \in Nat
    BY OutcomeNat
  <2>3. \A c \in Call : Outcomes(c)' = Outcomes(c) + (IF c \in removed THEN 1 ELSE 0)
    BY <2>1, <2>2, SMT DEF Outcomes
  <2>4. Present' = Present /\ Held' = Present \cup At(Taking)
    BY <1>0, <2>1 DEF Held, Present
  <2>5. ASSUME NEW c \in Call
        PROVE  OutcomeOf(c)'
    <3>0. OutcomeOf(c)
      BY DEF OutcomeInv
    <3>1. CASE c \notin removed
      <4>1. Outcomes(c)' = Outcomes(c)
        BY <2>2, <2>3, <3>1, SMT
      <4>2. c \in Held' <=> c \in Held
        BY <2>4, <3>1 DEF Held
      <4>3. ~AuthRequired /\ ~drifted' => Once(c)'
        BY <1>0, <2>1, <2>4, <3>0, <4>1, <4>2 DEF OutcomeOf, Once
      <4> QED BY <1>0, <2>1, <3>0, <4>1, <4>2, <4>3 DEF OutcomeOf
    <3>2. CASE c \in removed
      <4>1. Outcomes(c)' = Outcomes(c) + 1
        BY <2>3, <3>2
      <4>2. Outcomes(c)' > 0
        BY <2>2, <4>1, SMT
      <4>3. ASSUME ~AuthRequired, ~drifted'
            PROVE  Once(c)'
        <5>1. ~drifted /\ Once(c)
          BY <2>1, <3>0, <4>3 DEF OutcomeOf
        <5>2. c \notin Present /\ c \notin At(Taking)
          BY <3>2, <5>1 DEF RunInv, OwnInv, Exclusive, At, Taking, Owing
        <5>3. c \notin Held' /\ c \notin Present' /\ sender'[c] = "done"
          BY <1>0, <2>4, <3>2, <5>2 DEF OutcomeInv
        <5>4. Ahead(c) = {} => Outcomes(c) = 0
          BY <3>2, <5>1 DEF Once, Held
        <5>5. Ahead(c)' = {} => Outcomes(c)' <= 1
          BY <1>0, <4>1, <5>4, SMT
        <5> QED BY <5>3, <5>5 DEF Once
      <4> QED BY <4>2, <4>3 DEF OutcomeOf
    <3> QED BY <3>1, <3>2
  <2> QED BY <2>1, <2>5 DEF OutcomeInv
<1> QED BY <1>1, <1>2, <1>3, <1>4, <1>5, OrchestratorEffect

LEMMA OutcomeStep ==
  ASSUME BaseInv, RunInv, OwnInv, NoChallenge, OutcomeInv, [Next]_vars
  PROVE  OutcomeInv'
<1> USE DEF BaseInv
<1>1. ASSUME UNCHANGED <<sender, success, failure, removed, phase, handling>>,
             Present' = Present, drifted => drifted'
      PROVE  OutcomeInv'
  <2>1. Held' = Held /\ \A c \in Call : Ahead(c)' = Ahead(c)
    BY <1>1 DEF Held, Ahead, At
  <2> QED BY <1>1, <2>1, OutcomeKept DEF OutcomeInv
<1>2. CASE ByeLoop \/ \E c \in InviteCall : ReinviteTask(c)
  <2>1. UNCHANGED <<success, failure>>
    BY <1>2 DEF ByeLoop, ReinviteTask, CollectForBye, SendBye, NoteBye, SendReinvite,
                NoteReinvite, statVars
  <2> QED BY <1>1, <1>2, <2>1, LoopEffect
<1>3. CASE FarEnd
  <2>1. ASSUME NEW c \in Call, Challenge(c) \/ Reject(c) \/ Register(c)
        PROVE  UNCHANGED <<success, failure, drifted>>
    BY <2>1 DEF Challenge, Reject, Register, statVars
  <2>2. ASSUME NEW c \in InviteCall, UasInvite(c) \/ UasAck(c) \/ UasBye(c)
        PROVE  UNCHANGED <<success, failure>> /\ (drifted => drifted')
    <3>1. CASE UasInvite(c)
      <4>1. UNCHANGED <<success, failure>>
        BY <3>1 DEF UasInvite
      <4>2. CASE drifted' = drifted
        BY <4>1, <4>2, Zenon
      <4>3. CASE drifted' = TRUE
        BY <4>1, <4>3, Zenon
      <4> QED BY <3>1, <4>2, <4>3, Zenon DEF UasInvite
    <3>2. CASE UasAck(c) \/ UasBye(c)
      <4>1. UNCHANGED <<success, failure, drifted>>
        BY <3>2 DEF UasAck, UasBye, statVars
      <4> QED BY <4>1, Zenon
    <3> QED BY <2>2, <3>1, <3>2, Zenon
  <2>3. UNCHANGED <<success, failure>> /\ (drifted => drifted')
    BY <1>3, <2>1, <2>2, Zenon DEF FarEnd
  <2> QED BY <1>1, <1>3, <2>3, FarEndEffect DEF uacVars
<1>4. CASE UNCHANGED vars
  BY <1>1, <1>4 DEF vars, uacVars, statVars, runVars, Present
<1> QED BY <1>2, <1>3, <1>4, OutcomeSender, OutcomeReceiver, OutcomeOrchestrator DEF Next

LEMMA OutcomeHolds == Spec => []OutcomeInv
<1>1. Init => OutcomeInv
  <2> SUFFICES ASSUME Init PROVE OutcomeInv
    OBVIOUS
  <2>1. \A c \in Call : Outcomes(c) = 0 /\ sender[c] = "new" /\ Ahead(c) = {}
    BY SMT DEF Init, Outcomes, Ahead, Free
  <2>2. removed = {}
    BY DEF Init
  <2> QED BY <2>1, <2>2, SMT DEF OutcomeInv, OutcomeOf, Once
<1> QED BY <1>1, BaseHolds, RunHolds, OwnHolds, NoChallengeHolds, OutcomeStep, PTL DEF Spec

\* Responses that are repeated, reordered or handled while a cleanup runs do not
\* count a call twice, as long as every handler finds its dialog.
THEOREM CountedAtMostOnce == Spec => []CountedOnce
<1>1. OutcomeInv => CountedOnce
  <2> SUFFICES ASSUME OutcomeInv, ~AuthRequired, ~drifted, NEW c \in Call \ At({"failed"})
               PROVE  Outcomes(c) <= 1
    BY DEF CountedOnce
  <2>1. Ahead(c) = {}
    BY DEF Ahead, At
  <2> QED BY <2>1 DEF OutcomeInv, OutcomeOf, Once
<1> QED BY <1>1, OutcomeHolds, PTL

\* The result of run_step accounts for every call that was started, but for those
\* that a receive loop has taken out of the map and not recorded yet.
THEOREM StepsAccountForCalls == Spec => []StepAccounts
<1>1. BaseInv /\ EmptyInv /\ OutcomeInv => StepAccounts
  BY DEF BaseInv, SentInv, EmptyInv, OutcomeInv, OutcomeOf, Held, Taking, StepAccounts
<1> QED BY <1>1, BaseHolds, EmptyHolds, OutcomeHolds, PTL

\* If the drain ends because active_dialogs is 0, it accounts for those as well:
\* nobody is between the removal of a dialog and the recording of its call.
THEOREM DrainsAccountForCalls == Spec => []DrainAccounts
<1>1. BaseInv /\ LedgerInv /\ OutcomeInv => DrainAccounts
  <2> SUFFICES ASSUME BaseInv, LedgerInv, OutcomeInv, phase = "draining", active = 0, ~drifted,
                      NEW c \in Call, sender[c] = "done"
               PROVE  Outcomes(c) > 0
    BY DEF DrainAccounts
  <2>1. Outcomes(c) > 0 \/ c \in Held
    BY DEF OutcomeInv, OutcomeOf
  <2>2. /\ IsFiniteSet(Open) /\ IsFiniteSet(removed) /\ IsFiniteSet(Settling)
        /\ Cardinality(Open) = 0 /\ Cardinality(removed) = 0 /\ Cardinality(Settling) = 0
    BY OpenFinite, SMT DEF BaseInv, LedgerInv, Total
  <2>3. Open = {} /\ removed = {} /\ Settling = {}
    BY <2>2, FS_EmptySet
  <2>4. At(Taking) \subseteq Settling
    BY DEF At, Taking, Settling, Owing
  <2> QED BY <2>1, <2>3, <2>4 DEF Held, Open
<1> QED BY <1>1, BaseHolds, LedgerHolds, OutcomeHolds, PTL

-----------------------------------------------------------------------------
(* How the two ends of a call agree that it is over. *)

EndInv ==
  /\ \A c \in InviteCall : ~OnWire(c, {"REGISTER", "AuthREGISTER"})
                           /\ "REGISTER 200" \notin responses[c]
  /\ \A c \in Call : c \in Confirmed \/ OnWire(c, {"BYE"}) => "INVITE 200" \in responses[c]
  /\ \A c \in InviteCall, n \in CSeq : <<c, n>> \in batch => "INVITE 200" \in responses[c]
  /\ \A c \in InviteCall : "INVITE 200" \in responses[c] => uas[c] # "None" \/ c \in closed
  /\ \A c \in InviteCall :
       "BYE 200" \in responses[c] \/ "BYE 481" \in responses[c] \/ success[c] > 0 => c \in closed

LEMMA WireGrows ==
  ASSUME TypeInv, NEW c \in Call, NEW r, NEW n, Transmit(c, r, n), NEW d \in Call, NEW K
  PROVE  OnWire(d, K)' => OnWire(d, K) \/ (d = c /\ r \in K)
<1>1. requests'[d] = requests[d] \/ (d = c /\ requests'[d] = requests[d] \cup {<<r, n>>})
  BY TransmitGrows
<1> QED BY <1>1 DEF OnWire

\* Assigning to the fields of a dialog confirms it only where it says so.
LEMMA FieldsConfirm ==
  ASSUME TypeInv, NEW c \in Present, NEW s \in State, NEW n, NEW a,
         \/ dialog' = [dialog EXCEPT ![c].state = s]
         \/ dialog' = [dialog EXCEPT ![c].cseq = n]
         \/ dialog' = [dialog EXCEPT ![c].state = s, ![c].cseq = n]
         \/ dialog' = [dialog EXCEPT ![c].auth = a, ![c].cseq = n]
  PROVE  \A d \in Confirmed' : d \in Confirmed \/ (d = c /\ s = "Confirmed")
<1>1. Present' = Present /\ \A d \in Call : d # c => dialog'[d] = dialog[d]
  BY FieldsKeepPresent
<1>2. c \in Call /\ dialog[c] \in Dialog
  BY PresentTypes
<1>3. dialog'[c].state \in {dialog[c].state, s}
  BY <1>2 DEF TypeInv, Dialog
<1> QED BY <1>1, <1>2, <1>3 DEF Confirmed, Present

\* A step that leaves the UAS, its answers and the outcomes alone.
LEMMA EndKept ==
  ASSUME BaseInv, EndInv, UNCHANGED <<responses, uas, closed>>,
         \A c \in InviteCall :
           ~OnWire(c, {"REGISTER", "AuthREGISTER"})' \/ UNCHANGED requests,
         \A c \in Call : c \in Confirmed' => c \in Confirmed \/ "INVITE 200" \in responses[c],
         \A c \in Call :
           OnWire(c, {"BYE"})' => OnWire(c, {"BYE"}) \/ "INVITE 200" \in responses[c],
         \A c \in InviteCall, n \in CSeq :
           <<c, n>> \in batch' => <<c, n>> \in batch \/ "INVITE 200" \in responses[c],
         \A c \in InviteCall : success'[c] > 0 => success[c] > 0 \/ c \in closed
  PROVE  EndInv'
<1>1. \A c \in InviteCall : ~OnWire(c, {"REGISTER", "AuthREGISTER"})'
  BY DEF EndInv, OnWire
<1>2. \A c \in Call : c \in Confirmed' \/ OnWire(c, {"BYE"})' => "INVITE 200" \in responses'[c]
  BY DEF EndInv
<1> QED BY <1>1, <1>2 DEF EndInv

\* The steps of a handler that send nothing and assign to no field.
LEMMA HandlerRest ==
  ASSUME NEW w \in Receiver, NEW c \in Call, HandleResponse(w, c),
         ~(ConfirmCall(w, c) \/ FailChallenge(w, c) \/ AnswerChallenge(w, c))
  PROVE  UNCHANGED <<requests, sleeping>> /\ (UNCHANGED dialog \/ RemoveDialog(c))
<1>1. CASE \E r \in Response : Receive(w, c, r)
  BY <1>1 DEF Receive, wireVars
<1>2. CASE CompleteCall(w, c) \/ DropCall(w, c)
  BY <1>2 DEF CompleteCall, DropCall, RemoveOwn, wireVars
<1>3. CASE \/ RecordSuccess(w, c) \/ FailCall(w, c) \/ CountTaken(w, c) \/ CloseCall(w, c)
           \/ AcceptChallenge(w, c)
  BY <1>3 DEF RecordSuccess, FailCall, CountTaken, CloseCall, AcceptChallenge, wireVars
<1> QED BY <1>1, <1>2, <1>3 DEF HandleResponse

LEMMA EndReceiver ==
  ASSUME BaseInv, EndInv, NEW w \in Receiver, ReceiveLoop(w)
  PROVE  EndInv'
<1> USE DEF BaseInv
<1>i. InviteCall \subseteq Call
  BY DEF Call
<1> PICK c \in Call : HandleResponse(w, c)
  BY DEF ReceiveLoop
<1>1. UNCHANGED <<responses, uas, closed, batch>>
  BY HandlerMoves
<1>2. \A d \in Call : d \in Confirmed' => d \in Confirmed \/ "INVITE 200" \in responses[d]
  <2>1. CASE UNCHANGED dialog
    BY <2>1 DEF Confirmed, Present
  <2>2. CASE RemoveDialog(c)
    BY <2>2, RemovesOne DEF Confirmed, Present
  <2>3. CASE ConfirmCall(w, c)
    <3>1. "INVITE 200" \in responses[c]
      BY <2>3, HandledSent DEF ConfirmCall, Handle, Response
    <3>2. CASE c \in Present /\ dialog' = [dialog EXCEPT ![c].state = "Confirmed"]
      BY <3>1, <3>2, FieldsConfirm DEF State
    <3> QED BY <2>1, <2>3, <3>2 DEF ConfirmCall
  <2>4. CASE FailChallenge(w, c) /\ c \in Present
    <3>1. dialog' = [dialog EXCEPT ![c].state = "Error"]
      BY <2>4 DEF FailChallenge
    <3> QED BY <2>4, <3>1, FieldsConfirm DEF State
  <2>5. CASE AnswerChallenge(w, c) /\ c \in Present
    <3>1. dialog' = [dialog EXCEPT ![c].auth = TRUE, ![c].cseq = dialog[c].cseq + 1]
      BY <2>5, PresentTypes DEF AnswerChallenge, Dialog, TypeInv
    <3> QED BY <2>5, <3>1, FieldsConfirm DEF State
  <2> QED BY <2>1, <2>2, <2>3, <2>4, <2>5, HandlerRest DEF FailChallenge, AnswerChallenge
<1>3. /\ \A d \in InviteCall :
           ~OnWire(d, {"REGISTER", "AuthREGISTER"})' \/ UNCHANGED requests
      /\ \A d \in Call : OnWire(d, {"BYE"})' => OnWire(d, {"BYE"})
  <2>1. CASE UNCHANGED requests
    BY <2>1 DEF OnWire
  <2>2. CASE Transmit(c, "ACK", dialog[c].cseq)
    <3>1. \A d \in Call : /\ OnWire(d, {"BYE"})' => OnWire(d, {"BYE"})
                          /\ OnWire(d, {"REGISTER", "AuthREGISTER"})'
                               => OnWire(d, {"REGISTER", "AuthREGISTER"})
      BY <2>2, WireGrows
    <3> QED BY <1>i, <3>1 DEF EndInv
  <2>3. CASE Transmit(c, AuthMethod(c), dialog[c].cseq + 1)
    <3>0. AuthMethod(c) \in {"AuthINVITE", "AuthREGISTER"}
          /\ (c \in InviteCall => AuthMethod(c) = "AuthINVITE")
      BY DEF AuthMethod
    <3>1. \A d \in Call : OnWire(d, {"BYE"})' => OnWire(d, {"BYE"})
      BY <2>3, <3>0, WireGrows
    <3>2. \A d \in InviteCall : OnWire(d, {"REGISTER", "AuthREGISTER"})'
                                  => OnWire(d, {"REGISTER", "AuthREGISTER"})
      BY <1>i, <2>3, <3>0, WireGrows
    <3> QED BY <3>1, <3>2 DEF EndInv
  <2> QED BY <2>1, <2>2, <2>3, HandlerRest DEF ConfirmCall, FailChallenge, AnswerChallenge, wireVars
<1>4. \A d \in InviteCall : success'[d] > 0 => success[d] > 0 \/ d \in closed
  <2>1. CASE UNCHANGED success
    BY <2>1
  <2>2. CASE RecordSuccess(w, c)
    <3>1. \A d \in Call : d # c => success'[d] = success[d]
      BY <2>2 DEF RecordSuccess, RecordCall, TypeInv
    <3>2. "BYE 200" \in responses[c] \/ "REGISTER 200" \in responses[c]
      <4>1. handling[w] = <<c, "record">> /\ "record" \in Response \cup Point
        BY <2>2 DEF RecordSuccess, Continue, Point
      <4>2. PICK r \in responses[c] : "record" \in Reach(r)
        BY <4>1, HandledSent
      <4>3. r \in Response
        BY DEF TypeInv
      <4>4. r \in {"BYE 200", "REGISTER 200"}
        BY <4>2, <4>3 DEF Reach, Response
      <4> QED BY <4>4
    <3>3. c \in InviteCall => c \in closed
      BY <3>2 DEF EndInv
    <3> QED BY <1>i, <3>1, <3>3
  <2> QED BY <2>1, <2>2 DEF HandleResponse, Receive, CompleteCall, FailCall, DropCall, CountTaken,
                            CloseCall, ConfirmCall, AcceptChallenge, FailChallenge,
                            AnswerChallenge, statVars
<1> QED BY <1>1, <1>2, <1>3, <1>4, EndKept

LEMMA EndSender ==
  ASSUME BaseInv, EndInv, NEW c \in Call, SendTask(c)
  PROVE  EndInv'
<1> USE DEF BaseInv
<1>i. InviteCall \subseteq Call
  BY DEF Call
<1>1. UNCHANGED <<responses, uas, closed, batch, success>>
  BY DEF SendTask, StartCall, InsertDialog, SendRequest, wireVars, statVars
<1>2. \A d \in Confirmed' : d \in Confirmed
  <2>1. CASE StartCall(c)
    BY <2>1 DEF StartCall, Confirmed, Present
  <2>2. CASE InsertDialog(c)
    BY <2>2 DEF InsertDialog, Confirmed, Present, TypeInv
  <2>3. CASE SendRequest(c)
    <3>1. c \in Present
      BY <2>3 DEF SendRequest, SentInv, Present, NoDialog
    <3>2. dialog' = [dialog EXCEPT ![c].state = "Trying"]
      BY <2>3 DEF SendRequest
    <3> QED BY <3>1, <3>2, FieldsConfirm DEF State
  <2> QED BY <2>1, <2>2, <2>3 DEF SendTask
<1>3. /\ \A d \in InviteCall :
           ~OnWire(d, {"REGISTER", "AuthREGISTER"})' \/ UNCHANGED requests
      /\ \A d \in Call : OnWire(d, {"BYE"})' => OnWire(d, {"BYE"})
  <2>1. CASE UNCHANGED requests
    BY <2>1 DEF OnWire
  <2>2. CASE SendRequest(c)
    <3> DEFINE r == IF c \in InviteCall THEN "INVITE" ELSE "REGISTER"
    <3>0. Transmit(c, r, 1) /\ r \in {"INVITE", "REGISTER"} /\ (c \in InviteCall => r = "INVITE")
      BY <2>2 DEF SendRequest
    <3> HIDE DEF r
    <3>1. \A d \in Call : OnWire(d, {"BYE"})' => OnWire(d, {"BYE"})
      BY <3>0, WireGrows
    <3>2. \A d \in InviteCall : OnWire(d, {"REGISTER", "AuthREGISTER"})'
                                  => OnWire(d, {"REGISTER", "AuthREGISTER"})
      BY <1>i, <3>0, WireGrows
    <3> QED BY <3>1, <3>2 DEF EndInv
  <2> QED BY <2>1, <2>2 DEF SendTask, StartCall, InsertDialog, wireVars
<1> QED BY <1>1, <1>2, <1>3, EndKept

LEMMA EndLoops ==
  ASSUME BaseInv, EndInv, ByeLoop \/ \E c \in InviteCall : ReinviteTask(c)
  PROVE  EndInv'
<1> USE DEF BaseInv
<1>i. InviteCall \subseteq Call
  BY DEF Call
<1>1. UNCHANGED <<responses, uas, closed, success>>
  BY DEF ByeLoop, ReinviteTask, CollectForBye, SendBye, NoteBye, SendReinvite, NoteReinvite,
         wireVars, statVars
<1>2. ASSUME NEW due \in SUBSET InviteCall, CollectForBye(due)
      PROVE  EndInv'
  <2>1. /\ UNCHANGED <<dialog, requests>> /\ due \subseteq Confirmed
        /\ batch' = {<<c, dialog[c].cseq>> : c \in due}
    BY <1>2 DEF CollectForBye, wireVars
  <2>2. \A c \in InviteCall, n \in CSeq : <<c, n>> \in batch' => "INVITE 200" \in responses[c]
    BY <1>i, <2>1 DEF EndInv
  <2> QED BY <1>1, <2>1, <2>2, EndKept DEF OnWire, Confirmed, Present
<1>3. ASSUME NEW c \in InviteCall, NEW n \in CSeq, SendBye(c, n)
      PROVE  EndInv'
  <2>1. /\ UNCHANGED dialog /\ Transmit(c, "BYE", n + 1)
        /\ batch' \subseteq batch /\ <<c, n>> \in batch
    BY <1>3 DEF SendBye
  <2>2. "INVITE 200" \in responses[c]
    BY <2>1 DEF EndInv
  <2>3. \A d \in Call : OnWire(d, {"BYE"})' => OnWire(d, {"BYE"}) \/ d = c
    BY <1>i, <2>1, WireGrows
  <2>4. \A d \in InviteCall : OnWire(d, {"REGISTER", "AuthREGISTER"})'
                                => OnWire(d, {"REGISTER", "AuthREGISTER"})
    BY <1>i, <2>1, WireGrows
  <2>5. \A d \in InviteCall : ~OnWire(d, {"REGISTER", "AuthREGISTER"})'
    BY <2>4 DEF EndInv
  <2> QED BY <1>1, <2>1, <2>2, <2>3, <2>5, EndKept DEF Confirmed, Present
<1>4. ASSUME NEW c \in InviteCall, NEW n \in CSeq, NoteBye(c, n) \/ NoteReinvite(c, n)
      PROVE  EndInv'
  <2>1. UNCHANGED <<requests, batch>>
    BY <1>4 DEF NoteBye, NoteReinvite, wireVars
  <2>2. \A d \in Confirmed' : d \in Confirmed
    <3>1. CASE UNCHANGED dialog
      BY <3>1 DEF Confirmed, Present
    <3>2. CASE c \in Present /\ ~UNCHANGED dialog
      <4>1. \/ dialog' = [dialog EXCEPT ![c].cseq = n]
            \/ dialog' = [dialog EXCEPT ![c].state = "Trying", ![c].cseq = n]
        BY <1>4, <3>2 DEF NoteBye, NoteReinvite
      <4> QED BY <3>2, <4>1, FieldsConfirm DEF State
    <3> QED BY <1>4, <3>1, <3>2 DEF NoteBye, NoteReinvite
  <2> QED BY <1>1, <2>1, <2>2, EndKept DEF OnWire
<1>5. ASSUME NEW c \in InviteCall, SendReinvite(c)
      PROVE  EndInv'
  <2>1. /\ UNCHANGED <<dialog, batch>>
        /\ UNCHANGED requests \/ Transmit(c, "REINVITE", dialog[c].cseq + 1)
    BY <1>5 DEF SendReinvite
  <2>2. CASE UNCHANGED requests
    BY <1>1, <2>1, <2>2, EndKept DEF OnWire, Confirmed, Present
  <2>3. CASE Transmit(c, "REINVITE", dialog[c].cseq + 1)
    <3>1. \A d \in Call : OnWire(d, {"BYE"})' => OnWire(d, {"BYE"})
      BY <1>i, <2>3, WireGrows
    <3>2. \A d \in InviteCall : OnWire(d, {"REGISTER", "AuthREGISTER"})'
                                  => OnWire(d, {"REGISTER", "AuthREGISTER"})
      BY <1>i, <2>3, WireGrows
    <3>3. \A d \in InviteCall : ~OnWire(d, {"REGISTER", "AuthREGISTER"})'
      BY <3>2 DEF EndInv
    <3> QED BY <1>1, <2>1, <3>1, <3>3, EndKept DEF Confirmed, Present
  <2> QED BY <2>1, <2>2, <2>3
<1> QED BY <1>2, <1>3, <1>4, <1>5 DEF ByeLoop, ReinviteTask

\* A step of the far end, or its exit.
LEMMA EndAnswers ==
  ASSUME BaseInv, EndInv, UNCHANGED <<dialog, batch, requests, success>>,
         \A c \in Call : responses[c] \subseteq responses'[c], closed \subseteq closed',
         \A c \in InviteCall :
           /\ "REGISTER 200" \in responses'[c] => "REGISTER 200" \in responses[c]
           /\ "INVITE 200" \in responses'[c] => uas'[c] # "None" \/ c \in closed'
           /\ "BYE 200" \in responses'[c] \/ "BYE 481" \in responses'[c] => c \in closed'
  PROVE  EndInv'
<1>i. InviteCall \subseteq Call
  BY DEF Call
<1>1. /\ Confirmed' = Confirmed
      /\ \A c \in Call : /\ OnWire(c, {"BYE"})' <=> OnWire(c, {"BYE"})
                         /\ OnWire(c, {"REGISTER", "AuthREGISTER"})'
                              <=> OnWire(c, {"REGISTER", "AuthREGISTER"})
  BY DEF Confirmed, Present, OnWire
<1>2. \A c \in InviteCall : ~OnWire(c, {"REGISTER", "AuthREGISTER"})'
                            /\ "REGISTER 200" \notin responses'[c]
  BY <1>i, <1>1 DEF EndInv
<1>3. \A c \in Call : c \in Confirmed' \/ OnWire(c, {"BYE"})' => "INVITE 200" \in responses'[c]
  BY <1>1 DEF EndInv
<1>4. \A c \in InviteCall, n \in CSeq : <<c, n>> \in batch' => "INVITE 200" \in responses'[c]
  BY <1>i DEF EndInv
<1>5. \A c \in InviteCall :
        "BYE 200" \in responses'[c] \/ "BYE 481" \in responses'[c] \/ success'[c] > 0
          => c \in closed'
  BY DEF EndInv
<1> QED BY <1>2, <1>3, <1>4, <1>5 DEF EndInv

LEMMA EndFar ==
  ASSUME BaseInv, EndInv, FarEnd
  PROVE  EndInv'
<1> USE DEF BaseInv
<1>i. InviteCall \subseteq Call
  BY DEF Call
<1>e. \A c \in InviteCall :
        /\ "INVITE 200" \in responses[c] => uas[c] # "None" \/ c \in closed
        /\ "BYE 200" \in responses[c] \/ "BYE 481" \in responses[c] => c \in closed
  BY DEF EndInv
<1>1. UNCHANGED <<dialog, batch, requests, success>>
  BY DEF FarEnd, Challenge, Reject, Register, UasInvite, UasAck, UasBye, uacVars, wireVars,
         statVars
<1>4. ASSUME NEW c \in Call, Challenge(c) \/ Reject(c) \/ Register(c)
      PROVE  EndInv'
  <2>1. UNCHANGED <<uas, closed>>
    BY <1>4 DEF Challenge, Reject, Register
  <2>2. PICK r \in Response : /\ Reply(c, r) /\ r \notin {"INVITE 200", "BYE 200", "BYE 481"}
                              /\ r = "REGISTER 200" => OnWire(c, {"REGISTER", "AuthREGISTER"})
    BY <1>4 DEF Challenge, Reject, Register, Response, OnWire
  <2>3. /\ \A d \in Call : responses[d] \subseteq responses'[d]
        /\ \A d \in Call : d # c => responses'[d] = responses[d]
        /\ responses'[c] = responses[c] \cup {r}
    BY <2>2, ReplyGrows
  <2>4. c \in InviteCall => r # "REGISTER 200"
    BY <2>2 DEF EndInv
  <2>5. \A d \in InviteCall :
          /\ "REGISTER 200" \in responses'[d] => "REGISTER 200" \in responses[d]
          /\ "INVITE 200" \in responses'[d] => "INVITE 200" \in responses[d]
          /\ "BYE 200" \in responses'[d] => "BYE 200" \in responses[d]
          /\ "BYE 481" \in responses'[d] => "BYE 481" \in responses[d]
    BY <1>i, <2>2, <2>3, <2>4
  <2> QED BY <1>1, <1>e, <2>1, <2>3, <2>5, EndAnswers
<1>5. ASSUME NEW c \in InviteCall, UasInvite(c)
      PROVE  EndInv'
  <2>1. UNCHANGED closed /\ \A d \in InviteCall : uas[d] # "None" => uas'[d] # "None"
    BY <1>5 DEF UasInvite, TypeInv
  <2>2. CASE UNCHANGED responses
    BY <1>1, <1>e, <2>1, <2>2, EndAnswers
  <2>3. CASE Reply(c, "INVITE 200") /\ uas'[c] # "None"
    <3>1. /\ \A d \in Call : responses[d] \subseteq responses'[d]
          /\ \A d \in Call : d # c => responses'[d] = responses[d]
          /\ responses'[c] = responses[c] \cup {"INVITE 200"}
      BY <1>i, <2>3, ReplyGrows
    <3>2. \A d \in InviteCall :
            /\ "REGISTER 200" \in responses'[d] => "REGISTER 200" \in responses[d]
            /\ "INVITE 200" \in responses'[d] => "INVITE 200" \in responses[d] \/ d = c
            /\ "BYE 200" \in responses'[d] => "BYE 200" \in responses[d]
            /\ "BYE 481" \in responses'[d] => "BYE 481" \in responses[d]
      <4>1. \A d \in InviteCall : responses'[d] = responses[d] \/ d = c
        BY <1>i, <3>1
      <4>2. \A r \in responses'[c] : r \in responses[c] \/ r = "INVITE 200"
        BY <3>1
      <4> QED BY <4>1, <4>2
    <3> QED BY <1>1, <1>e, <2>1, <2>3, <3>1, <3>2, EndAnswers
  <2> QED BY <1>5, <2>2, <2>3 DEF UasInvite, TypeInv
<1>6. ASSUME NEW c \in InviteCall, UasAck(c)
      PROVE  EndInv'
  <2>1. /\ UNCHANGED <<closed, responses>>
        /\ \A d \in InviteCall : uas[d] # "None" => uas'[d] # "None"
    BY <1>6 DEF UasAck, wireVars, TypeInv
  <2> QED BY <1>1, <1>e, <2>1, EndAnswers
<1>7. ASSUME NEW c \in InviteCall, UasBye(c)
      PROVE  EndInv'
  <2>1. closed \subseteq closed' /\ \A d \in InviteCall : d # c => uas'[d] = uas[d]
    BY <1>7 DEF UasBye, TypeInv
  <2>2. c \in closed'
    <3>1. "INVITE 200" \in responses[c]
      BY <1>i, <1>7 DEF UasBye, EndInv
    <3> QED BY <1>7, <3>1 DEF UasBye, EndInv
  <2>3. PICK r \in {"BYE 200", "BYE 481"} :
          /\ \A d \in Call : d # c => responses'[d] = responses[d]
          /\ responses'[c] = responses[c] \cup {r}
    BY <1>i, <1>7, ReplyGrows DEF UasBye
  <2>4. /\ \A d \in Call : responses[d] \subseteq responses'[d]
        /\ "REGISTER 200" \in responses'[c] => "REGISTER 200" \in responses[c]
    BY <2>3
  <2> QED BY <1>i, <1>1, <1>e, <2>1, <2>2, <2>3, <2>4, EndAnswers
<1> QED BY <1>4, <1>5, <1>6, <1>7 DEF FarEnd

LEMMA EndOrchestrator ==
  ASSUME BaseInv, EndInv, Orchestrator
  PROVE  EndInv'
<1> USE DEF BaseInv
<1>i. InviteCall \subseteq Call
  BY DEF Call
<1>1. UNCHANGED <<responses, batch, success>>
  BY DEF Orchestrator, Drain, Drained, CleanUp, CountRemoved, NextStep, ShutDown, Exit,
         ForceRemove, CountForced, ShutDownBye, ShutDownRemove, ShutDownCount, uacVars, wireVars,
         statVars
<1>2. CASE Drain \/ Drained \/ CleanUp \/ CountRemoved \/ NextStep \/ ShutDown
  <2>1. UNCHANGED <<dialog, requests, uas, closed>>
    BY <1>2 DEF Drain, Drained, CleanUp, CountRemoved, NextStep, ShutDown, uacVars, wireVars
  <2> QED BY <1>1, <2>1, EndKept DEF OnWire, Confirmed, Present
<1>3. CASE Exit
  <2>1. /\ UNCHANGED <<dialog, requests>>
        /\ closed' = closed \cup {c \in InviteCall : uas[c] # "None"}
    BY <1>3 DEF Exit, uacVars, wireVars
  <2>2. \A c \in InviteCall :
          /\ "INVITE 200" \in responses[c] => uas[c] # "None" \/ c \in closed
          /\ "BYE 200" \in responses[c] \/ "BYE 481" \in responses[c] => c \in closed
    BY DEF EndInv
  <2> QED BY <1>1, <2>1, <2>2, EndAnswers
<1>4. ASSUME NEW c \in Call,
             ForceRemove(c) \/ CountForced(c) \/ ShutDownRemove(c) \/ ShutDownCount(c)
      PROVE  EndInv'
  <2>1. UNCHANGED <<requests, uas, closed>> /\ (UNCHANGED dialog \/ RemoveDialog(c))
    BY <1>4 DEF ForceRemove, CountForced, ShutDownRemove, ShutDownCount, wireVars
  <2>2. \A d \in Confirmed' : d \in Confirmed
    BY <2>1, RemovesOne DEF Confirmed, Present
  <2> QED BY <1>1, <2>1, <2>2, EndKept DEF OnWire
<1>5. ASSUME NEW c \in Call, ShutDownBye(c)
      PROVE  EndInv'
  <2>1. UNCHANGED <<dialog, uas, closed>>
    BY <1>5 DEF ShutDownBye, uacVars
  <2>2. CASE UNCHANGED requests
    BY <1>1, <2>1, <2>2, EndKept DEF OnWire, Confirmed, Present
  <2>3. CASE c \in Confirmed /\ Transmit(c, "BYE", dialog[c].cseq + 1)
    <3>1. "INVITE 200" \in responses[c]
      BY <2>3 DEF EndInv
    <3>2. \A d \in Call : OnWire(d, {"BYE"})' => OnWire(d, {"BYE"}) \/ d = c
      BY <2>3, WireGrows
    <3>3. \A d \in InviteCall : OnWire(d, {"REGISTER", "AuthREGISTER"})'
                                  => OnWire(d, {"REGISTER", "AuthREGISTER"})
      BY <1>i, <2>3, WireGrows
    <3>4. \A d \in InviteCall : ~OnWire(d, {"REGISTER", "AuthREGISTER"})'
      BY <3>3 DEF EndInv
    <3> QED BY <1>1, <2>1, <3>1, <3>2, <3>4, EndKept DEF Confirmed, Present
  <2> QED BY <1>5, <2>2, <2>3 DEF ShutDownBye
<1> QED BY <1>2, <1>3, <1>4, <1>5 DEF Orchestrator

LEMMA EndHolds == Spec => []EndInv
<1>1. Init => EndInv
  <2> SUFFICES ASSUME Init PROVE EndInv
    OBVIOUS
  <2>1. \A c \in Call : success[c] = 0 /\ requests[c] = {} /\ responses[c] = {}
    BY DEF Init
  <2>2. InviteCall \subseteq Call /\ Confirmed = {} /\ batch = {}
    BY DEF Init, Call, Confirmed, Present
  <2>3. \A c \in Call : ~OnWire(c, {"BYE"}) /\ ~OnWire(c, {"REGISTER", "AuthREGISTER"})
    BY <2>1 DEF OnWire
  <2>4. \A c \in InviteCall : ~(success[c] > 0)
    BY <2>1, <2>2
  <2> QED BY <2>1, <2>2, <2>3, <2>4 DEF EndInv
<1>2. BaseInv /\ EndInv /\ [Next]_vars => EndInv'
  <2> SUFFICES ASSUME BaseInv, EndInv, [Next]_vars PROVE EndInv'
    OBVIOUS
  <2>1. CASE UNCHANGED vars
    BY <2>1, EndKept DEF vars, uacVars, wireVars, statVars, OnWire, Confirmed, Present
  <2> QED BY <2>1, EndSender, EndReceiver, EndLoops, EndFar, EndOrchestrator DEF Next
<1> QED BY <1>1, <1>2, BaseHolds, PTL DEF Spec

\* The UAC counts a success only when the UAS has let go of the call, however
\* the network repeats and reorders what they say to each other.
THEOREM SuccessAgreed == Spec => []SuccessMeansClosed
<1>1. EndInv => SuccessMeansClosed
  BY DEF EndInv, SuccessMeansClosed
<1> QED BY <1>1, EndHolds, PTL

\* No BYE overtakes the INVITE of its call: a 481 is about a call that has ended.
THEOREM NoByeBeforeInvite == Spec => []UnknownByeMeansClosed
<1>1. EndInv => UnknownByeMeansClosed
  BY DEF EndInv, UnknownByeMeansClosed
<1> QED BY <1>1, EndHolds, PTL
-----------------------------------------------------------------------------
(* The requests that answer a challenge. *)

Plain(c) == RequestsOf(c, {"INVITE", "REGISTER"})
Authorized(c) == RequestsOf(c, {"AuthINVITE", "AuthREGISTER"})
Resending(c) == {w \in Receiver : handling[w] = <<c, "resend">>}

Unauthorized(c) == c \in Present /\ dialog[c].auth = FALSE

\* A receive loop that answers a challenge holds one of the places; the first
\* answer sets the flag, and then no other takes one.
ChallengeInv ==
  \A c \in Call :
    /\ Plain(c) \subseteq {<<IF c \in InviteCall THEN "INVITE" ELSE "REGISTER", 1>>}
    /\ Unauthorized(c) => Authorized(c) = {}
    /\ Cardinality(Authorized(c)) + Cardinality(Resending(c)) <= Cardinality(Receiver)

LEMMA ChallengeFinite ==
  ASSUME TypeInv, NEW c \in Call
  PROVE  /\ \A kinds : /\ IsFiniteSet(RequestsOf(c, kinds))
                       /\ Cardinality(RequestsOf(c, kinds)) \in Nat
         /\ IsFiniteSet(Resending(c)) /\ Cardinality(Resending(c)) \in Nat
         /\ Cardinality(Resending(c)) <= Cardinality(Receiver)
         /\ Cardinality(Receiver) \in Nat
<1>1. IsFiniteSet(CSeq) /\ IsFiniteSet(Receiver)
  BY CallsAssumption, FS_Interval DEF CSeq, CallsAssumption
<1>2. IsFiniteSet(Request)
  <2>1. Request = {"INVITE"} \cup {"AuthINVITE"} \cup {"REINVITE"} \cup {"ACK"} \cup {"BYE"}
                    \cup {"REGISTER"} \cup {"AuthREGISTER"}
    BY DEF Request
  <2> QED BY <2>1, FS_Singleton, FS_Union
<1>3. IsFiniteSet(Request \X CSeq)
  BY <1>1, <1>2, FS_Product
<1>4. \A kinds : RequestsOf(c, kinds) \subseteq Request \X CSeq
  BY DEF TypeInv, RequestsOf
<1>5. Resending(c) \subseteq Receiver
  BY DEF Resending
<1> QED BY <1>1, <1>3, <1>4, <1>5, FS_Subset, FS_CardinalityType

LEMMA RequestGrows ==
  ASSUME TypeInv, NEW c \in Call, NEW r, NEW n, Transmit(c, r, n)
  PROVE  /\ \A d \in Call : d # c => requests'[d] = requests[d]
         /\ \A kinds : r \notin kinds => RequestsOf(c, kinds)' = RequestsOf(c, kinds)
         /\ \A kinds : r \in kinds =>
              RequestsOf(c, kinds)' = RequestsOf(c, kinds) \cup {<<r, n>>}
<1>1. /\ requests'[c] = requests[c] \cup {<<r, n>>}
      /\ \A d \in Call : d # c => requests'[d] = requests[d]
  BY TransmitGrows
<1>2. <<r, n>>[1] = r
  OBVIOUS
<1> QED BY <1>1, <1>2 DEF RequestsOf

LEMMA ChallengeWire ==
  ASSUME TypeInv, NEW c \in Call, NEW r, NEW n, Transmit(c, r, n)
  PROVE  /\ \A d \in Call : d # c => Plain(d)' = Plain(d) /\ Authorized(d)' = Authorized(d)
         /\ r \notin {"INVITE", "REGISTER"} => Plain(c)' = Plain(c)
         /\ r \notin {"AuthINVITE", "AuthREGISTER"} => Authorized(c)' = Authorized(c)
         /\ r \in {"INVITE", "REGISTER"} => Plain(c)' = Plain(c) \cup {<<r, n>>}
         /\ r \in {"AuthINVITE", "AuthREGISTER"} =>
              Authorized(c)' = Authorized(c) \cup {<<r, n>>}
<1>1. \A d \in Call : d # c => Plain(d)' = Plain(d) /\ Authorized(d)' = Authorized(d)
  <2>1. \A d \in Call : d # c => requests'[d] = requests[d]
    BY RequestGrows
  <2> QED BY <2>1 DEF Plain, Authorized, RequestsOf
<1>2. /\ r \notin {"INVITE", "REGISTER"} => Plain(c)' = Plain(c)
      /\ r \in {"INVITE", "REGISTER"} => Plain(c)' = Plain(c) \cup {<<r, n>>}
  <2> DEFINE K == {"INVITE", "REGISTER"}
  <2>1. /\ r \notin K => RequestsOf(c, K)' = RequestsOf(c, K)
        /\ r \in K => RequestsOf(c, K)' = RequestsOf(c, K) \cup {<<r, n>>}
    <3> HIDE DEF K
    <3> QED BY RequestGrows
  <2> QED BY <2>1 DEF Plain
<1>3. /\ r \notin {"AuthINVITE", "AuthREGISTER"} => Authorized(c)' = Authorized(c)
      /\ r \in {"AuthINVITE", "AuthREGISTER"} =>
           Authorized(c)' = Authorized(c) \cup {<<r, n>>}
  <2> DEFINE K == {"AuthINVITE", "AuthREGISTER"}
  <2>1. /\ r \notin K => RequestsOf(c, K)' = RequestsOf(c, K)
        /\ r \in K => RequestsOf(c, K)' = RequestsOf(c, K) \cup {<<r, n>>}
    <3> HIDE DEF K
    <3> QED BY RequestGrows
  <2> QED BY <2>1 DEF Authorized
<1> QED BY <1>1, <1>2, <1>3

\* Assigning to the fields of a dialog never takes its mark away.
LEMMA FieldsAuthorize ==
  ASSUME TypeInv, NEW c \in Present, NEW s \in State, NEW n,
         \/ dialog' = [dialog EXCEPT ![c].state = s]
         \/ dialog' = [dialog EXCEPT ![c].cseq = n]
         \/ dialog' = [dialog EXCEPT ![c].state = s, ![c].cseq = n]
         \/ dialog' = [dialog EXCEPT ![c].auth = TRUE, ![c].cseq = n]
  PROVE  \A d \in Call : Unauthorized(d)' => Unauthorized(d)
<1>1. Present' = Present /\ \A d \in Call : d # c => dialog'[d] = dialog[d]
  BY FieldsKeepPresent
<1>2. c \in Call /\ dialog[c] \in Dialog
  BY PresentTypes
<1>3. dialog'[c].auth \in {dialog[c].auth, TRUE}
  <2>1. dialog \in [Call -> Dialog \cup {NoDialog}]
    BY DEF TypeInv
  <2>2. CASE dialog' = [dialog EXCEPT ![c].auth = TRUE, ![c].cseq = n]
    <3>1. dialog'[c] = [dialog[c] EXCEPT !.auth = TRUE, !.cseq = n]
      BY <1>2, <2>1, <2>2
    <3>2. dialog[c] = [state |-> dialog[c].state, cseq |-> dialog[c].cseq,
                       auth |-> dialog[c].auth]
      BY <1>2 DEF Dialog
    <3> QED BY <3>1, <3>2
  <2>3. CASE dialog' = [dialog EXCEPT ![c].state = s, ![c].cseq = n]
    <3>1. dialog'[c] = [dialog[c] EXCEPT !.state = s, !.cseq = n]
      BY <1>2, <2>1, <2>3
    <3>2. dialog[c] = [state |-> dialog[c].state, cseq |-> dialog[c].cseq,
                       auth |-> dialog[c].auth]
      BY <1>2 DEF Dialog
    <3> QED BY <3>1, <3>2
  <2>4. CASE dialog' = [dialog EXCEPT ![c].state = s]
    BY <1>2, <2>1, <2>4 DEF Dialog
  <2>5. CASE dialog' = [dialog EXCEPT ![c].cseq = n]
    BY <1>2, <2>1, <2>5 DEF Dialog
  <2> QED BY <2>2, <2>3, <2>4, <2>5
<1> QED BY <1>1, <1>2, <1>3 DEF Unauthorized

\* A step that answers no challenge and accepts none.
LEMMA ChallengeKept ==
  ASSUME BaseInv, ChallengeInv,
         \A c \in Call : Unauthorized(c)' => Unauthorized(c) \/ requests[c] = {},
         \A c \in Call : Resending(c)' \subseteq Resending(c),
         \A c \in Call : \/ Plain(c)' \subseteq Plain(c)
                         \/ Plain(c)' \subseteq
                              {<<IF c \in InviteCall THEN "INVITE" ELSE "REGISTER", 1>>},
         \A c \in Call : Authorized(c)' = Authorized(c)
  PROVE  ChallengeInv'
<1> SUFFICES ASSUME NEW c \in Call
             PROVE  /\ Plain(c)' \subseteq
                         {<<IF c \in InviteCall THEN "INVITE" ELSE "REGISTER", 1>>}
                    /\ Unauthorized(c)' => Authorized(c)' = {}
                    /\ Cardinality(Authorized(c)') + Cardinality(Resending(c)')
                         <= Cardinality(Receiver)
  BY DEF ChallengeInv
<1>1. Plain(c)' \subseteq {<<IF c \in InviteCall THEN "INVITE" ELSE "REGISTER", 1>>}
  BY DEF ChallengeInv
<1>2. requests[c] = {} => Authorized(c) = {}
  BY DEF Authorized, RequestsOf
<1>3. Unauthorized(c)' => Authorized(c)' = {}
  BY <1>2 DEF ChallengeInv
<1>4. /\ Cardinality(Resending(c)') <= Cardinality(Resending(c))
      /\ Cardinality(Resending(c)') \in Nat /\ Cardinality(Resending(c)) \in Nat
      /\ Cardinality(Authorized(c)) \in Nat /\ Cardinality(Receiver) \in Nat
  <2>1. IsFiniteSet(Resending(c))
    BY ChallengeFinite DEF BaseInv
  <2>2. /\ Cardinality(Resending(c)') <= Cardinality(Resending(c))
        /\ IsFiniteSet(Resending(c)')
    BY <2>1, FS_Subset
  <2>3. Cardinality(Resending(c)') \in Nat
    BY <2>2, FS_CardinalityType
  <2> QED BY <2>2, <2>3, ChallengeFinite DEF BaseInv, Authorized
<1>5. Cardinality(Authorized(c)') + Cardinality(Resending(c)') <= Cardinality(Receiver)
  <2>1. Cardinality(Authorized(c)) + Cardinality(Resending(c)) <= Cardinality(Receiver)
    BY DEF ChallengeInv
  <2>2. Cardinality(Authorized(c)') = Cardinality(Authorized(c))
    OBVIOUS
  <2> QED BY <1>4, <2>1, <2>2, SMT
<1> QED BY <1>1, <1>3, <1>5

LEMMA ChallengeOthers ==
  ASSUME BaseInv, ChallengeInv, UNCHANGED handling,
         \A c \in Call : Unauthorized(c)' => Unauthorized(c) \/ requests[c] = {},
         \/ UNCHANGED requests
         \/ \E c \in Call : \E n : \E r \in {"ACK", "BYE", "REINVITE"} : Transmit(c, r, n)
  PROVE  ChallengeInv'
<1>1. \A c \in Call : Plain(c)' = Plain(c) /\ Authorized(c)' = Authorized(c)
  <2>1. CASE UNCHANGED requests
    BY <2>1 DEF Plain, Authorized, RequestsOf
  <2>2. ASSUME NEW c \in Call, NEW n, NEW r \in {"ACK", "BYE", "REINVITE"}, Transmit(c, r, n)
        PROVE  <1>1!:
    <3>1. r \notin {"INVITE", "REGISTER"} /\ r \notin {"AuthINVITE", "AuthREGISTER"}
      OBVIOUS
    <3> QED BY <2>2, <3>1, ChallengeWire DEF BaseInv
  <2> QED BY <2>1, <2>2
<1>2. \A c \in Call : Resending(c)' = Resending(c)
  BY DEF Resending
<1> QED BY <1>1, <1>2, ChallengeKept

LEMMA ChallengeSender ==
  ASSUME BaseInv, ChallengeInv, NEW c \in Call, SendTask(c)
  PROVE  ChallengeInv'
<1> USE DEF BaseInv
<1>1. UNCHANGED handling
  BY DEF SendTask, StartCall, InsertDialog, SendRequest
<1>2. CASE StartCall(c)
  BY <1>1, <1>2, ChallengeOthers DEF StartCall, Unauthorized, Present, wireVars
<1>3. CASE InsertDialog(c)
  <2>1. /\ requests[c] = {} /\ UNCHANGED requests
        /\ \A d \in Call : d # c => dialog'[d] = dialog[d]
    BY <1>3 DEF InsertDialog, SentInv, wireVars, TypeInv
  <2> QED BY <1>1, <2>1, ChallengeOthers DEF Unauthorized, Present
<1>4. CASE SendRequest(c)
  <2> DEFINE r == IF c \in InviteCall THEN "INVITE" ELSE "REGISTER"
  <2>1. /\ Transmit(c, r, 1) /\ requests[c] = {} /\ c \in Present
        /\ dialog' = [dialog EXCEPT ![c].state = "Trying"]
    BY <1>4 DEF SendRequest, SentInv, Present, NoDialog
  <2>2. \A d \in Call : Unauthorized(d)' => Unauthorized(d)
    BY <2>1, FieldsAuthorize DEF State
  <2>3. r \in {"INVITE", "REGISTER"} /\ r \notin {"AuthINVITE", "AuthREGISTER"}
    OBVIOUS
  <2>4. Plain(c) = {}
    BY <2>1 DEF Plain, RequestsOf
  <2>5. Plain(c)' = {<<r, 1>>} /\ Authorized(c)' = Authorized(c)
    BY <2>1, <2>3, <2>4, ChallengeWire
  <2>6. \A d \in Call : d # c => Plain(d)' = Plain(d) /\ Authorized(d)' = Authorized(d)
    BY <2>1, ChallengeWire
  <2>7. \A d \in Call : Resending(d)' = Resending(d)
    BY <1>1 DEF Resending
  <2> QED BY <2>2, <2>5, <2>6, <2>7, ChallengeKept
<1> QED BY <1>2, <1>3, <1>4 DEF SendTask

LEMMA ChallengeReceiver ==
  ASSUME BaseInv, ChallengeInv, NEW w \in Receiver, ReceiveLoop(w)
  PROVE  ChallengeInv'
<1> USE DEF BaseInv
<1> PICK c \in Call : HandleResponse(w, c)
  BY DEF ReceiveLoop
<1>h. handling \in [Receiver -> {Free} \cup Call \X (Response \cup Point)]
  BY DEF TypeInv
<1>1. ASSUME NEW r \in Response, Receive(w, c, r)
      PROVE  ChallengeInv'
  <2>1. UNCHANGED <<dialog, requests>> /\ handling' = [handling EXCEPT ![w] = <<c, r>>]
    BY <1>1 DEF Receive, wireVars
  <2>2. \A d \in Call : Resending(d)' \subseteq Resending(d)
    BY <1>h, <2>1 DEF Resending, Response
  <2> QED BY <2>1, <2>2, ChallengeKept DEF Plain, Authorized, RequestsOf, Unauthorized, Present
<1>2. ASSUME handling' = [handling EXCEPT ![w] = Free]
      PROVE  \A d \in Call : Resending(d)' \subseteq Resending(d)
  BY <1>h, <1>2 DEF Resending, Free
<1>3. CASE \/ CompleteCall(w, c) \/ RecordSuccess(w, c) \/ FailCall(w, c) \/ DropCall(w, c)
           \/ CountTaken(w, c) \/ CloseCall(w, c)
  <2>1. \/ handling' = [handling EXCEPT ![w] = Free]
        \/ \E p \in Point : p # "resend" /\ handling' = [handling EXCEPT ![w] = <<c, p>>]
    BY <1>3 DEF CompleteCall, RecordSuccess, FailCall, DropCall, CountTaken, CloseCall, RemoveOwn,
                Continue, Handle, Point
  <2>2. \A d \in Call : Resending(d)' \subseteq Resending(d)
    <3>1. ASSUME NEW p \in Point, p # "resend", handling' = [handling EXCEPT ![w] = <<c, p>>]
          PROVE  \A d \in Call : Resending(d)' \subseteq Resending(d)
      BY <1>h, <3>1 DEF Resending
    <3> QED BY <1>2, <2>1, <3>1
  <2>3. UNCHANGED requests /\ (UNCHANGED dialog \/ RemoveDialog(c))
    BY <1>3 DEF CompleteCall, RecordSuccess, FailCall, DropCall, CountTaken, CloseCall, RemoveOwn,
                wireVars
  <2>4. \A d \in Call : Unauthorized(d)' => Unauthorized(d)
    BY <2>3, RemovesOne DEF Unauthorized, Present
  <2> QED BY <2>2, <2>3, <2>4, ChallengeKept DEF Plain, Authorized, RequestsOf
<1>4. CASE ConfirmCall(w, c)
  <2>1. handling' = [handling EXCEPT ![w] = Free]
    BY <1>4 DEF ConfirmCall, Handle
  <2>2. \A d \in Call : Unauthorized(d)' => Unauthorized(d)
    <3>1. CASE UNCHANGED dialog
      BY <3>1 DEF Unauthorized, Present
    <3>2. CASE c \in Present /\ dialog' = [dialog EXCEPT ![c].state = "Confirmed"]
      BY <3>2, FieldsAuthorize DEF State
    <3> QED BY <1>4, <3>1, <3>2 DEF ConfirmCall
  <2>3. \A d \in Call : Plain(d)' = Plain(d) /\ Authorized(d)' = Authorized(d)
    <3>1. CASE UNCHANGED requests
      BY <3>1 DEF Plain, Authorized, RequestsOf
    <3>2. CASE Transmit(c, "ACK", dialog[c].cseq)
      <4>1. "ACK" \notin {"INVITE", "REGISTER"} /\ "ACK" \notin {"AuthINVITE", "AuthREGISTER"}
        OBVIOUS
      <4> QED BY <3>2, <4>1, ChallengeWire
    <3> QED BY <1>4, <3>1, <3>2 DEF ConfirmCall
  <2> QED BY <1>2, <2>1, <2>2, <2>3, ChallengeKept
<1>5. CASE FailChallenge(w, c)
  <2>1. handling' = [handling EXCEPT ![w] = Free] /\ UNCHANGED requests
    BY <1>5 DEF FailChallenge, Handle, wireVars
  <2>2. \A d \in Call : Unauthorized(d)' => Unauthorized(d)
    <3>1. CASE UNCHANGED dialog
      BY <3>1 DEF Unauthorized, Present
    <3>2. CASE c \in Present /\ dialog' = [dialog EXCEPT ![c].state = "Error"]
      BY <3>2, FieldsAuthorize DEF State
    <3> QED BY <1>5, <3>1, <3>2 DEF FailChallenge
  <2> QED BY <1>2, <2>1, <2>2, ChallengeKept DEF Plain, Authorized, RequestsOf
<1>6. CASE AcceptChallenge(w, c)
  <2>1. /\ UNCHANGED <<dialog, requests>> /\ handling' = [handling EXCEPT ![w] = <<c, "resend">>]
        /\ c \in Present /\ ~dialog[c].auth
    BY <1>6 DEF AcceptChallenge, Continue, wireVars
  <2>2. dialog[c].auth = FALSE
    BY <2>1, PresentTypes DEF Dialog
  <2>3. Authorized(c) = {}
    BY <2>1, <2>2 DEF ChallengeInv, Unauthorized
  <2>4. \A d \in Call : /\ Plain(d)' = Plain(d) /\ Authorized(d)' = Authorized(d)
                        /\ Unauthorized(d)' <=> Unauthorized(d)
    BY <2>1 DEF Plain, Authorized, RequestsOf, Unauthorized, Present
  <2>5. \A d \in Call : d # c => Resending(d)' \subseteq Resending(d)
    BY <1>h, <2>1 DEF Resending
  <2>6. Resending(c)' \subseteq Receiver
    BY DEF Resending
  <2>7. Cardinality(Authorized(c)') + Cardinality(Resending(c)') <= Cardinality(Receiver)
    <3>1. IsFiniteSet(Receiver) /\ Cardinality(Receiver) \in Nat
      BY CallsAssumption, FS_CardinalityType DEF CallsAssumption
    <3>2. Cardinality(Resending(c)') <= Cardinality(Receiver) /\ IsFiniteSet(Resending(c)')
      BY <2>6, <3>1, FS_Subset
    <3>3. Cardinality(Resending(c)') \in Nat
      BY <3>2, FS_CardinalityType
    <3>4. Cardinality(Authorized(c)') = 0
      BY <2>3, <2>4, FS_EmptySet
    <3> QED BY <3>1, <3>2, <3>3, <3>4, SMT
  <2>8. ASSUME NEW d \in Call, d # c
        PROVE  Cardinality(Authorized(d)') + Cardinality(Resending(d)') <= Cardinality(Receiver)
    <3>1. IsFiniteSet(Resending(d)) /\ Cardinality(Resending(d)) \in Nat
          /\ Cardinality(Authorized(d)) \in Nat /\ Cardinality(Receiver) \in Nat
      BY ChallengeFinite DEF Authorized
    <3>2. Cardinality(Resending(d)') <= Cardinality(Resending(d)) /\ IsFiniteSet(Resending(d)')
      BY <2>5, <2>8, <3>1, FS_Subset
    <3>3. Cardinality(Resending(d)') \in Nat
      BY <3>2, FS_CardinalityType
    <3>4. Cardinality(Authorized(d)) + Cardinality(Resending(d)) <= Cardinality(Receiver)
      BY DEF ChallengeInv
    <3>5. Cardinality(Authorized(d)') = Cardinality(Authorized(d))
      BY <2>4
    <3> QED BY <3>1, <3>2, <3>3, <3>4, <3>5, SMT
  <2> QED BY <2>4, <2>7, <2>8 DEF ChallengeInv
<1>7. CASE AnswerChallenge(w, c)
  <2>1. handling[w] = <<c, "resend">> /\ handling' = [handling EXCEPT ![w] = Free]
    BY <1>7 DEF AnswerChallenge, Handle
  <2>2. CASE c \notin Present
    <3>1. UNCHANGED <<dialog, requests>>
      BY <1>7, <2>2 DEF AnswerChallenge
    <3> QED BY <1>2, <2>1, <3>1, ChallengeKept
            DEF Plain, Authorized, RequestsOf, Unauthorized, Present
  <2>3. CASE c \in Present
    <3> DEFINE n == dialog[c].cseq + 1
    <3>1. /\ dialog' = [dialog EXCEPT ![c].auth = TRUE, ![c].cseq = n]
          /\ Transmit(c, AuthMethod(c), n)
      BY <1>7, <2>3, PresentTypes DEF AnswerChallenge, Dialog, TypeInv
    <3> HIDE DEF n
    <3>2. \A d \in Call : Unauthorized(d)' => Unauthorized(d)
      BY <2>3, <3>1, FieldsAuthorize DEF State
    <3>3. ~Unauthorized(c)'
      BY <2>3, <3>1, PresentTypes DEF Unauthorized, TypeInv, Dialog
    <3>4. AuthMethod(c) \notin {"INVITE", "REGISTER"}
          /\ AuthMethod(c) \in {"AuthINVITE", "AuthREGISTER"}
      BY DEF AuthMethod
    <3>5. /\ Plain(c)' = Plain(c)
          /\ Authorized(c)' = Authorized(c) \cup {<<AuthMethod(c), n>>}
          /\ \A d \in Call : d # c => Plain(d)' = Plain(d) /\ Authorized(d)' = Authorized(d)
      BY <3>1, <3>4, ChallengeWire
    <3>6. /\ Resending(c)' = Resending(c) \ {w} /\ w \in Resending(c)
          /\ \A d \in Call : d # c => Resending(d)' = Resending(d)
      BY <1>h, <2>1 DEF Resending, Free
    <3>7. Cardinality(Authorized(c)') + Cardinality(Resending(c)') <= Cardinality(Receiver)
      <4>1. /\ IsFiniteSet(Authorized(c)) /\ Cardinality(Authorized(c)) \in Nat
            /\ IsFiniteSet(Resending(c)) /\ Cardinality(Resending(c)) \in Nat
            /\ Cardinality(Receiver) \in Nat
        BY ChallengeFinite DEF Authorized
      <4>2. Cardinality(Resending(c)') = Cardinality(Resending(c)) - 1
        BY <3>6, <4>1, FS_RemoveElement
      <4>3. \/ Cardinality(Authorized(c)') = Cardinality(Authorized(c)) + 1
            \/ Cardinality(Authorized(c)') = Cardinality(Authorized(c))
        <5>1. CASE <<AuthMethod(c), n>> \in Authorized(c)
          <6>1. Authorized(c)' = Authorized(c)
            BY <3>5, <5>1
          <6> QED BY <6>1
        <5>2. CASE <<AuthMethod(c), n>> \notin Authorized(c)
          <6> DEFINE q == <<AuthMethod(c), n>>
                     A == Authorized(c)
          <6>1. Authorized(c)' = A \cup {q} /\ q \notin A /\ IsFiniteSet(A)
            BY <3>5, <4>1, <5>2
          <6> HIDE DEF q, A
          <6>2. Cardinality(A \cup {q}) = Cardinality(A) + 1
            BY <6>1, FS_AddElement
          <6> QED BY <6>1, <6>2 DEF A
        <5> QED BY <5>1, <5>2
      <4>4. Cardinality(Authorized(c)) + Cardinality(Resending(c)) <= Cardinality(Receiver)
        BY DEF ChallengeInv
      <4> QED BY <4>1, <4>2, <4>3, <4>4, SMT
    <3>8. \A d \in Call : d # c =>
            Cardinality(Authorized(d)') + Cardinality(Resending(d)') <= Cardinality(Receiver)
      BY <3>5, <3>6 DEF ChallengeInv
    <3> QED BY <3>2, <3>3, <3>5, <3>7, <3>8 DEF ChallengeInv
  <2> QED BY <2>2, <2>3
<1> QED BY <1>1, <1>3, <1>4, <1>5, <1>6, <1>7 DEF HandleResponse

LEMMA ChallengeLoops ==
  ASSUME BaseInv, ChallengeInv, ByeLoop \/ \E c \in InviteCall : ReinviteTask(c)
  PROVE  ChallengeInv'
<1> USE DEF BaseInv
<1>i. InviteCall \subseteq Call
  BY DEF Call
<1>1. UNCHANGED handling
  BY DEF ByeLoop, ReinviteTask, CollectForBye, SendBye, NoteBye, SendReinvite, NoteReinvite
<1>2. \/ UNCHANGED requests
      \/ \E c \in Call : \E n : \E r \in {"ACK", "BYE", "REINVITE"} : Transmit(c, r, n)
  BY <1>i DEF ByeLoop, ReinviteTask, CollectForBye, SendBye, NoteBye, SendReinvite,
              NoteReinvite, wireVars
<1>3. \A d \in Call : Unauthorized(d)' => Unauthorized(d)
  <2>1. CASE UNCHANGED dialog
    BY <2>1 DEF Unauthorized, Present
  <2>2. ASSUME NEW c \in InviteCall, NEW n \in CSeq, NoteBye(c, n) \/ NoteReinvite(c, n)
        PROVE  <1>3!:
    <3>1. CASE c \in Present /\ ~UNCHANGED dialog
      <4>1. \/ dialog' = [dialog EXCEPT ![c].cseq = n]
            \/ dialog' = [dialog EXCEPT ![c].state = "Trying", ![c].cseq = n]
        BY <2>2, <3>1 DEF NoteBye, NoteReinvite
      <4> QED BY <3>1, <4>1, FieldsAuthorize DEF State
    <3> QED BY <2>1, <2>2, <3>1 DEF NoteBye, NoteReinvite
  <2> QED BY <2>1, <2>2 DEF ByeLoop, ReinviteTask, CollectForBye, SendBye, SendReinvite
<1> QED BY <1>1, <1>2, <1>3, ChallengeOthers

LEMMA ChallengeOrchestrator ==
  ASSUME BaseInv, ChallengeInv, Orchestrator
  PROVE  ChallengeInv'
<1> USE DEF BaseInv
<1>1. UNCHANGED handling
  BY OrchestratorEffect
<1>2. \/ UNCHANGED requests
      \/ \E c \in Call : \E n : \E r \in {"ACK", "BYE", "REINVITE"} : Transmit(c, r, n)
  BY DEF Orchestrator, Drain, Drained, CleanUp, CountRemoved, NextStep, ShutDown, Exit,
         ForceRemove, CountForced, ShutDownBye, ShutDownRemove, ShutDownCount, wireVars
<1>3. \A d \in Call : Unauthorized(d)' => Unauthorized(d)
  <2>1. CASE UNCHANGED dialog
    BY <2>1 DEF Unauthorized, Present
  <2>2. ASSUME NEW c \in Call, RemoveDialog(c)
        PROVE  <1>3!:
    BY <2>2, RemovesOne DEF Unauthorized, Present
  <2> QED BY <2>1, <2>2 DEF Orchestrator, Drain, Drained, CleanUp, CountRemoved, NextStep,
                            ShutDown, Exit, ForceRemove, CountForced, ShutDownBye,
                            ShutDownRemove, ShutDownCount, uacVars
<1> QED BY <1>1, <1>2, <1>3, ChallengeOthers

LEMMA ChallengeHolds == Spec => []ChallengeInv
<1>1. Init => ChallengeInv
  <2> SUFFICES ASSUME Init, NEW c \in Call
               PROVE  /\ Plain(c) = {} /\ Authorized(c) = {} /\ Resending(c) = {}
                      /\ Cardinality({}) + Cardinality({}) <= Cardinality(Receiver)
    BY DEF ChallengeInv
  <2>1. Plain(c) = {} /\ Authorized(c) = {} /\ Resending(c) = {}
    BY DEF Init, Plain, Authorized, RequestsOf, Resending, Free
  <2>2. Cardinality({}) = 0 /\ Cardinality(Receiver) \in Nat
    BY CallsAssumption, FS_EmptySet, FS_CardinalityType DEF CallsAssumption
  <2> QED BY <2>1, <2>2, SMT
<1>2. BaseInv /\ ChallengeInv /\ [Next]_vars => ChallengeInv'
  <2> SUFFICES ASSUME BaseInv, ChallengeInv, [Next]_vars PROVE ChallengeInv'
    OBVIOUS
  <2>1. CASE UNCHANGED vars
    BY <2>1, ChallengeOthers DEF vars, uacVars, wireVars, Unauthorized, Present
  <2>2. CASE FarEnd
    <3>1. UNCHANGED <<dialog, handling, requests>>
      BY <2>2 DEF FarEnd, Challenge, Reject, Register, UasInvite, UasAck, UasBye, uacVars, wireVars
    <3> QED BY <3>1, ChallengeOthers DEF Unauthorized, Present
  <2> QED BY <2>1, <2>2, ChallengeSender, ChallengeReceiver, ChallengeLoops,
             ChallengeOrchestrator DEF Next
<1> QED BY <1>1, <1>2, BaseHolds, PTL DEF Spec

\* A challenged call sends its request again once, or once for each receive loop
\* that read the flag before one of them set it.
THEOREM ChallengesAnsweredOnce == Spec => []ChallengesBounded
<1>1. BaseInv /\ ChallengeInv => ChallengesBounded
  <2> SUFFICES ASSUME BaseInv, ChallengeInv, NEW c \in Call
               PROVE  Cardinality(RequestsOf(c, {"INVITE", "AuthINVITE", "REGISTER",
                                                 "AuthREGISTER"}))
                        <= 1 + Cardinality(Receiver)
    BY DEF ChallengesBounded
  <2> DEFINE R == RequestsOf(c, {"INVITE", "AuthINVITE", "REGISTER", "AuthREGISTER"})
             P == {<<IF c \in InviteCall THEN "INVITE" ELSE "REGISTER", 1>>}
  <2>1. R \subseteq P \cup Authorized(c)
    <3>1. R = Plain(c) \cup Authorized(c)
      BY DEF RequestsOf, Plain, Authorized
    <3> QED BY <3>1 DEF ChallengeInv
  <2>2. IsFiniteSet(P) /\ Cardinality(P) = 1
    BY FS_Singleton
  <2>3. /\ IsFiniteSet(Authorized(c)) /\ Cardinality(Authorized(c)) \in Nat
        /\ Cardinality(R) \in Nat /\ Cardinality(Resending(c)) \in Nat
        /\ Cardinality(Receiver) \in Nat
    BY ChallengeFinite DEF Authorized, BaseInv
  <2>4. Cardinality(Authorized(c)) + Cardinality(Resending(c)) <= Cardinality(Receiver)
    BY DEF ChallengeInv
  <2> HIDE DEF P, R
  <2>5. /\ IsFiniteSet(P \cup Authorized(c))
        /\ Cardinality(P \cup Authorized(c))
             = Cardinality(P) + Cardinality(Authorized(c)) - Cardinality(P \cap Authorized(c))
    BY <2>2, <2>3, FS_Union
  <2>6. Cardinality(P \cap Authorized(c)) \in Nat
    BY <2>2, FS_Intersection, FS_CardinalityType
  <2>7. Cardinality(R) <= Cardinality(P \cup Authorized(c))
    BY <2>1, <2>5, FS_Subset
  <2>8. Cardinality(R) <= 1 + Cardinality(Receiver)
    BY <2>2, <2>3, <2>4, <2>5, <2>6, <2>7, SMT
  <2> QED BY <2>8 DEF R
<1> QED BY <1>1, BaseHolds, ChallengeHolds, PTL
-----------------------------------------------------------------------------
(* The CSeq numbers of INVITE and BYE. *)

\* What a handler sends.
LEMMA HandlerSends ==
  ASSUME NEW w \in Receiver, NEW c \in Call, HandleResponse(w, c)
  PROVE  UNCHANGED requests \/ \E n : Transmit(c, "ACK", n) \/ Transmit(c, AuthMethod(c), n)
<1>1. CASE ConfirmCall(w, c) \/ FailChallenge(w, c) \/ AnswerChallenge(w, c)
  BY <1>1 DEF ConfirmCall, FailChallenge, AnswerChallenge, wireVars
<1> QED BY <1>1, HandlerRest

LEMMA WireMonotone ==
  ASSUME BaseInv, [Next]_vars
  PROVE  \A c \in Call : /\ requests[c] \subseteq requests'[c]
                         /\ responses[c] \subseteq responses'[c]
<1> USE DEF BaseInv
<1>i. InviteCall \subseteq Call
  BY DEF Call
<1>1. ASSUME UNCHANGED requests \/ \E c \in Call : \E r, n : Transmit(c, r, n),
             UNCHANGED responses \/ \E c \in Call : \E r : Reply(c, r)
      PROVE  \A d \in Call : /\ requests[d] \subseteq requests'[d]
                             /\ responses[d] \subseteq responses'[d]
  BY <1>1, TransmitGrows, ReplyGrows
<1>2. ASSUME NEW c \in Call, SendTask(c)
      PROVE  \A d \in Call : /\ requests[d] \subseteq requests'[d]
                             /\ responses[d] \subseteq responses'[d]
  BY <1>1, <1>2 DEF SendTask, StartCall, InsertDialog, SendRequest, wireVars
<1>3. ASSUME NEW w \in Receiver, ReceiveLoop(w)
      PROVE  \A d \in Call : /\ requests[d] \subseteq requests'[d]
                             /\ responses[d] \subseteq responses'[d]
  <2>1. PICK c \in Call : HandleResponse(w, c)
    BY <1>3 DEF ReceiveLoop
  <2> QED BY <1>1, <2>1, HandlerMoves, HandlerSends
<1>4. CASE ByeLoop \/ \E c \in InviteCall : ReinviteTask(c)
  BY <1>i, <1>1, <1>4 DEF ByeLoop, ReinviteTask, CollectForBye, SendBye, NoteBye, SendReinvite,
                          NoteReinvite, wireVars
<1>5. CASE FarEnd
  BY <1>i, <1>1, <1>5 DEF FarEnd, Challenge, Reject, Register, UasInvite, UasAck, UasBye, wireVars
<1>6. CASE Orchestrator
  BY <1>1, <1>6 DEF Orchestrator, Drain, Drained, CleanUp, CountRemoved, NextStep, ShutDown,
                    Exit, ForceRemove, CountForced, ShutDownBye, ShutDownRemove, ShutDownCount,
                    wireVars
<1>7. CASE UNCHANGED vars
  BY <1>1, <1>7 DEF vars, wireVars
<1> QED BY <1>2, <1>3, <1>4, <1>5, <1>6, <1>7 DEF Next

\* A call that is set up has been answered, and if credentials are asked for,
\* it has sent them.
SetupInv ==
  \A c \in InviteCall :
    /\ AuthRequired /\ "INVITE 200" \in responses[c] => Authorized(c) # {}
    /\ OnWire(c, {"REINVITE"}) => "INVITE 200" \in responses[c]
    /\ \A n \in CSeq : <<c, n>> \in updating \cup byeSent => "INVITE 200" \in responses[c]

LEMMA SetupStep ==
  ASSUME BaseInv, EndInv, SetupInv, [Next]_vars
  PROVE  SetupInv'
<1> USE DEF BaseInv
<1>i. InviteCall \subseteq Call
  BY DEF Call
<1>m. \A c \in InviteCall : /\ requests[c] \subseteq requests'[c]
                            /\ responses[c] \subseteq responses'[c]
                            /\ Authorized(c) \subseteq Authorized(c)'
  BY <1>i, WireMonotone DEF Authorized, RequestsOf
<1>1. ASSUME \A c \in InviteCall : "INVITE 200" \in responses'[c] => "INVITE 200" \in responses[c],
             \A c \in InviteCall :
               OnWire(c, {"REINVITE"})' => OnWire(c, {"REINVITE"}) \/ c \in Confirmed,
             \A c \in InviteCall, n \in CSeq : <<c, n>> \in updating' \cup byeSent' =>
               \/ <<c, n>> \in updating \cup byeSent \/ c \in Confirmed
               \/ \E k \in CSeq : <<c, k>> \in batch
      PROVE  SetupInv'
  <2>1. \A c \in InviteCall : c \in Confirmed \/ (\E k \in CSeq : <<c, k>> \in batch)
                                => "INVITE 200" \in responses[c]
    BY <1>i DEF EndInv
  <2>2. \A c \in InviteCall : AuthRequired /\ "INVITE 200" \in responses'[c] => Authorized(c)' # {}
    BY <1>1, <1>m DEF SetupInv
  <2>3. \A c \in InviteCall : OnWire(c, {"REINVITE"})' => "INVITE 200" \in responses'[c]
    BY <1>1, <1>m, <2>1 DEF SetupInv
  <2>4. \A c \in InviteCall, n \in CSeq :
          <<c, n>> \in updating' \cup byeSent' => "INVITE 200" \in responses'[c]
    BY <1>1, <1>m, <2>1 DEF SetupInv
  <2> QED BY <2>2, <2>3, <2>4 DEF SetupInv
<1>2. ASSUME UNCHANGED <<responses, updating, byeSent>>,
             \/ UNCHANGED requests
             \/ \E c \in Call : \E n : \E r \in Request \ {"REINVITE"} : Transmit(c, r, n)
      PROVE  SetupInv'
  <2>1. \A c \in InviteCall : OnWire(c, {"REINVITE"})' => OnWire(c, {"REINVITE"})
    <3>1. CASE UNCHANGED requests
      BY <3>1 DEF OnWire
    <3>2. ASSUME NEW c \in Call, NEW n, NEW r \in Request \ {"REINVITE"}, Transmit(c, r, n)
          PROVE  \A d \in InviteCall : OnWire(d, {"REINVITE"})' => OnWire(d, {"REINVITE"})
      BY <1>i, <3>2, WireGrows
    <3> QED BY <1>2, <3>1, <3>2
  <2> QED BY <1>1, <1>2, <2>1
<1>3. ASSUME NEW c \in Call, SendTask(c)
      PROVE  SetupInv'
  BY <1>2, <1>3 DEF SendTask, StartCall, InsertDialog, SendRequest, wireVars, Request
<1>4. ASSUME NEW w \in Receiver, ReceiveLoop(w)
      PROVE  SetupInv'
  <2>1. PICK c \in Call : HandleResponse(w, c)
    BY <1>4 DEF ReceiveLoop
  <2>2. UNCHANGED <<responses, updating, byeSent>>
    BY <2>1, HandlerMoves
  <2>3. {"ACK", AuthMethod(c)} \subseteq Request \ {"REINVITE"}
    BY DEF AuthMethod, Request
  <2> QED BY <1>2, <2>1, <2>2, <2>3, HandlerSends
<1>5. CASE ByeLoop
  <2>1. ASSUME NEW due \in SUBSET InviteCall, CollectForBye(due)
        PROVE  SetupInv'
    BY <1>2, <2>1 DEF CollectForBye, wireVars
  <2>2. ASSUME NEW c \in InviteCall, NEW n \in CSeq, SendBye(c, n)
        PROVE  SetupInv'
    <3>1. /\ UNCHANGED <<responses, updating>> /\ byeSent' = {<<c, n + 1>>}
          /\ <<c, n>> \in batch /\ Transmit(c, "BYE", n + 1)
      BY <2>2 DEF SendBye
    <3>2. \A d \in InviteCall : OnWire(d, {"REINVITE"})' => OnWire(d, {"REINVITE"})
      BY <1>i, <3>1, WireGrows
    <3> QED BY <1>1, <3>1, <3>2
  <2>3. ASSUME NEW c \in InviteCall, NEW n \in CSeq, NoteBye(c, n)
        PROVE  SetupInv'
    <3>1. UNCHANGED <<responses, updating, requests>> /\ byeSent' = {}
      BY <2>3 DEF NoteBye, wireVars
    <3> QED BY <1>1, <3>1 DEF OnWire
  <2> QED BY <1>5, <2>1, <2>2, <2>3 DEF ByeLoop
<1>6. ASSUME NEW c \in InviteCall, ReinviteTask(c)
      PROVE  SetupInv'
  <2>1. CASE SendReinvite(c)
    <3>1. UNCHANGED <<responses, byeSent>>
      BY <2>1 DEF SendReinvite
    <3>2. CASE /\ c \in Confirmed
               /\ Transmit(c, "REINVITE", dialog[c].cseq + 1)
               /\ updating' = updating \cup {<<c, dialog[c].cseq + 1>>}
      <4>1. \A d \in InviteCall : OnWire(d, {"REINVITE"})' => OnWire(d, {"REINVITE"}) \/ d = c
        BY <1>i, <3>2, WireGrows
      <4> QED BY <1>1, <3>1, <3>2, <4>1
    <3>3. CASE UNCHANGED <<requests, updating>>
      BY <1>2, <3>1, <3>3
    <3> QED BY <2>1, <3>2, <3>3 DEF SendReinvite
  <2>2. ASSUME NEW n \in CSeq, NoteReinvite(c, n)
        PROVE  SetupInv'
    <3>1. UNCHANGED <<responses, byeSent, requests>> /\ updating' \subseteq updating
      BY <2>2 DEF NoteReinvite, wireVars
    <3> QED BY <1>1, <3>1 DEF OnWire
  <2> QED BY <1>6, <2>1, <2>2 DEF ReinviteTask
<1>7. CASE FarEnd
  <2>1. UNCHANGED <<requests, updating, byeSent>>
    BY <1>7 DEF FarEnd, Challenge, Reject, Register, UasInvite, UasAck, UasBye, uacVars, wireVars
  <2>2. ASSUME \/ UNCHANGED responses
               \/ \E c \in Call : \E r \in Response \ {"INVITE 200"} : Reply(c, r)
        PROVE  SetupInv'
    <3>1. \A c \in InviteCall : "INVITE 200" \in responses'[c] => "INVITE 200" \in responses[c]
      <4>1. ASSUME NEW c \in Call, NEW r \in Response \ {"INVITE 200"}, Reply(c, r)
            PROVE  \A d \in Call : "INVITE 200" \in responses'[d] => "INVITE 200" \in responses[d]
        <5>1. /\ \A d \in Call : d # c => responses'[d] = responses[d]
              /\ responses'[c] = responses[c] \cup {r}
          BY <4>1, ReplyGrows
        <5>2. "INVITE 200" \in responses'[c] => "INVITE 200" \in responses[c]
          BY <5>1
        <5> QED BY <5>1, <5>2
      <4>2. CASE UNCHANGED responses
        BY <4>2
      <4> QED BY <1>i, <2>2, <4>1, <4>2
    <3> QED BY <1>1, <2>1, <3>1 DEF OnWire
  <2>3. ASSUME NEW c \in InviteCall, UasInvite(c)
        PROVE  SetupInv'
    <3>1. AuthRequired => Authorized(c) # {}
      <4>1. AuthRequired => OnWire(c, {"AuthINVITE", "REINVITE"})
        BY <2>3 DEF UasInvite
      <4>2. OnWire(c, {"AuthINVITE"}) => Authorized(c) # {}
        BY DEF OnWire, Authorized, RequestsOf
      <4>3. OnWire(c, {"REINVITE"}) /\ AuthRequired => Authorized(c) # {}
        BY DEF SetupInv
      <4> QED BY <4>1, <4>2, <4>3 DEF OnWire
    <3>2. CASE Reply(c, "INVITE 200")
      <4>1. \A d \in InviteCall : "INVITE 200" \in responses'[d] =>
                                    "INVITE 200" \in responses[d] \/ d = c
        <5>1. c \in Call
          BY <1>i
        <5>2. \A d \in Call : d # c => responses'[d] = responses[d]
          BY <3>2, <5>1, ReplyGrows
        <5> QED BY <1>i, <5>2
      <4>2. \A d \in InviteCall : AuthRequired /\ "INVITE 200" \in responses'[d]
                                    => Authorized(d)' # {}
        BY <1>m, <3>1, <4>1 DEF SetupInv
      <4> QED BY <1>m, <2>1, <4>2 DEF SetupInv, OnWire
    <3>3. CASE UNCHANGED responses
      BY <2>2, <3>3
    <3> QED BY <2>3, <3>2, <3>3 DEF UasInvite
  <2>4. ASSUME NEW c \in Call, Challenge(c) \/ Reject(c) \/ Register(c)
        PROVE  SetupInv'
    BY <2>2, <2>4 DEF Challenge, Reject, Register, Response
  <2>5. ASSUME NEW c \in InviteCall, UasAck(c) \/ UasBye(c)
        PROVE  SetupInv'
    BY <1>i, <2>2, <2>5 DEF UasAck, UasBye, Response, wireVars
  <2> QED BY <1>7, <2>3, <2>4, <2>5 DEF FarEnd
<1>8. CASE Orchestrator
  BY <1>2, <1>8 DEF Orchestrator, Drain, Drained, CleanUp, CountRemoved, NextStep, ShutDown,
                    Exit, ForceRemove, CountForced, ShutDownBye, ShutDownRemove, ShutDownCount,
                    uacVars, wireVars, Request
<1>9. CASE UNCHANGED vars
  BY <1>2, <1>9 DEF vars, uacVars, wireVars
<1> QED BY <1>3, <1>4, <1>5, <1>6, <1>7, <1>8, <1>9 DEF Next

LEMMA SetupHolds == Spec => []SetupInv
<1>1. Init => SetupInv
  BY DEF Init, SetupInv, OnWire, Call
<1> QED BY <1>1, BaseHolds, EndHolds, SetupStep, PTL DEF Spec

\* With one receive loop, a challenge that is being answered is about a call
\* that has not sent its credentials.
SoloInv ==
  Cardinality(Receiver) = 1 =>
    \A c \in Call : Resending(c) # {} /\ c \in Present => Unauthorized(c)

LEMMA FieldsKeepUnauthorized ==
  ASSUME TypeInv, NEW c \in Present, NEW s \in State, NEW n,
         \/ dialog' = [dialog EXCEPT ![c].state = s]
         \/ dialog' = [dialog EXCEPT ![c].cseq = n]
         \/ dialog' = [dialog EXCEPT ![c].state = s, ![c].cseq = n]
  PROVE  Present' = Present /\ \A d \in Call : Unauthorized(d)' <=> Unauthorized(d)
<1>1. Present' = Present /\ \A d \in Call : d # c => dialog'[d] = dialog[d]
  BY FieldsKeepPresent
<1>2. c \in Call /\ dialog[c] \in Dialog /\ dialog \in [Call -> Dialog \cup {NoDialog}]
  BY PresentTypes DEF TypeInv
<1>3. dialog[c] = [state |-> dialog[c].state, cseq |-> dialog[c].cseq, auth |-> dialog[c].auth]
  BY <1>2 DEF Dialog
<1>4. dialog'[c].auth = dialog[c].auth
  <2>1. CASE dialog' = [dialog EXCEPT ![c].state = s, ![c].cseq = n]
    <3>1. dialog'[c] = [dialog[c] EXCEPT !.state = s, !.cseq = n]
      BY <1>2, <2>1
    <3> QED BY <1>3, <3>1
  <2>2. CASE dialog' = [dialog EXCEPT ![c].state = s]
    BY <1>2, <2>2 DEF Dialog
  <2>3. CASE dialog' = [dialog EXCEPT ![c].cseq = n]
    BY <1>2, <2>3 DEF Dialog
  <2> QED BY <2>1, <2>2, <2>3
<1> QED BY <1>1, <1>4 DEF Unauthorized

LEMMA SoloStep ==
  ASSUME BaseInv, SoloInv, [Next]_vars
  PROVE  SoloInv'
<1> USE DEF BaseInv
<1> SUFFICES ASSUME Cardinality(Receiver) = 1
             PROVE  \A c \in Call : Resending(c)' # {} /\ c \in Present' => Unauthorized(c)'
  BY DEF SoloInv
<1>s. \A c \in Call : Resending(c) # {} /\ c \in Present => Unauthorized(c)
  BY DEF SoloInv
<1>h. handling \in [Receiver -> {Free} \cup Call \X (Response \cup Point)]
  BY DEF TypeInv
<1>1. ASSUME \A c \in Call : Resending(c)' \subseteq Resending(c),
             \A c \in Call : c \in Present' =>
               c \in Present /\ (Unauthorized(c) => Unauthorized(c)')
      PROVE  \A c \in Call : Resending(c)' # {} /\ c \in Present' => Unauthorized(c)'
  BY <1>s, <1>1
<1>2. ASSUME UNCHANGED handling
      PROVE  \A c \in Call : Resending(c)' = Resending(c)
  BY <1>2 DEF Resending
<1>3. CASE UNCHANGED <<handling, dialog>>
  BY <1>1, <1>2, <1>3 DEF Present, Unauthorized
<1>4. ASSUME NEW c \in Call, SendTask(c)
      PROVE  \A d \in Call : Resending(d)' # {} /\ d \in Present' => Unauthorized(d)'
  <2>1. UNCHANGED handling
    BY <1>4 DEF SendTask, StartCall, InsertDialog, SendRequest
  <2>2. CASE StartCall(c)
    BY <1>3, <2>1, <2>2 DEF StartCall
  <2>3. CASE InsertDialog(c)
    <3>1. /\ \A d \in Call : d # c => dialog'[d] = dialog[d]
          /\ c \in Present' => Unauthorized(c)'
      BY <2>3 DEF InsertDialog, TypeInv, Unauthorized
    <3> QED BY <1>2, <1>s, <2>1, <3>1 DEF Unauthorized, Present
  <2>4. CASE SendRequest(c)
    <3>1. c \in Present /\ dialog' = [dialog EXCEPT ![c].state = "Trying"]
      BY <2>4 DEF SendRequest, SentInv, Present, NoDialog
    <3> QED BY <1>1, <1>2, <2>1, <3>1, FieldsKeepUnauthorized DEF State
  <2> QED BY <1>4, <2>2, <2>3, <2>4 DEF SendTask
<1>5. ASSUME NEW w \in Receiver, ReceiveLoop(w)
      PROVE  \A d \in Call : Resending(d)' # {} /\ d \in Present' => Unauthorized(d)'
  <2> PICK c \in Call : HandleResponse(w, c)
    BY <1>5 DEF ReceiveLoop
  <2>f. ASSUME handling' = [handling EXCEPT ![w] = Free]
        PROVE  \A d \in Call : Resending(d)' \subseteq Resending(d)
    BY <1>h, <2>f DEF Resending, Free
  <2>1. ASSUME NEW r \in Response, Receive(w, c, r)
        PROVE  \A d \in Call : Resending(d)' # {} /\ d \in Present' => Unauthorized(d)'
    <3>1. UNCHANGED dialog /\ handling' = [handling EXCEPT ![w] = <<c, r>>]
      BY <2>1 DEF Receive
    <3>2. \A d \in Call : Resending(d)' \subseteq Resending(d)
      BY <1>h, <3>1 DEF Resending, Response
    <3> QED BY <1>1, <3>1, <3>2 DEF Present, Unauthorized
  <2>2. CASE \/ CompleteCall(w, c) \/ RecordSuccess(w, c) \/ FailCall(w, c) \/ DropCall(w, c)
             \/ CountTaken(w, c) \/ CloseCall(w, c)
    <3>1. /\ UNCHANGED dialog \/ RemoveDialog(c)
          /\ \/ handling' = [handling EXCEPT ![w] = Free]
             \/ \E p \in Point : p # "resend" /\ handling' = [handling EXCEPT ![w] = <<c, p>>]
      BY <2>2 DEF CompleteCall, RecordSuccess, FailCall, DropCall, CountTaken, CloseCall, RemoveOwn,
                  Continue, Handle, Point
    <3>2. \A d \in Call : d \in Present' => d \in Present /\ (Unauthorized(d) => Unauthorized(d)')
      BY <3>1, RemovesOne DEF Unauthorized, Present
    <3>3. ASSUME NEW p \in Point, p # "resend", handling' = [handling EXCEPT ![w] = <<c, p>>]
          PROVE  \A d \in Call : Resending(d)' \subseteq Resending(d)
      BY <1>h, <3>3 DEF Resending
    <3> QED BY <1>1, <2>f, <3>1, <3>2, <3>3
  <2>3. CASE ConfirmCall(w, c) \/ FailChallenge(w, c)
    <3>1. handling' = [handling EXCEPT ![w] = Free]
      BY <2>3 DEF ConfirmCall, FailChallenge, Handle
    <3>2. UNCHANGED dialog
          \/ (c \in Present /\ \E s \in State : dialog' = [dialog EXCEPT ![c].state = s])
      BY <2>3 DEF ConfirmCall, FailChallenge, State
    <3>3. \A d \in Call : d \in Present' => d \in Present /\ (Unauthorized(d) => Unauthorized(d)')
      BY <3>2, FieldsKeepUnauthorized DEF Unauthorized, Present
    <3> QED BY <1>1, <2>f, <3>1, <3>3
  <2>4. CASE AcceptChallenge(w, c)
    <3>1. /\ UNCHANGED dialog /\ handling' = [handling EXCEPT ![w] = <<c, "resend">>]
          /\ c \in Present /\ ~dialog[c].auth
      BY <2>4 DEF AcceptChallenge, Continue
    <3>2. Unauthorized(c)
      BY <3>1, PresentTypes DEF Dialog, Unauthorized
    <3>3. \A d \in Call : d # c => Resending(d)' \subseteq Resending(d)
      BY <1>h, <3>1 DEF Resending
    <3> QED BY <1>s, <3>1, <3>2, <3>3 DEF Unauthorized, Present
  <2>5. CASE AnswerChallenge(w, c)
    <3>1. handling[w] = <<c, "resend">> /\ handling' = [handling EXCEPT ![w] = Free]
      BY <2>5 DEF AnswerChallenge, Handle
    <3>2. Receiver = {w}
      <4>1. PICK v : Receiver = {v}
        BY CallsAssumption, FS_Singleton DEF CallsAssumption
      <4> QED BY <4>1
    <3>3. Resending(c)' = {}
      BY <1>h, <3>1, <3>2 DEF Resending, Free
    <3>4. \A d \in Call : d # c => dialog'[d] = dialog[d]
      BY <2>5 DEF AnswerChallenge, TypeInv
    <3> QED BY <1>s, <2>f, <3>1, <3>3, <3>4 DEF Unauthorized, Present
  <2> QED BY <2>1, <2>2, <2>3, <2>4, <2>5 DEF HandleResponse
<1>6. CASE ByeLoop \/ \E c \in InviteCall : ReinviteTask(c)
  <2>1. UNCHANGED handling
    BY <1>6 DEF ByeLoop, ReinviteTask, CollectForBye, SendBye, NoteBye, SendReinvite, NoteReinvite
  <2>2. ASSUME NEW c \in InviteCall, NEW n \in CSeq, NoteBye(c, n) \/ NoteReinvite(c, n)
        PROVE  \A d \in Call : Resending(d)' # {} /\ d \in Present' => Unauthorized(d)'
    <3>1. \/ UNCHANGED dialog
          \/ /\ c \in Present
             /\ \/ dialog' = [dialog EXCEPT ![c].cseq = n]
                \/ dialog' = [dialog EXCEPT ![c].state = "Trying", ![c].cseq = n]
      BY <2>2 DEF NoteBye, NoteReinvite
    <3>2. CASE UNCHANGED dialog
      BY <1>3, <2>1, <3>2
    <3>3. CASE ~UNCHANGED dialog
      BY <1>1, <1>2, <2>1, <3>1, <3>3, FieldsKeepUnauthorized DEF State
    <3> QED BY <3>2, <3>3
  <2>3. CASE UNCHANGED dialog
    BY <1>3, <2>1, <2>3
  <2> QED BY <1>6, <2>2, <2>3 DEF ByeLoop, ReinviteTask, CollectForBye, SendBye, SendReinvite
<1>7. CASE FarEnd
  BY <1>3, <1>7 DEF FarEnd, Challenge, Reject, Register, UasInvite, UasAck, UasBye, uacVars
<1>8. CASE Orchestrator
  <2>1. UNCHANGED handling
    BY <1>8, OrchestratorEffect
  <2>2. ASSUME NEW c \in Call, RemoveDialog(c)
        PROVE  \A d \in Call : Resending(d)' # {} /\ d \in Present' => Unauthorized(d)'
    <3>1. \A d \in Call : d \in Present' => d \in Present /\ (Unauthorized(d) => Unauthorized(d)')
      BY <2>2, RemovesOne DEF Unauthorized, Present
    <3> QED BY <1>1, <1>2, <2>1, <3>1
  <2>3. UNCHANGED dialog \/ \E c \in Call : RemoveDialog(c)
    BY <1>8 DEF Orchestrator, Drain, Drained, CleanUp, CountRemoved, NextStep, ShutDown, Exit,
                ForceRemove, CountForced, ShutDownBye, ShutDownRemove, ShutDownCount, uacVars
  <2> QED BY <1>3, <2>1, <2>2, <2>3
<1>9. CASE UNCHANGED vars
  BY <1>3, <1>9 DEF vars, uacVars
<1> QED BY <1>4, <1>5, <1>6, <1>7, <1>8, <1>9 DEF Next

LEMMA SoloHolds == Spec => []SoloInv
<1>1. Init => SoloInv
  BY DEF Init, SoloInv, Present
<1> QED BY <1>1, BaseHolds, SoloStep, PTL DEF Spec
Invites(c) == RequestsOf(c, {"INVITE", "AuthINVITE"})
Byes(c) == RequestsOf(c, {"BYE"})
Noted == batch \cup updating \cup byeSent

\* Every number a task still holds for a call is as high as those of its INVITEs.
Numbered(c) ==
  \A q \in Invites(c) :
    /\ c \in Present => dialog[c].cseq >= q[2]
    /\ \A n \in CSeq : <<c, n>> \in Noted => n >= q[2]
    /\ \A b \in Byes(c) : b[2] > q[2]

NumberInv == Cardinality(Receiver) = 1 => \A c \in InviteCall : Numbered(c)

LEMMA NumberTypes ==
  ASSUME TypeInv, NEW c \in InviteCall
  PROVE  /\ \A q \in Invites(c) \cup Byes(c) : q[2] \in Nat
         /\ c \in Present => dialog[c].cseq \in Nat
         /\ CSeq \subseteq Nat
<1>1. CSeq \subseteq Nat
  BY CallsAssumption DEF CSeq, CallsAssumption
<1>2. requests[c] \subseteq Request \X CSeq
  BY DEF TypeInv, Call
<1>3. c \in Present => dialog[c].cseq \in CSeq
  BY PresentTypes DEF Dialog
<1> QED BY <1>1, <1>2, <1>3 DEF Invites, Byes, RequestsOf

\* A step that sends no INVITE, by where its numbers come from.
LEMMA NumberedKept ==
  ASSUME BaseInv, BaseInv', NEW c \in InviteCall, Numbered(c),
         Invites(c)' \subseteq Invites(c),
         c \in Present' =>
           \/ requests[c] = {}
           \/ c \in Present /\ dialog'[c].cseq >= dialog[c].cseq
           \/ \E n \in CSeq : <<c, n>> \in Noted /\ dialog'[c].cseq = n,
         \A n \in CSeq : <<c, n>> \in Noted' =>
           \/ <<c, n>> \in Noted
           \/ c \in Present /\ n >= dialog[c].cseq
           \/ \E m \in CSeq : <<c, m>> \in Noted /\ n = m + 1,
         \A b \in Byes(c)' :
           \/ b \in Byes(c)
           \/ c \in Present /\ b[2] = dialog[c].cseq + 1
           \/ \E m \in CSeq : <<c, m>> \in Noted /\ b[2] = m + 1
  PROVE  Numbered(c)'
<1> SUFFICES ASSUME NEW q \in Invites(c)'
             PROVE  /\ c \in Present' => dialog'[c].cseq >= q[2]
                    /\ \A n \in CSeq : <<c, n>> \in Noted' => n >= q[2]
                    /\ \A b \in Byes(c)' : b[2] > q[2]
  BY DEF Numbered
<1>1. /\ q \in Invites(c) /\ q[2] \in Nat /\ CSeq \subseteq Nat
      /\ c \in Present => dialog[c].cseq \in Nat
      /\ \A b \in Byes(c) : b[2] \in Nat
  BY NumberTypes DEF BaseInv
<1>2. c \in Present => dialog[c].cseq >= q[2]
  BY <1>1 DEF Numbered
<1>3. \A n \in CSeq : <<c, n>> \in Noted => n >= q[2]
  BY <1>1 DEF Numbered
<1>4. \A b \in Byes(c) : b[2] > q[2]
  BY <1>1 DEF Numbered
<1>5. requests[c] # {}
  BY <1>1 DEF Invites, RequestsOf
<1>6. ASSUME c \in Present'
      PROVE  dialog'[c].cseq >= q[2]
  <2>1. dialog'[c].cseq \in Nat
    <3>1. dialog' \in [Call -> Dialog \cup {NoDialog}] /\ dialog'[c] # NoDialog /\ c \in Call
      BY <1>6 DEF BaseInv, TypeInv, Present, Call
    <3>2. dialog'[c] \in Dialog
      BY <3>1
    <3> QED BY <1>1, <3>2 DEF Dialog
  <2>2. CASE c \in Present /\ dialog'[c].cseq >= dialog[c].cseq
    BY <1>1, <1>2, <2>1, <2>2, SMT
  <2>3. CASE \E n \in CSeq : <<c, n>> \in Noted /\ dialog'[c].cseq = n
    BY <1>3, <2>3
  <2> QED BY <1>5, <1>6, <2>2, <2>3
<1>7. ASSUME NEW n \in CSeq, <<c, n>> \in Noted'
      PROVE  n >= q[2]
  <2>1. CASE c \in Present /\ n >= dialog[c].cseq
    BY <1>1, <1>2, <2>1, SMT
  <2>2. ASSUME NEW m \in CSeq, <<c, m>> \in Noted, n = m + 1
        PROVE  n >= q[2]
    BY <1>1, <1>3, <2>2, SMT
  <2> QED BY <1>3, <1>7, <2>1, <2>2
<1>8. ASSUME NEW b \in Byes(c)'
      PROVE  b[2] > q[2]
  <2>1. CASE c \in Present /\ b[2] = dialog[c].cseq + 1
    BY <1>1, <1>2, <2>1, SMT
  <2>2. ASSUME NEW m \in CSeq, <<c, m>> \in Noted, b[2] = m + 1
        PROVE  b[2] > q[2]
    BY <1>1, <1>3, <2>2, SMT
  <2> QED BY <1>4, <1>8, <2>1, <2>2
<1> QED BY <1>6, <1>7, <1>8

LEMMA NumberWire ==
  ASSUME TypeInv, NEW c \in Call, NEW r, NEW n, Transmit(c, r, n)
  PROVE  /\ \A d \in Call : d # c => Invites(d)' = Invites(d) /\ Byes(d)' = Byes(d)
         /\ r \notin {"INVITE", "AuthINVITE"} => Invites(c)' = Invites(c)
         /\ Invites(c)' \subseteq Invites(c) \cup {<<r, n>>}
         /\ r # "BYE" => Byes(c)' = Byes(c)
         /\ Byes(c)' \subseteq Byes(c) \cup {<<r, n>>}
<1>1. /\ requests'[c] = requests[c] \cup {<<r, n>>}
      /\ \A d \in Call : d # c => requests'[d] = requests[d]
  BY TransmitGrows
<1>2. <<r, n>>[1] = r
  OBVIOUS
<1>3. \A d \in Call : d # c => Invites(d)' = Invites(d) /\ Byes(d)' = Byes(d)
  BY <1>1 DEF Invites, Byes, RequestsOf
<1>4. /\ r \notin {"INVITE", "AuthINVITE"} => Invites(c)' = Invites(c)
      /\ Invites(c)' \subseteq Invites(c) \cup {<<r, n>>}
  BY <1>1, <1>2 DEF Invites, RequestsOf
<1>5. /\ r # "BYE" => Byes(c)' = Byes(c)
      /\ Byes(c)' \subseteq Byes(c) \cup {<<r, n>>}
  BY <1>1, <1>2 DEF Byes, RequestsOf
<1> QED BY <1>3, <1>4, <1>5

\* What the assignments to its fields do to the number of a dialog.
LEMMA FieldNumbers ==
  ASSUME TypeInv, NEW c \in Present, NEW s \in State, NEW n
  PROVE  /\ dialog' = [dialog EXCEPT ![c].state = s] => dialog'[c].cseq = dialog[c].cseq
         /\ dialog' = [dialog EXCEPT ![c].cseq = n] => dialog'[c].cseq = n
         /\ dialog' = [dialog EXCEPT ![c].state = s, ![c].cseq = n] => dialog'[c].cseq = n
         /\ dialog' = [dialog EXCEPT ![c].auth = TRUE, ![c].cseq = n] => dialog'[c].cseq = n
<1>1. c \in Call /\ dialog[c] \in Dialog /\ dialog \in [Call -> Dialog \cup {NoDialog}]
  BY PresentTypes DEF TypeInv
<1>2. dialog[c] = [state |-> dialog[c].state, cseq |-> dialog[c].cseq, auth |-> dialog[c].auth]
  BY <1>1 DEF Dialog
<1>3. ASSUME dialog' = [dialog EXCEPT ![c].state = s]
      PROVE  dialog'[c].cseq = dialog[c].cseq
  <2>1. dialog'[c] = [dialog[c] EXCEPT !.state = s]
    BY <1>1, <1>3
  <2> QED BY <1>2, <2>1
<1>4. ASSUME dialog' = [dialog EXCEPT ![c].cseq = n]
      PROVE  dialog'[c].cseq = n
  <2>1. dialog'[c] = [dialog[c] EXCEPT !.cseq = n]
    BY <1>1, <1>4
  <2> QED BY <1>2, <2>1
<1>5. ASSUME dialog' = [dialog EXCEPT ![c].state = s, ![c].cseq = n]
      PROVE  dialog'[c].cseq = n
  <2>1. dialog'[c] = [dialog[c] EXCEPT !.state = s, !.cseq = n]
    BY <1>1, <1>5
  <2> QED BY <1>2, <2>1
<1>6. ASSUME dialog' = [dialog EXCEPT ![c].auth = TRUE, ![c].cseq = n]
      PROVE  dialog'[c].cseq = n
  <2>1. dialog'[c] = [dialog[c] EXCEPT !.auth = TRUE, !.cseq = n]
    BY <1>1, <1>6
  <2> QED BY <1>2, <2>1
<1> QED BY <1>3, <1>4, <1>5, <1>6

\* A step that does not touch the numbers of a call, or removes its dialog.
LEMMA NumberedSame ==
  ASSUME BaseInv, BaseInv', NEW c \in InviteCall, Numbered(c),
         Invites(c)' = Invites(c), Byes(c)' = Byes(c),
         c \in Present' => dialog'[c].cseq = dialog[c].cseq /\ c \in Present,
         \A n \in CSeq : <<c, n>> \in Noted' => <<c, n>> \in Noted
  PROVE  Numbered(c)'
<1>1. c \in Present' => dialog'[c].cseq >= dialog[c].cseq /\ c \in Present
  BY NumberTypes, SMT DEF BaseInv
<1> QED BY <1>1, NumberedKept

LEMMA NumberSender ==
  ASSUME BaseInv, BaseInv', NEW c \in Call, SendTask(c), NEW d \in InviteCall, Numbered(d)
  PROVE  Numbered(d)'
<1> USE DEF BaseInv
<1>d. d \in Call
  BY DEF Call
<1>1. UNCHANGED Noted
  BY DEF SendTask, StartCall, InsertDialog, SendRequest, Noted
<1>2. CASE StartCall(c)
  BY <1>1, <1>2, NumberedSame DEF StartCall, wireVars, Invites, Byes, RequestsOf, Present
<1>3. CASE InsertDialog(c)
  <2>1. /\ UNCHANGED requests /\ requests[c] = {}
        /\ d # c => dialog'[d] = dialog[d]
    BY <1>3, <1>d DEF InsertDialog, SentInv, wireVars, TypeInv
  <2>2. CASE d = c
    BY <1>1, <2>1, <2>2, NumberedKept DEF Invites, Byes, RequestsOf
  <2>3. CASE d # c
    BY <1>1, <1>d, <2>1, <2>3, NumberedSame DEF Invites, Byes, RequestsOf, Present
  <2> QED BY <2>2, <2>3
<1>4. CASE SendRequest(c)
  <2>1. /\ Transmit(c, IF c \in InviteCall THEN "INVITE" ELSE "REGISTER", 1)
        /\ c \in Present /\ dialog' = [dialog EXCEPT ![c].state = "Trying"]
        /\ requests[c] = {} /\ sender[c] # "done" /\ dialog[c].cseq = 1
    BY <1>4 DEF SendRequest, SentInv, Present, NoDialog
  <2>2. CASE d # c
    <3>1. Invites(d)' = Invites(d) /\ Byes(d)' = Byes(d) /\ dialog'[d] = dialog[d]
      BY <1>d, <2>1, <2>2, NumberWire DEF TypeInv
    <3> QED BY <1>1, <1>d, <2>2, <3>1, NumberedSame DEF Present
  <2>3. CASE d = c
    <3>1. Invites(c)' \subseteq {<<"INVITE", 1>>} /\ Byes(c)' = {}
      <4>1. Invites(c) = {} /\ Byes(c) = {}
        BY <2>1 DEF Invites, Byes, RequestsOf
      <4> QED BY <2>1, <2>3, <4>1, NumberWire
    <3>2. dialog'[c].cseq = 1
      BY <2>1, FieldNumbers DEF State
    <3>3. \A n \in CSeq : <<c, n>> \notin Noted'
      BY <1>1, <2>1, <2>3 DEF Noted, SentInv
    <3>4. \A q \in Invites(c)' : q[2] = 1
      BY <3>1
    <3> QED BY <2>3, <3>1, <3>2, <3>3, <3>4, SMT DEF Numbered
  <2> QED BY <2>2, <2>3
<1> QED BY <1>2, <1>3, <1>4 DEF SendTask

LEMMA NumberReceiver ==
  ASSUME BaseInv, BaseInv', NoChallenge, EndInv, SetupInv, SoloInv, ChallengeInv,
         Cardinality(Receiver) = 1, NEW w \in Receiver, ReceiveLoop(w),
         NEW d \in InviteCall, Numbered(d)
  PROVE  Numbered(d)'
<1> USE DEF BaseInv
<1>d. d \in Call
  BY DEF Call
<1> PICK c \in Call : HandleResponse(w, c)
  BY DEF ReceiveLoop
<1>1. UNCHANGED Noted
  BY HandlerMoves DEF Noted
<1>2. CASE UNCHANGED <<dialog, requests>>
  BY <1>1, <1>2, NumberedSame DEF Invites, Byes, RequestsOf, Present
<1>3. CASE UNCHANGED requests /\ RemoveDialog(c)
  <2>1. d \in Present' => d \in Present /\ dialog'[d] = dialog[d]
    BY <1>d, <1>3, RemovesOne DEF Present
  <2> QED BY <1>1, <1>3, <2>1, NumberedSame DEF Invites, Byes, RequestsOf
<1>4. CASE ConfirmCall(w, c) \/ FailChallenge(w, c)
  <2>1. \/ UNCHANGED dialog
        \/ c \in Present /\ \E s \in State : dialog' = [dialog EXCEPT ![c].state = s]
    BY <1>4 DEF ConfirmCall, FailChallenge, State
  <2>2. d \in Present' => d \in Present /\ dialog'[d].cseq = dialog[d].cseq
    <3>1. CASE UNCHANGED dialog
      BY <3>1 DEF Present
    <3>2. ASSUME c \in Present, NEW s \in State, dialog' = [dialog EXCEPT ![c].state = s]
          PROVE  d \in Present' => d \in Present /\ dialog'[d].cseq = dialog[d].cseq
      <4>1. Present' = Present /\ (d # c => dialog'[d] = dialog[d])
        BY <1>d, <3>2, FieldsKeepPresent
      <4>2. dialog'[c].cseq = dialog[c].cseq
        BY <3>2, FieldNumbers
      <4> QED BY <4>1, <4>2
    <3> QED BY <2>1, <3>1, <3>2
  <2>3. UNCHANGED requests \/ Transmit(c, "ACK", dialog[c].cseq)
    BY <1>4 DEF ConfirmCall, FailChallenge, wireVars
  <2>4. Invites(d)' = Invites(d) /\ Byes(d)' = Byes(d)
    <3>1. CASE UNCHANGED requests
      BY <3>1 DEF Invites, Byes, RequestsOf
    <3>2. CASE Transmit(c, "ACK", dialog[c].cseq)
      BY <1>d, <3>2, NumberWire
    <3> QED BY <2>3, <3>1, <3>2
  <2> QED BY <1>1, <2>2, <2>4, NumberedSame
<1>5. CASE AnswerChallenge(w, c) /\ c \in Present
  <2> DEFINE n == dialog[c].cseq + 1
  <2>0. dialog[c].cseq \in CSeq
    BY <1>5, PresentTypes DEF Dialog
  <2>1. /\ dialog' = [dialog EXCEPT ![c].auth = TRUE, ![c].cseq = n]
        /\ Transmit(c, AuthMethod(c), n) /\ handling[w] = <<c, "resend">>
    BY <1>5, PresentTypes DEF AnswerChallenge, Handle, Dialog, TypeInv
  <2> HIDE DEF n
  <2>2. CASE d # c
    <3>1. Invites(d)' = Invites(d) /\ Byes(d)' = Byes(d) /\ dialog'[d] = dialog[d]
      BY <1>d, <2>1, <2>2, NumberWire DEF TypeInv
    <3> QED BY <1>1, <1>d, <2>2, <3>1, NumberedSame DEF Present
  <2>3. CASE d = c
    <3>1. "INVITE 200" \notin responses[c]
      <4>1. AuthRequired
        BY <2>1, HandledSent DEF NoChallenge, Point
      <4>2. Unauthorized(c)
        BY <1>5, <2>1 DEF SoloInv, Resending
      <4>3. Authorized(c) = {}
        BY <4>2 DEF ChallengeInv
      <4> QED BY <2>3, <4>1, <4>3 DEF SetupInv
    <3>2. \A m \in CSeq : <<c, m>> \notin Noted
      BY <2>3, <3>1 DEF Noted, SetupInv, EndInv
    <3>3. Byes(c) = {}
      <4>1. ~OnWire(c, {"BYE"})
        BY <3>1 DEF EndInv
      <4> QED BY <4>1 DEF Byes, RequestsOf, OnWire
    <3>4. Byes(c)' = {} /\ Invites(c)' \subseteq Invites(c) \cup {<<AuthMethod(c), n>>}
      BY <2>1, <3>3, NumberWire DEF AuthMethod
    <3>5. dialog'[c].cseq = n
      BY <1>5, <2>1, FieldNumbers DEF State
    <3>6. \A q \in Invites(c) : q[2] \in Nat /\ dialog[c].cseq >= q[2]
      BY <1>5, <2>3, NumberTypes DEF Numbered
    <3>7. \A q \in Invites(c)' : n >= q[2]
      <4>1. n \in Nat /\ n = dialog[c].cseq + 1 /\ dialog[c].cseq \in Nat
        BY <1>5, <2>3, NumberTypes, SMT DEF n
      <4>2. <<AuthMethod(c), n>>[2] = n
        OBVIOUS
      <4>3. \A q \in Invites(c) : n >= q[2]
        BY <3>6, <4>1, SMT
      <4>4. n >= n
        BY <4>1, SMT
      <4> QED BY <3>4, <4>2, <4>3, <4>4
    <3> QED BY <1>1, <2>3, <3>2, <3>4, <3>5, <3>7 DEF Numbered
  <2> QED BY <2>2, <2>3
<1>6. CASE AnswerChallenge(w, c) /\ c \notin Present
  BY <1>2, <1>6 DEF AnswerChallenge
<1> QED BY <1>2, <1>3, <1>4, <1>5, <1>6, HandlerRest

LEMMA NumberLoops ==
  ASSUME BaseInv, BaseInv', NEW d \in InviteCall, Numbered(d),
         ByeLoop \/ \E c \in InviteCall : ReinviteTask(c)
  PROVE  Numbered(d)'
<1> USE DEF BaseInv
<1>d. d \in Call /\ InviteCall \subseteq Call
  BY DEF Call
<1>1. ASSUME NEW due \in SUBSET InviteCall, CollectForBye(due)
      PROVE  Numbered(d)'
  <2>1. /\ UNCHANGED <<dialog, requests, updating, byeSent>> /\ due \subseteq Present
        /\ batch' = {<<c, dialog[c].cseq>> : c \in due}
    BY <1>1 DEF CollectForBye, wireVars, Confirmed
  <2>2. \A n \in CSeq : <<d, n>> \in Noted' =>
          <<d, n>> \in Noted \/ (d \in Present /\ n >= dialog[d].cseq)
    <3>1. \A n \in CSeq : <<d, n>> \in batch' => d \in Present /\ n = dialog[d].cseq
      BY <2>1
    <3>2. \A n \in CSeq : n >= n
      BY NumberTypes, SMT
    <3> QED BY <2>1, <3>1, <3>2 DEF Noted
  <2>3. d \in Present' => d \in Present /\ dialog'[d].cseq >= dialog[d].cseq
    <3>1. d \in Present' => d \in Present /\ dialog'[d] = dialog[d]
      BY <2>1 DEF Present
    <3> QED BY <3>1, NumberTypes, SMT
  <2> QED BY <2>1, <2>2, <2>3, NumberedKept DEF Invites, Byes, RequestsOf
<1>2. ASSUME NEW c \in InviteCall, NEW n \in CSeq, SendBye(c, n)
      PROVE  Numbered(d)'
  <2>1. /\ UNCHANGED <<dialog, updating>> /\ Transmit(c, "BYE", n + 1)
        /\ batch' \subseteq batch /\ byeSent' = {<<c, n + 1>>} /\ <<c, n>> \in batch
    BY <1>2 DEF SendBye
  <2>2. d \in Present' => d \in Present /\ dialog'[d].cseq >= dialog[d].cseq
    <3>1. d \in Present' => d \in Present /\ dialog'[d] = dialog[d]
      BY <2>1 DEF Present
    <3> QED BY <3>1, NumberTypes, SMT
  <2>3. \A m \in CSeq : <<d, m>> \in Noted' =>
          <<d, m>> \in Noted \/ \E k \in CSeq : <<d, k>> \in Noted /\ m = k + 1
    BY <2>1 DEF Noted
  <2>4. /\ Invites(d)' = Invites(d)
        /\ \A b \in Byes(d)' : b \in Byes(d) \/ \E k \in CSeq : <<d, k>> \in Noted /\ b[2] = k + 1
    <3>1. CASE d # c
      BY <1>d, <2>1, <3>1, NumberWire
    <3>2. CASE d = c
      <4>1. Invites(c)' = Invites(c) /\ Byes(c)' \subseteq Byes(c) \cup {<<"BYE", n + 1>>}
        BY <1>d, <2>1, NumberWire
      <4> QED BY <2>1, <3>2, <4>1 DEF Noted
    <3> QED BY <3>1, <3>2
  <2> QED BY <2>2, <2>3, <2>4, NumberedKept
<1>3. ASSUME NEW c \in InviteCall, NEW n \in CSeq, NoteBye(c, n) \/ NoteReinvite(c, n)
      PROVE  Numbered(d)'
  <2>1. UNCHANGED requests /\ Noted' \subseteq Noted /\ <<c, n>> \in Noted
    BY <1>3 DEF NoteBye, NoteReinvite, wireVars, Noted
  <2>2. \/ UNCHANGED dialog
        \/ /\ c \in Present
           /\ \/ dialog' = [dialog EXCEPT ![c].cseq = n]
              \/ dialog' = [dialog EXCEPT ![c].state = "Trying", ![c].cseq = n]
    BY <1>3 DEF NoteBye, NoteReinvite
  <2>3. CASE UNCHANGED dialog \/ d # c
    <3>1. d \in Present' => d \in Present /\ dialog'[d] = dialog[d]
      <4>1. CASE UNCHANGED dialog
        BY <4>1 DEF Present
      <4>2. CASE d # c /\ ~UNCHANGED dialog
        BY <1>d, <2>2, <4>2, FieldsKeepPresent DEF State
      <4> QED BY <2>3, <4>1, <4>2
    <3> QED BY <2>1, <3>1, NumberedSame DEF Invites, Byes, RequestsOf
  <2>4. CASE ~UNCHANGED dialog /\ d = c
    <3>1. dialog'[c].cseq = n
      BY <2>2, <2>4, FieldNumbers DEF State
    <3> QED BY <2>1, <2>4, <3>1, NumberedKept DEF Invites, Byes, RequestsOf
  <2> QED BY <2>3, <2>4
<1>4. ASSUME NEW c \in InviteCall, SendReinvite(c)
      PROVE  Numbered(d)'
  <2>1. /\ UNCHANGED <<dialog, batch, byeSent>>
        /\ \/ UNCHANGED <<requests, updating>>
           \/ /\ c \in Present /\ Transmit(c, "REINVITE", dialog[c].cseq + 1)
              /\ updating' = updating \cup {<<c, dialog[c].cseq + 1>>}
    BY <1>4 DEF SendReinvite, Confirmed
  <2>2. d \in Present' => d \in Present /\ dialog'[d].cseq >= dialog[d].cseq
    <3>1. d \in Present' => d \in Present /\ dialog'[d] = dialog[d]
      BY <2>1 DEF Present
    <3> QED BY <3>1, NumberTypes, SMT
  <2>3. Invites(d)' = Invites(d) /\ Byes(d)' = Byes(d)
    <3>1. CASE UNCHANGED requests
      BY <3>1 DEF Invites, Byes, RequestsOf
    <3>2. CASE Transmit(c, "REINVITE", dialog[c].cseq + 1)
      BY <1>d, <3>2, NumberWire
    <3> QED BY <2>1, <3>1, <3>2
  <2>4. \A n \in CSeq : <<d, n>> \in Noted' =>
          <<d, n>> \in Noted \/ (d \in Present /\ n >= dialog[d].cseq)
    <3>1. \A n \in CSeq : <<d, n>> \in Noted' =>
            <<d, n>> \in Noted \/ (d \in Present /\ n = dialog[d].cseq + 1)
      BY <2>1 DEF Noted
    <3>2. d \in Present => dialog[d].cseq + 1 >= dialog[d].cseq
      BY NumberTypes, SMT
    <3> QED BY <3>1, <3>2
  <2> QED BY <2>2, <2>3, <2>4, NumberedKept
<1> QED BY <1>1, <1>2, <1>3, <1>4 DEF ByeLoop, ReinviteTask

LEMMA NumberOrchestrator ==
  ASSUME BaseInv, BaseInv', NEW d \in InviteCall, Numbered(d), Orchestrator
  PROVE  Numbered(d)'
<1> USE DEF BaseInv
<1>d. d \in Call
  BY DEF Call
<1>1. UNCHANGED Noted
  BY DEF Orchestrator, Drain, Drained, CleanUp, CountRemoved, NextStep, ShutDown, Exit,
         ForceRemove, CountForced, ShutDownBye, ShutDownRemove, ShutDownCount, uacVars, Noted
<1>2. CASE UNCHANGED <<dialog, requests>>
  BY <1>1, <1>2, NumberedSame DEF Invites, Byes, RequestsOf, Present
<1>3. ASSUME NEW c \in Call, UNCHANGED requests /\ RemoveDialog(c)
      PROVE  Numbered(d)'
  <2>1. d \in Present' => d \in Present /\ dialog'[d] = dialog[d]
    BY <1>d, <1>3, RemovesOne DEF Present
  <2> QED BY <1>1, <1>3, <2>1, NumberedSame DEF Invites, Byes, RequestsOf
<1>4. ASSUME NEW c \in Call, ShutDownBye(c)
      PROVE  Numbered(d)'
  <2>1. CASE c \in Present /\ Transmit(c, "BYE", dialog[c].cseq + 1) /\ UNCHANGED dialog
    <3>1. d \in Present' => d \in Present /\ dialog'[d].cseq >= dialog[d].cseq
      <4>1. d \in Present' => d \in Present /\ dialog'[d] = dialog[d]
        BY <2>1 DEF Present
      <4> QED BY <4>1, NumberTypes, SMT
    <3>2. /\ Invites(d)' = Invites(d)
          /\ \A b \in Byes(d)' : b \in Byes(d) \/ (d \in Present /\ b[2] = dialog[d].cseq + 1)
      <4>1. CASE d # c
        BY <1>d, <2>1, <4>1, NumberWire
      <4>2. CASE d = c
        <5>1. Invites(c)' = Invites(c)
              /\ Byes(c)' \subseteq Byes(c) \cup {<<"BYE", dialog[c].cseq + 1>>}
          BY <2>1, NumberWire
        <5> QED BY <2>1, <4>2, <5>1
      <4> QED BY <4>1, <4>2
    <3> QED BY <1>1, <3>1, <3>2, NumberedKept
  <2> QED BY <1>2, <1>4, <2>1 DEF ShutDownBye, Confirmed, uacVars
<1>5. ASSUME NEW c \in Call,
             ForceRemove(c) \/ CountForced(c) \/ ShutDownRemove(c) \/ ShutDownCount(c)
      PROVE  UNCHANGED requests /\ (UNCHANGED dialog \/ RemoveDialog(c))
  BY <1>5 DEF ForceRemove, CountForced, ShutDownRemove, ShutDownCount, wireVars
<1> QED BY <1>2, <1>3, <1>4, <1>5 DEF Orchestrator, Drain, Drained, CleanUp, CountRemoved,
           NextStep, ShutDown, Exit, uacVars, wireVars

LEMMA NumberStep ==
  ASSUME BaseInv, BaseInv', NoChallenge, EndInv, SetupInv, SoloInv, ChallengeInv, NumberInv,
         [Next]_vars
  PROVE  NumberInv'
<1> SUFFICES ASSUME Cardinality(Receiver) = 1, NEW d \in InviteCall
             PROVE  Numbered(d)'
  BY DEF NumberInv
<1>1. Numbered(d)
  BY DEF NumberInv
<1>2. CASE UNCHANGED vars \/ FarEnd
  <2>1. UNCHANGED <<dialog, requests, batch, updating, byeSent>>
    BY <1>2 DEF vars, uacVars, wireVars, FarEnd, Challenge, Reject, Register, UasInvite, UasAck,
                UasBye
  <2> QED BY <1>1, <2>1, NumberedSame DEF Invites, Byes, RequestsOf, Present, Noted
<1> QED BY <1>1, <1>2, NumberSender, NumberReceiver, NumberLoops, NumberOrchestrator DEF Next

LEMMA NumberHolds == Spec => []NumberInv
<1>1. Init => NumberInv
  BY DEF Init, NumberInv, Numbered, Invites, RequestsOf, Call
<1> QED BY <1>1, BaseHolds, NoChallengeHolds, EndHolds, SetupHolds, SoloHolds, ChallengeHolds,
           NumberStep, PTL DEF Spec

\* With one receive loop no BYE is numbered below an INVITE of its call, although
\* the loop that sends BYEs and the one that answers challenges number them from
\* copies they read earlier.
THEOREM ByeNumberedLast == Spec => []ByeAboveInvite
<1>1. NumberInv => ByeAboveInvite
  BY DEF NumberInv, Numbered, Invites, Byes, ByeAboveInvite
<1> QED BY <1>1, NumberHolds, PTL
=============================================================================
