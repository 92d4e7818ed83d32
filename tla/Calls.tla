------------------------------- MODULE Calls -------------------------------
(***************************************************************************)
(* The load generator at work: the UAC and its dialog manager (uac,        *)
(* dialog), the shared statistics (stats), the UAS (uas) and the part of   *)
(* the orchestrator that starts calls, drains a step, cleans up after it   *)
(* and shuts everything down (orchestrator, main).                         *)
(*                                                                         *)
(* Six kinds of task run concurrently: one sender per call, one UAC        *)
(* receive loop per socket, the BYE batch loop, one sleeping re-INVITE     *)
(* task per answered INVITE, the UAS receive loop, and the orchestrator.   *)
(* They share the dialog map, its counter and the statistics, and take no  *)
(* lock around a whole operation; an action below is one stretch of a task *)
(* between two points where another task can intervene and be noticed.     *)
(*                                                                         *)
(* The network loses, delays, reorders and repeats datagrams: what was     *)
(* sent stays in requests or responses and may be received any number of   *)
(* times, or never.  Neither end looks at the CSeq number of what it       *)
(* receives.  The proxy between them is external here: it challenges an    *)
(* INVITE or REGISTER without credentials, rejects one, registers a user,  *)
(* or passes the message on.  Time is not modelled: a call may be due for  *)
(* its BYE, and a drain may time out, at any moment.                       *)
(***************************************************************************)
EXTENDS Integers, FiniteSets

CONSTANTS
    InviteCall,     \* calls of the INVITE-BYE scenario
    RegisterCall,   \* calls of the REGISTER scenario
    MaxDialogs,     \* DialogManager.max_dialogs
    Batch,          \* send tasks running at the same time
    Receiver,       \* the receive loops of the UAC, one per socket
    MaxSteps,       \* run_step calls of the search; 0 is the sustained mode
    AuthRequired,   \* the proxy asks for credentials
    SendFailures,   \* transport.send_to may fail
    MaxCSeq,        \* bound: no request is sent beyond this CSeq
    MaxRefresh,     \* bound: re-INVITE tasks of a call; 0 is no session timer
    MaxCount,       \* bound: outcomes recorded for one call
    Wrap            \* active_dialogs counts modulo Wrap (2^64 in the program)

Call == InviteCall \cup RegisterCall
CSeq == 1..MaxCSeq

ASSUME CallsAssumption ==
    /\ IsFiniteSet(InviteCall) /\ IsFiniteSet(RegisterCall)
    /\ InviteCall \cap RegisterCall = {}
    /\ MaxDialogs \in Nat \ {0} /\ Batch \in Nat \ {0}
    /\ IsFiniteSet(Receiver) /\ MaxSteps \in Nat
    /\ AuthRequired \in BOOLEAN /\ SendFailures \in BOOLEAN
    /\ MaxCSeq \in Nat \ {0} /\ MaxRefresh \in Nat /\ MaxCount \in Nat \ {0}
    /\ Wrap \in Nat /\ Wrap > 2 * Cardinality(Call)

VARIABLES
    dialog,       \* DialogManager.dialogs
    activeCount,  \* DialogManager.active_count
    sender,       \* where the send task of each call is
    handling,     \* the call and the point in handle_response each receive loop is at
    batch,        \* (call, cseq) the BYE loop has collected
    byeSent,      \* the one of them whose BYE is out and not yet noted
    sleeping,     \* re-INVITE tasks of each call that still sleep
    updating,     \* (call, cseq) of re-INVITEs sent and not yet noted
    uas,          \* Uas.dialogs
    requests,     \* requests on the wire, per call
    responses,    \* responses on the wire, per call
    success,      \* record_call, per call
    failure,      \* record_failure, per call
    active,       \* StatsCollector.active_dialogs, shared by UAC and UAS
    phase,        \* what the orchestrator is doing
    step,         \* which run_step it is in
    doomed,       \* Call-IDs a cleanup or a shutdown still has to visit
    removed,      \* dialogs the orchestrator has removed and not yet counted
    leaving,      \* the dialog Uac::shutdown is sending a BYE for
    closed,       \* history: calls the UAS has ended
    drifted       \* history: somebody changes active_dialogs without a dialog

uacVars == <<dialog, activeCount, sender, handling, batch, byeSent, sleeping, updating>>
statVars == <<success, failure, active>>
runVars == <<phase, step, doomed, removed, leaving>>
wireVars == <<requests, responses>>
vars == <<uacVars, uas, wireVars, statVars, runVars, closed, drifted>>

NoDialog == [state |-> "None", cseq |-> 0, auth |-> FALSE]
Dialog == [state : {"Initial", "Trying", "Confirmed", "Error"}, cseq : CSeq, auth : BOOLEAN]

Request == {"INVITE", "AuthINVITE", "REINVITE", "ACK", "BYE", "REGISTER", "AuthREGISTER"}
Response == {"INVITE 200", "INVITE 4xx", "BYE 200", "BYE 481",
             "REGISTER 200", "REGISTER 4xx", "401/407"}

\* How far a handler is.  It is to send the request again; it has taken its
\* dialog out of the map, or has still to record the success; it has recorded
\* the failure, or has dropped the dialog as well; it is to close the call.
Point == {"resend", "taken", "record", "failed", "dropped", "close"}

Free == <<>>

Present == {c \in Call : dialog[c] # NoDialog}
Confirmed == {c \in Present : dialog[c].state = "Confirmed"}
Sending == {c \in Call : sender[c] \in {"checked", "inserted"}}

Init ==
    /\ dialog = [c \in Call |-> NoDialog]
    /\ activeCount = 0
    /\ sender = [c \in Call |-> "new"]
    /\ handling = [w \in Receiver |-> Free]
    /\ batch = {} /\ byeSent = {}
    /\ sleeping = [c \in Call |-> 0]
    /\ updating = {}
    /\ uas = [c \in InviteCall |-> "None"]
    /\ requests = [c \in Call |-> {}]
    /\ responses = [c \in Call |-> {}]
    /\ success = [c \in Call |-> 0]
    /\ failure = [c \in Call |-> 0]
    /\ active = 0
    /\ phase = "sending" /\ step = 1
    /\ doomed = {} /\ removed = {} /\ leaving = {}
    /\ closed = {} /\ drifted = FALSE

-----------------------------------------------------------------------------
(* What the operations are made of. *)

\* Where no caller acts on the result of send_to, a send that fails is a
\* message that is lost.
Transmit(c, r, n) == requests' = [requests EXCEPT ![c] = @ \cup {<<r, n>>}]

Reply(c, r) == responses' = [responses EXCEPT ![c] = @ \cup {r}]

OnWire(c, kinds) == \E q \in requests[c] : q[1] \in kinds

\* Mutant: remove_dialog removes nothing.
KeepDialog(c) == c \in Present /\ UNCHANGED dialog

\* remove_dialog is two steps: the dialog leaves the map,
RemoveDialog(c) == c \in Present /\ dialog' = [dialog EXCEPT ![c] = NoDialog]

\* Mutant: the counter is not decremented.
KeepCount == UNCHANGED activeCount

\* and, if one was there, the counter follows.
CountRemoval == activeCount' = activeCount - 1

RecordCall(c) == success[c] < MaxCount /\ success' = [success EXCEPT ![c] = @ + 1]

RecordFailure(c) == failure[c] < MaxCount /\ failure' = [failure EXCEPT ![c] = @ + 1]

\* Mutant: the gauge is not decremented.
ForgetActive == UNCHANGED active

\* Mutant: the gauge may go below zero.
DecrementSigned == active' = active - 1

\* fetch_sub(1), whether or not the caller has removed a dialog.
DecrementActive == active' = (active - 1) % Wrap

-----------------------------------------------------------------------------
(* The send tasks: send_invite, send_register. *)

\* Mutant: the limit is compared with > instead of >=.
BeyondLimit == activeCount > MaxDialogs

AtLimit == activeCount >= MaxDialogs

\* create_dialog reads the counter; at the limit the call is given up.
StartCall(c) ==
    /\ phase = "sending" /\ sender[c] = "new" /\ Cardinality(Sending) < Batch
    /\ \/ /\ ~AtLimit
          /\ sender' = [sender EXCEPT ![c] = "checked"]
          /\ UNCHANGED failure
       \/ /\ AtLimit
          /\ sender' = [sender EXCEPT ![c] = "done"]
          /\ RecordFailure(c)
    /\ UNCHANGED <<dialog, activeCount, handling, batch, byeSent, sleeping, updating, uas,
                   wireVars, success, active, runVars, closed, drifted>>

\* create_dialog inserts the dialog; the counter follows.
InsertDialog(c) ==
    /\ sender[c] = "checked"
    /\ sender' = [sender EXCEPT ![c] = "inserted"]
    /\ dialog' = [dialog EXCEPT ![c] = [state |-> "Initial", cseq |-> 1, auth |-> FALSE]]
    /\ UNCHANGED <<activeCount, handling, batch, byeSent, sleeping, updating, uas, wireVars,
                   statVars, runVars, closed, drifted>>

\* The rest of the task.  When send_to fails it returns the error and leaves
\* the dialog as it is.
SendRequest(c) ==
    /\ sender[c] = "inserted"
    /\ sender' = [sender EXCEPT ![c] = "done"]
    /\ activeCount' = activeCount + 1
    /\ dialog' = [dialog EXCEPT ![c].state = "Trying"]
    /\ active' = (active + 1) % Wrap
    /\ Transmit(c, IF c \in InviteCall THEN "INVITE" ELSE "REGISTER", 1)
    /\ UNCHANGED <<handling, batch, byeSent, sleeping, updating, uas, responses, success,
                   failure, runVars, closed, drifted>>

-----------------------------------------------------------------------------
(* The UAC receive loop: handle_response. *)

\* Mutant: the dialog is not looked up.
ReceiveUnknown(w, c, r) ==
    /\ handling[w] = Free /\ r \in responses[c]
    /\ handling' = [handling EXCEPT ![w] = <<c, r>>]
    /\ UNCHANGED <<dialog, activeCount, sender, batch, byeSent, sleeping, updating, uas,
                   wireVars, statVars, runVars, closed, drifted>>

\* The dialog is looked up first; a response to an unknown call is dropped.
Receive(w, c, r) ==
    /\ handling[w] = Free /\ r \in responses[c] /\ c \in Present
    /\ handling' = [handling EXCEPT ![w] = <<c, r>>]
    /\ UNCHANGED <<dialog, activeCount, sender, batch, byeSent, sleeping, updating, uas,
                   wireVars, statVars, runVars, closed, drifted>>

Handle(w, c, r) == handling[w] = <<c, r>> /\ handling' = [handling EXCEPT ![w] = Free]

Continue(w, c, r, p) == handling[w] = <<c, r>> /\ handling' = [handling EXCEPT ![w] = <<c, p>>]

\* The handler at r removes its dialog.  If somebody else has done so it goes on
\* all the same, and will decrement active_dialogs for a dialog it did not remove.
RemoveOwn(w, c, r, found, lost) ==
    \/ Continue(w, c, r, found) /\ RemoveDialog(c) /\ UNCHANGED drifted
    \/ Continue(w, c, r, lost) /\ c \notin Present /\ drifted' = TRUE /\ UNCHANGED dialog

\* Mutant: the 200 to an INVITE already completes the call.
CompletesOnAnyOk(w, c) ==
    /\ \E r \in {"BYE 200", "REGISTER 200", "INVITE 200"} : RemoveOwn(w, c, r, "taken", "record")
    /\ UNCHANGED <<activeCount, sender, batch, byeSent, sleeping, updating, uas, wireVars,
                   statVars, runVars, closed>>

\* handle_register_success, handle_bye_success: the dialog is removed,
CompleteCall(w, c) ==
    /\ \E r \in {"BYE 200", "REGISTER 200"} : RemoveOwn(w, c, r, "taken", "record")
    /\ UNCHANGED <<activeCount, sender, batch, byeSent, sleeping, updating, uas, wireVars,
                   statVars, runVars, closed>>

\* Mutant: a success is recorded only while the dialog is in the map.
RecordWithDialog(w, c) ==
    /\ Continue(w, c, "record", "close")
    /\ IF c \in Present THEN RecordCall(c) ELSE UNCHANGED success
    /\ UNCHANGED <<dialog, activeCount, sender, batch, byeSent, sleeping, updating, uas,
                   wireVars, failure, active, runVars, closed, drifted>>

\* then the call is recorded.
RecordSuccess(w, c) ==
    /\ Continue(w, c, "record", "close")
    /\ RecordCall(c)
    /\ UNCHANGED <<dialog, activeCount, sender, batch, byeSent, sleeping, updating, uas,
                   wireVars, failure, active, runVars, closed, drifted>>

\* Any other response of 400 and above: the failure is recorded first,
FailCall(w, c) ==
    /\ \E r \in {"INVITE 4xx", "REGISTER 4xx", "BYE 481"} : Continue(w, c, r, "failed")
    /\ RecordFailure(c)
    /\ UNCHANGED <<dialog, activeCount, sender, batch, byeSent, sleeping, updating, uas,
                   wireVars, success, active, runVars, closed, drifted>>

\* then the dialog is removed.
DropCall(w, c) ==
    /\ RemoveOwn(w, c, "failed", "dropped", "close")
    /\ UNCHANGED <<activeCount, sender, batch, byeSent, sleeping, updating, uas, wireVars,
                   statVars, runVars, closed>>

\* The second half of remove_dialog, on either way.
CountTaken(w, c) ==
    /\ Continue(w, c, "taken", "record") \/ Continue(w, c, "dropped", "close")
    /\ CountRemoval
    /\ UNCHANGED <<dialog, sender, batch, byeSent, sleeping, updating, uas, wireVars,
                   statVars, runVars, closed, drifted>>

\* Last on both ways, active_dialogs.
CloseCall(w, c) ==
    /\ Handle(w, c, "close")
    /\ DecrementActive
    /\ UNCHANGED <<dialog, activeCount, sender, batch, byeSent, sleeping, updating, uas,
                   wireVars, success, failure, runVars, closed, drifted>>

\* handle_invite_success: whatever state the dialog was in, it is Confirmed
\* now, the ACK goes out, and a re-INVITE task is spawned unless that failed.
ConfirmCall(w, c) ==
    /\ Handle(w, c, "INVITE 200")
    /\ \/ /\ c \in Present
          /\ dialog' = [dialog EXCEPT ![c].state = "Confirmed"]
          /\ \/ /\ Transmit(c, "ACK", dialog[c].cseq)
                /\ sleeping' = [sleeping EXCEPT ![c] = IF @ < MaxRefresh THEN @ + 1 ELSE @]
             \/ SendFailures /\ UNCHANGED <<requests, sleeping>>
       \/ c \notin Present /\ UNCHANGED <<dialog, requests, sleeping>>
    /\ UNCHANGED <<activeCount, sender, batch, byeSent, updating, uas, responses, statVars,
                   runVars, closed, drifted>>

AuthMethod(c) == IF c \in InviteCall THEN "AuthINVITE" ELSE "AuthREGISTER"

\* Mutant: auth_attempted is not checked.
AcceptsEveryChallenge(w, c) ==
    /\ Continue(w, c, "401/407", "resend")
    /\ c \in Present
    /\ UNCHANGED <<dialog, activeCount, sender, batch, byeSent, sleeping, updating,
                   uas, wireVars, statVars, runVars, closed, drifted>>

\* handle_auth_challenge.  The dialog must not have tried to authenticate yet,
\* and there must be credentials for its user; otherwise the call fails in
\* place: its dialog stays in the map, in state Error.
AcceptChallenge(w, c) ==
    /\ Continue(w, c, "401/407", "resend")
    /\ c \in Present /\ ~dialog[c].auth
    /\ UNCHANGED <<dialog, activeCount, sender, batch, byeSent, sleeping, updating,
                   uas, wireVars, statVars, runVars, closed, drifted>>

FailChallenge(w, c) ==
    /\ Handle(w, c, "401/407")
    /\ \/ /\ c \in Present
          /\ RecordFailure(c)
          /\ dialog' = [dialog EXCEPT ![c].state = "Error"]
       \/ c \notin Present /\ UNCHANGED <<dialog, failure>>
    /\ UNCHANGED <<activeCount, sender, batch, byeSent, sleeping, updating, uas,
                   wireVars, success, active, runVars, closed, drifted>>

\* The request goes out again with credentials and the next CSeq.
AnswerChallenge(w, c) ==
    /\ Handle(w, c, "resend")
    /\ \/ /\ c \in Present /\ dialog[c].cseq < MaxCSeq
          /\ dialog' = [dialog EXCEPT ![c].auth = TRUE, ![c].cseq = @ + 1]
          /\ Transmit(c, AuthMethod(c), dialog[c].cseq + 1)
       \/ c \notin Present /\ UNCHANGED <<dialog, requests>>
    /\ UNCHANGED <<activeCount, sender, batch, byeSent, sleeping, updating, uas, responses,
                   statVars, runVars, closed, drifted>>

-----------------------------------------------------------------------------
(* The BYE batch loop and the re-INVITE tasks. *)

\* Mutant: the state of the dialog is not checked.
CollectPresent(due) ==
    /\ batch = {} /\ byeSent = {} /\ due # {} /\ due \subseteq Present
    /\ batch' = {<<c, dialog[c].cseq>> : c \in due}
    /\ UNCHANGED <<dialog, activeCount, sender, handling, byeSent, sleeping, updating, uas,
                   wireVars, statVars, runVars, closed, drifted>>

\* collect_expired_for_bye: Confirmed dialogs whose call_duration has passed.
CollectForBye(due) ==
    /\ batch = {} /\ byeSent = {} /\ due # {} /\ due \subseteq Confirmed
    /\ batch' = {<<c, dialog[c].cseq>> : c \in due}
    /\ UNCHANGED <<dialog, activeCount, sender, handling, byeSent, sleeping, updating, uas,
                   wireVars, statVars, runVars, closed, drifted>>

\* Mutant: the BYE repeats the CSeq of the INVITE.
SendByeUnnumbered(c, n) ==
    /\ <<c, n>> \in batch /\ byeSent = {}
    /\ batch' = batch \ {<<c, n>>}
    /\ byeSent' = {<<c, n>>}
    /\ Transmit(c, "BYE", n)
    /\ UNCHANGED <<dialog, activeCount, sender, handling, sleeping, updating, uas, responses,
                   statVars, runVars, closed, drifted>>

SendBye(c, n) ==
    /\ <<c, n>> \in batch /\ byeSent = {} /\ n < MaxCSeq
    /\ batch' = batch \ {<<c, n>>}
    /\ byeSent' = {<<c, n + 1>>}
    /\ Transmit(c, "BYE", n + 1)
    /\ UNCHANGED <<dialog, activeCount, sender, handling, sleeping, updating, uas, responses,
                   statVars, runVars, closed, drifted>>

\* Mutant: the dialog is inserted again if it is gone.
NoteByeInserting(c, n) ==
    /\ <<c, n>> \in byeSent
    /\ byeSent' = {}
    /\ dialog' = [dialog EXCEPT ![c] = [state |-> "Trying", cseq |-> n, auth |-> FALSE]]
    /\ UNCHANGED <<activeCount, sender, handling, batch, sleeping, updating, uas, wireVars,
                   statVars, runVars, closed, drifted>>

\* After the send: the state read at the collection is written back.
NoteBye(c, n) ==
    /\ <<c, n>> \in byeSent
    /\ byeSent' = {}
    /\ dialog' = IF c \in Present
                 THEN [dialog EXCEPT ![c].state = "Trying", ![c].cseq = n]
                 ELSE dialog
    /\ UNCHANGED <<activeCount, sender, handling, batch, sleeping, updating, uas, wireVars,
                   statVars, runVars, closed, drifted>>

\* The task wakes up, finds the dialog Confirmed and sends; otherwise it ends.
SendReinvite(c) ==
    /\ sleeping[c] > 0
    /\ sleeping' = [sleeping EXCEPT ![c] = @ - 1]
    /\ \/ /\ c \in Confirmed /\ dialog[c].cseq < MaxCSeq
          /\ Transmit(c, "REINVITE", dialog[c].cseq + 1)
          /\ updating' = updating \cup {<<c, dialog[c].cseq + 1>>}
       \/ c \notin Confirmed /\ UNCHANGED <<requests, updating>>
    /\ UNCHANGED <<dialog, activeCount, sender, handling, batch, byeSent, uas, responses,
                   statVars, runVars, closed, drifted>>

NoteReinvite(c, n) ==
    /\ <<c, n>> \in updating
    /\ updating' = updating \ {<<c, n>>}
    /\ dialog' = IF c \in Present THEN [dialog EXCEPT ![c].cseq = n] ELSE dialog
    /\ UNCHANGED <<activeCount, sender, handling, batch, byeSent, sleeping, uas, wireVars,
                   statVars, runVars, closed, drifted>>

-----------------------------------------------------------------------------
(* The far end: the proxy (external) and the UAS receive loop. *)

Challenge(c) ==
    /\ AuthRequired /\ OnWire(c, {"INVITE", "REGISTER"})
    /\ Reply(c, "401/407")
    /\ UNCHANGED <<uacVars, uas, requests, statVars, runVars, closed, drifted>>

Reject(c) ==
    /\ \/ OnWire(c, {"INVITE", "AuthINVITE"}) /\ Reply(c, "INVITE 4xx")
       \/ OnWire(c, {"REGISTER", "AuthREGISTER"}) /\ Reply(c, "REGISTER 4xx")
    /\ UNCHANGED <<uacVars, uas, requests, statVars, runVars, closed, drifted>>

Register(c) ==
    /\ OnWire(c, {"AuthREGISTER"}) \/ (~AuthRequired /\ OnWire(c, {"REGISTER"}))
    /\ Reply(c, "REGISTER 200")
    /\ UNCHANGED <<uacVars, uas, requests, statVars, runVars, closed, drifted>>

\* handle_invite: 100, dialog, 200, count; a failed send ends it on the way.
\* A request for a known Call-ID is a re-INVITE and is answered 200.
UasInvite(c) ==
    /\ OnWire(c, {"AuthINVITE", "REINVITE"}) \/ (~AuthRequired /\ OnWire(c, {"INVITE"}))
    /\ \/ /\ uas[c] # "None"
          /\ Reply(c, "INVITE 200")
          /\ UNCHANGED <<uas, active, drifted>>
       \/ /\ uas[c] = "None"
          /\ uas' = [uas EXCEPT ![c] = "Early"]
          /\ \/ /\ Reply(c, "INVITE 200")
                /\ active' = (active + 1) % Wrap
                /\ UNCHANGED drifted
             \/ /\ SendFailures
                /\ drifted' = TRUE
                /\ UNCHANGED <<responses, active>>
    /\ UNCHANGED <<uacVars, requests, success, failure, runVars, closed>>

\* handle_ack
UasAck(c) ==
    /\ OnWire(c, {"ACK"}) /\ uas[c] # "None"
    /\ uas' = [uas EXCEPT ![c] = "Confirmed"]
    /\ UNCHANGED <<uacVars, wireVars, statVars, runVars, closed, drifted>>

\* handle_bye: a failed send returns before the dialog is removed.
UasBye(c) ==
    /\ OnWire(c, {"BYE"})
    /\ \/ /\ uas[c] # "None"
          /\ Reply(c, "BYE 200")
          /\ uas' = [uas EXCEPT ![c] = "None"]
          /\ active' = (active - 1) % Wrap
          /\ closed' = closed \cup {c}
       \/ /\ uas[c] = "None"
          /\ Reply(c, "BYE 481")
          /\ UNCHANGED <<uas, active, closed>>
    /\ UNCHANGED <<uacVars, requests, success, failure, runVars, drifted>>

-----------------------------------------------------------------------------
(* The orchestrator: run_step, run_sustained, graceful_shutdown. *)

Quiet == Sending = {}

\* run_step joins its send tasks and drains.
Drain ==
    /\ phase = "sending" /\ MaxSteps > 0 /\ Quiet
    /\ phase' = "draining"
    /\ UNCHANGED <<uacVars, uas, wireVars, statVars, step, doomed, removed, leaving, closed,
                   drifted>>

\* The drain ends because nothing is active any more.
Drained ==
    /\ phase = "draining" /\ active = 0
    /\ phase' = "reported"
    /\ UNCHANGED <<uacVars, uas, wireVars, statVars, step, doomed, removed, leaving, closed,
                   drifted>>

\* Mutant: only established dialogs are cleaned up.
CleanUpConfirmed ==
    /\ phase = "draining" /\ active > 0
    /\ phase' = "cleaning"
    /\ doomed' = Confirmed
    /\ UNCHANGED <<uacVars, uas, wireVars, statVars, step, removed, leaving,
                   closed, drifted>>

\* It times out: force_cleanup_remaining_dialogs lists the Call-IDs,
CleanUp ==
    /\ phase = "draining" /\ active > 0
    /\ phase' = "cleaning"
    /\ doomed' = Present
    /\ UNCHANGED <<uacVars, uas, wireVars, statVars, step, removed, leaving,
                   closed, drifted>>

\* removes what is still there (force_remove_all),
ForceRemove(c) ==
    /\ phase = "cleaning" /\ c \in doomed \ removed
    /\ \/ /\ RemoveDialog(c)
          /\ removed' = removed \cup {c}
          /\ UNCHANGED doomed
       \/ /\ c \notin Present
          /\ doomed' = doomed \ {c}
          /\ UNCHANGED <<dialog, removed>>
    /\ UNCHANGED <<activeCount, sender, handling, batch, byeSent, sleeping, updating, uas,
                   wireVars, statVars, phase, step, leaving, closed, drifted>>

CountForced(c) ==
    /\ phase = "cleaning" /\ c \in doomed \cap removed
    /\ CountRemoval
    /\ doomed' = doomed \ {c}
    /\ UNCHANGED <<dialog, sender, handling, batch, byeSent, sleeping, updating, uas, wireVars,
                   statVars, phase, step, removed, leaving, closed, drifted>>

\* and records a failure for each dialog it removed.
CountRemoved ==
    /\ phase = "cleaning" /\ doomed = {}
    /\ phase' = "reported"
    /\ failure' = [c \in Call |-> failure[c] + (IF c \in removed THEN 1 ELSE 0)]
    /\ active' = (active - Cardinality(removed)) % Wrap
    /\ removed' = {}
    /\ UNCHANGED <<uacVars, uas, wireVars, success, step, doomed, leaving, closed, drifted>>

NextStep ==
    /\ phase = "reported" /\ step < MaxSteps
    /\ phase' = "sending" /\ step' = step + 1
    /\ UNCHANGED <<uacVars, uas, wireVars, statVars, doomed, removed, leaving, closed, drifted>>

\* Uac::shutdown lists the Call-IDs, and for each of them
ShutDown ==
    /\ \/ phase = "reported"
       \/ phase = "sending" /\ MaxSteps = 0 /\ Quiet
    /\ phase' = "stopping"
    /\ doomed' = Present
    /\ UNCHANGED <<uacVars, uas, wireVars, statVars, step, removed, leaving,
                   closed, drifted>>

\* sends a BYE if the dialog is Confirmed,
ShutDownBye(c) ==
    /\ phase = "stopping" /\ c \in doomed /\ leaving = {}
    /\ doomed' = doomed \ {c}
    /\ leaving' = {c} \cap Present
    /\ \/ /\ c \in Confirmed /\ dialog[c].cseq < MaxCSeq
          /\ Transmit(c, "BYE", dialog[c].cseq + 1)
       \/ c \notin Confirmed /\ UNCHANGED requests
    /\ UNCHANGED <<uacVars, uas, responses, statVars, phase, step, removed, closed, drifted>>

\* then removes it, without counting the call,
ShutDownRemove(c) ==
    /\ phase = "stopping" /\ c \in leaving \ removed
    /\ \/ /\ RemoveDialog(c)
          /\ removed' = removed \cup {c}
          /\ UNCHANGED <<leaving, active, drifted>>
       \/ /\ c \notin Present
          /\ leaving' = leaving \ {c}
          /\ DecrementActive
          /\ drifted' = TRUE
          /\ UNCHANGED <<dialog, removed>>
    /\ UNCHANGED <<activeCount, sender, handling, batch, byeSent, sleeping, updating, uas,
                   wireVars, success, failure, phase, step, doomed, closed>>

\* and decrements both counters.
ShutDownCount(c) ==
    /\ phase = "stopping" /\ c \in leaving \cap removed
    /\ leaving' = leaving \ {c} /\ removed' = removed \ {c}
    /\ CountRemoval
    /\ DecrementActive
    /\ UNCHANGED <<dialog, sender, handling, batch, byeSent, sleeping, updating, uas, wireVars,
                   success, failure, phase, step, doomed, closed, drifted>>

\* The shutdown is over, or shutdown_timeout cut it short at a send; the UAS
\* forgets its dialogs and the program ends.
Exit ==
    /\ phase = "stopping" /\ (doomed = {} \/ leaving # {}) /\ removed = {}
    /\ phase' = "stopped"
    /\ closed' = closed \cup {c \in InviteCall : uas[c] # "None"}
    /\ uas' = [c \in InviteCall |-> "None"]
    /\ UNCHANGED <<uacVars, wireVars, statVars, step, doomed, removed, leaving, drifted>>

-----------------------------------------------------------------------------
SendTask(c) == StartCall(c) \/ InsertDialog(c) \/ SendRequest(c)

HandleResponse(w, c) ==
    \/ \E r \in Response : Receive(w, c, r)
    \/ CompleteCall(w, c) \/ RecordSuccess(w, c) \/ FailCall(w, c) \/ DropCall(w, c)
    \/ CountTaken(w, c) \/ CloseCall(w, c) \/ ConfirmCall(w, c)
    \/ AcceptChallenge(w, c) \/ FailChallenge(w, c) \/ AnswerChallenge(w, c)

ReceiveLoop(w) == \E c \in Call : HandleResponse(w, c)

ByeLoop ==
    \/ \E due \in SUBSET InviteCall : CollectForBye(due)
    \/ \E c \in InviteCall, n \in CSeq : SendBye(c, n) \/ NoteBye(c, n)

ReinviteTask(c) == SendReinvite(c) \/ \E n \in CSeq : NoteReinvite(c, n)

FarEnd ==
    \/ \E c \in Call : Challenge(c) \/ Reject(c) \/ Register(c)
    \/ \E c \in InviteCall : UasInvite(c) \/ UasAck(c) \/ UasBye(c)

Orchestrator ==
    \/ Drain \/ Drained \/ CleanUp \/ CountRemoved \/ NextStep \/ ShutDown \/ Exit
    \/ \E c \in Call : \/ ForceRemove(c) \/ CountForced(c)
                       \/ ShutDownBye(c) \/ ShutDownRemove(c) \/ ShutDownCount(c)

Next ==
    /\ phase # "stopped"
    /\ \/ \E c \in Call : SendTask(c)
       \/ \E w \in Receiver : ReceiveLoop(w)
       \/ ByeLoop
       \/ \E c \in InviteCall : ReinviteTask(c)
       \/ FarEnd
       \/ Orchestrator

Spec == Init /\ [][Next]_vars

-----------------------------------------------------------------------------
TypeOK ==
    /\ dialog \in [Call -> Dialog \cup {NoDialog}]
    /\ activeCount \in 0..Cardinality(Call)
    /\ sender \in [Call -> {"new", "checked", "inserted", "done"}]
    /\ handling \in [Receiver -> {Free} \cup Call \X (Response \cup Point)]
    /\ batch \subseteq InviteCall \X CSeq /\ byeSent \subseteq InviteCall \X CSeq
    /\ sleeping \in [Call -> 0..MaxRefresh] /\ updating \subseteq InviteCall \X CSeq
    /\ uas \in [InviteCall -> {"None", "Early", "Confirmed"}]
    /\ requests \in [Call -> SUBSET (Request \X CSeq)]
    /\ responses \in [Call -> SUBSET Response]
    /\ success \in [Call -> Nat] /\ failure \in [Call -> Nat]
    /\ active \in 0..(Wrap - 1)
    /\ phase \in {"sending", "draining", "cleaning", "reported", "stopping", "stopped"}
    /\ step \in Nat \ {0}
    /\ doomed \subseteq Call /\ removed \subseteq Call /\ leaving \subseteq Call
    /\ closed \subseteq InviteCall /\ drifted \in BOOLEAN

Outcomes(c) == success[c] + failure[c]

\* The calls a receive loop is working on, at one of these points.
At(points) == {c \in Call : \E w \in Receiver : handling[w] \in {c} \X points}

\* Dialogs that are inserted and not yet counted, or removed and still counted.
Uncounted == {"taken", "dropped"}
Entering == {c \in Call : sender[c] = "inserted"}
Leaving == At(Uncounted) \cup (removed \cap (doomed \cup leaving))

\* The counter of the dialog manager is the size of its map but for the dialogs
\* that a create_dialog or a remove_dialog has half done: a task that takes them
\* out or puts them in without its counterpart shows for ever.
DialogsCounted ==
    activeCount + Cardinality(Entering) = Cardinality(Present) + Cardinality(Leaving)

\* create_dialog checks the limit and inserts in two steps, so the tasks of one
\* batch can pass max_dialogs together, by one dialog less than their number.
DialogBound == Cardinality(Present) <= MaxDialogs + Batch - 1

\* The dialogs of the calls that were sent, which the counter counts.
Open == {c \in Present : sender[c] = "done"}

Dialogs == INSTANCE Admission
             WITH Id <- Call, Limit <- MaxDialogs, Tasks <- Batch,
                  counted <- Open, entering <- Sending

\* Whatever the receive loops, the BYE loop, the re-INVITE tasks and the cleanups
\* do with the copies and Call-IDs they read earlier, the map of the dialogs
\* changes by a create_dialog that passed its own check, or by the removal of one
\* dialog: no write-back brings a dialog back.
ImplementsAdmission == Dialogs!Spec

\* Dialogs a receive loop has removed, active_dialogs still counting them.
Owing == {"taken", "record", "dropped", "close"}
Settling == At(Owing)

\* active_dialogs is the number of dialogs at both ends and of those somebody has
\* removed and still has to subtract, unless it is changed without one: by a
\* response handler or a shutdown whose dialog another task has removed, or by a
\* UAS that stored a dialog and could not answer.
Ledger ==
    ~drifted /\ phase # "stopped" =>
        active = Cardinality(Open)
                 + Cardinality({c \in InviteCall : uas[c] # "None"})
                 + Cardinality(removed)
                 + Cardinality(Settling)

\* Before the first cleanup or shutdown, one receive loop never finds that the
\* dialog it looked up was removed by somebody else: active_dialogs is exact, and
\* the drain of a step that waits for it waits for the right calls.
GaugeUndisturbed ==
    Cardinality(Receiver) = 1 /\ ~SendFailures
            /\ step = 1 /\ phase \in {"sending", "draining"} =>
        ~drifted

\* However often responses arrive and whatever is cleaned up, a call is counted
\* once, unless a challenge failed it in place or a handler lost its dialog.  A
\* handler that has recorded a failure and not yet removed the dialog is ahead:
\* until it finds out that the dialog is gone, others may count the call as well.
CountedOnce ==
    ~AuthRequired /\ ~drifted => \A c \in Call \ At({"failed"}) : Outcomes(c) <= 1

\* When run_step takes its result every call started so far has been counted, but
\* for those whose dialog a receive loop has removed before the cleanup looked and
\* which it has not recorded yet: they fall into a later step, or into none.
StepAccounts ==
    phase = "reported" /\ ~drifted =>
        \A c \in Call \ At({"taken", "record"}) : sender[c] = "done" => Outcomes(c) > 0

\* There are none of these if the drain ended by itself: because a handler records
\* its call before it decrements, active_dialogs is 0 only when all are counted.
DrainAccounts ==
    phase = "draining" /\ active = 0 /\ ~drifted =>
        \A c \in Call : sender[c] = "done" => Outcomes(c) > 0

\* A call is a success only if the UAS has ended it.
SuccessMeansClosed == \A c \in InviteCall : success[c] > 0 => c \in closed

\* The UAS answers 481 only to calls it has already ended: a BYE never reaches
\* it before the INVITE of its call.
UnknownByeMeansClosed == \A c \in InviteCall : "BYE 481" \in responses[c] => c \in closed

RequestsOf(c, kinds) == {q \in requests[c] : q[1] \in kinds}

\* A challenge is answered once, or once by each receive loop that found the
\* flag unset; a challenged call does not send its request for ever.
ChallengesBounded ==
    \A c \in Call :
        Cardinality(RequestsOf(c, {"INVITE", "AuthINVITE", "REGISTER", "AuthREGISTER"}))
            <= 1 + Cardinality(Receiver)

\* With one receive loop the BYE of a call is above the CSeq of every INVITE
\* that set it up.  With two, a challenge accepted before the call was answered
\* may be acted on after its BYE was collected.
ByeAboveInvite ==
    Cardinality(Receiver) = 1 =>
        \A c \in InviteCall :
            \A q \in RequestsOf(c, {"INVITE", "AuthINVITE"}), b \in RequestsOf(c, {"BYE"}) :
                b[2] > q[2]

\* A call that nobody answered is recorded as a failure before the program
\* ends.  The sustained mode, in which nothing checks for timeouts, does not
\* have this property.
TimeoutsCounted ==
    phase = "stopped" =>
        \A c \in Call : sender[c] = "done" /\ responses[c] = {} => Outcomes(c) > 0
=============================================================================
