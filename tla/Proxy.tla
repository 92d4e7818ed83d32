------------------------------- MODULE Proxy -------------------------------
(***************************************************************************)
(* The stateless proxy (proxy/mod.rs, proxy/location.rs) with a UAC and a  *)
(* UAS around it: registration, authentication, where a request goes, and  *)
(* how its response finds the way back through the Via headers.            *)
(*                                                                         *)
(* A message is its method, its status (0 in a request), the user it is    *)
(* about, its credentials, its Route and its Via headers, topmost first.   *)
(* The receive tasks of the proxy share the location service only, which   *)
(* is read or written once per message: one action handles one message.    *)
(* Datagrams arrive in any order, or never.                                *)
(*                                                                         *)
(* The UAC is reduced to the requests it sends and what makes it send      *)
(* them, one call and one registration per user (Calls has the rest); the  *)
(* UAS to its dialogs.                                                     *)
(***************************************************************************)
EXTENDS Naturals, Sequences

CONSTANTS
  User,          \* the users of the pool
  LocalUser,     \* those whose domain is the one the proxy manages
  AuthEnabled,   \* the proxy authenticates
  MaxVia         \* Via headers that fit into a datagram

ASSUME ProxyAssumption ==
  /\ LocalUser \subseteq User
  /\ AuthEnabled \in BOOLEAN
  /\ MaxVia \in Nat \ {0}

\* Addresses; the default forward_addr of the proxy is the UAS.
Node == {"uac", "proxy", "uas"}
Method == {"INVITE", "ACK", "BYE", "REGISTER"}
Status == {0, 100, 200, 401, 403, 404, 407, 481}

Auth == {"none", "valid", "invalid"}

Message ==
  [to : Node, from : Node, method : Method, status : Status, user : User,
   auth : Auth, route : Node \cup {"none"}, via : Seq(Node)]

\* What the UAC sends, told apart more finely than by method.
Kind == Method \cup {"REINVITE"}

VARIABLES
  wire,      \* datagrams that may still arrive
  location,  \* LocationService.registrations: the address of each user's contact
  dialogs,   \* Uas.dialogs: the users whose call the UAS has accepted
  refreshed, \* the users whose session a re-INVITE has refreshed
  sent,      \* sent[u]: the requests the UAC has sent for the user, <<kind, auth>>
  answered   \* answered[u]: the final responses it has received, <<method, status>>

vars == <<wire, location, dialogs, refreshed, sent, answered>>

Init ==
  /\ wire = {}
  /\ location = [u \in User |-> "none"]
  /\ dialogs = {}
  /\ refreshed = {}
  /\ sent = [u \in User |-> {}]
  /\ answered = [u \in User |-> {}]

IsRequest(m) == m.status = 0
IsResponse(m) == m.status # 0

\* send_to: a datagram that has become too long is refused (EMSGSIZE).
Fits(m) == Len(m.via) <= MaxVia

Arrive(m, out) == wire' = (wire \ {m}) \cup {n \in out : Fits(n)}

\* build_response: the Via headers of the request are copied, and the response
\* goes where the datagram came from.
ResponseTo(m, s) ==
  [m EXCEPT !.to = m.from, !.from = m.to, !.status = s, !.auth = "none", !.route = "none"]

-----------------------------------------------------------------------------
(* The proxy.                                                              *)

Received(m) == m \in wire /\ m.to = "proxy"

\* Mutant: credentials are looked for and not verified.
AcceptsAny(m) == ~AuthEnabled \/ m.auth # "none"

Accepts(m) == ~AuthEnabled \/ m.auth = "valid"

\* An INVITE without a Route, and every REGISTER, is authenticated.
NeedsAuth(m) == m.method = "REGISTER" \/ (m.method = "INVITE" /\ m.route = "none")

\* 401 or 407 without credentials, 403 with wrong ones.
Challenge(m) ==
  /\ Received(m) /\ IsRequest(m) /\ NeedsAuth(m) /\ ~Accepts(m)
  /\ Arrive(m, {ResponseTo(m, IF m.auth # "none" THEN 403
                              ELSE IF m.method = "REGISTER" THEN 401 ELSE 407)})
  /\ UNCHANGED <<location, dialogs, refreshed, sent, answered>>

\* handle_register: the sender is the contact, for an hour nobody measures.
Register(m) ==
  /\ Received(m) /\ IsRequest(m) /\ m.method = "REGISTER" /\ Accepts(m)
  /\ location' = [location EXCEPT ![m.user] = m.from]
  /\ Arrive(m, {ResponseTo(m, 200)})
  /\ UNCHANGED <<dialogs, refreshed, sent, answered>>

\* Mutant: is_local_domain is not asked.
EveryCall(m) == m.method = "INVITE" /\ m.route = "none"

LocalCall(m) == m.method = "INVITE" /\ m.route = "none" /\ m.user \in LocalUser

Allowed(m) == NeedsAuth(m) => Accepts(m)

\* Mutant: the Via is added below the others.
ForwardedBelow(m, dest) ==
  [m EXCEPT !.to = dest, !.from = "proxy", !.via = Append(m.via, "proxy")]

Forwarded(m, dest) ==
  [m EXCEPT !.to = dest, !.from = "proxy", !.via = <<"proxy">> \o m.via]

\* forward_request, managed domain: to the registered contact, or 404.
ForwardLocal(m) ==
  /\ Received(m) /\ IsRequest(m) /\ LocalCall(m) /\ Allowed(m)
  /\ \/ /\ location[m.user] # "none"
        /\ Arrive(m, {Forwarded(m, location[m.user])})
     \/ /\ location[m.user] = "none"
        /\ Arrive(m, {ResponseTo(m, 404)})
  /\ UNCHANGED <<location, dialogs, refreshed, sent, answered>>

\* determine_request_destination: the Route, or the default address.
Destination(m) == IF m.route # "none" THEN m.route ELSE "uas"

\* forward_request otherwise.  The Route header is left where it is.
Forward(m) ==
  /\ Received(m) /\ IsRequest(m) /\ m.method # "REGISTER" /\ ~LocalCall(m) /\ Allowed(m)
  /\ Arrive(m, {Forwarded(m, Destination(m))})
  /\ UNCHANGED <<location, dialogs, refreshed, sent, answered>>

\* Mutant: the proxy's own Via stays in the response.
BackwardUnpopped(m) == [m EXCEPT !.to = IF Len(m.via) > 1 THEN m.via[2] ELSE "uas",
                                 !.from = "proxy"]

\* The top Via is removed; the next one says where to, and without one the
\* response goes to the default address.
Backward(m) ==
  [m EXCEPT !.to = IF Len(m.via) > 1 THEN m.via[2] ELSE "uas",
            !.from = "proxy", !.via = Tail(@)]

\* forward_response
ForwardResponse(m) ==
  /\ Received(m) /\ IsResponse(m)
  /\ Arrive(m, {Backward(m)})
  /\ UNCHANGED <<location, dialogs, refreshed, sent, answered>>

ProxyStep(m) ==
  Challenge(m) \/ Register(m) \/ ForwardLocal(m) \/ Forward(m) \/ ForwardResponse(m)

-----------------------------------------------------------------------------
(* The UAS.                                                                *)

\* handle_invite, handle_reinvite: 100 Trying with a new dialog only.
UasInvite(m) ==
  /\ m.method = "INVITE"
  /\ \/ /\ m.user \notin dialogs
        /\ dialogs' = dialogs \cup {m.user}
        /\ Arrive(m, {ResponseTo(m, 100), ResponseTo(m, 200)})
        /\ UNCHANGED refreshed
     \/ /\ m.user \in dialogs
        /\ refreshed' = refreshed \cup {m.user}
        /\ Arrive(m, {ResponseTo(m, 200)})
        /\ UNCHANGED dialogs

\* handle_ack: only the state of the dialog, which nothing here depends on.
UasAck(m) ==
  /\ m.method = "ACK"
  /\ Arrive(m, {})
  /\ UNCHANGED <<dialogs, refreshed>>

\* handle_bye
UasBye(m) ==
  /\ m.method = "BYE"
  /\ dialogs' = dialogs \ {m.user}
  /\ Arrive(m, {ResponseTo(m, IF m.user \in dialogs THEN 200 ELSE 481)})
  /\ UNCHANGED refreshed

UasStep(m) ==
  /\ m \in wire /\ m.to = "uas" /\ IsRequest(m)
  /\ UasInvite(m) \/ UasAck(m) \/ UasBye(m)
  /\ UNCHANGED <<location, sent, answered>>

-----------------------------------------------------------------------------
(* The UAC.                                                                *)

\* The requests of uac/mod.rs and uac/builders.rs.  Only the re-INVITE has a
\* Route: the proxy's address.
Request(u, method, auth, route) ==
  [to |-> "proxy", from |-> "uac", method |-> method, status |-> 0, user |-> u,
   auth |-> auth, route |-> route, via |-> <<"uac">>]

Send(u, kind, m) ==
  /\ <<kind, "none">> \notin sent[u]
  /\ sent' = [sent EXCEPT ![u] = @ \cup {<<kind, "none">>}]
  /\ wire' = wire \cup {m}
  /\ UNCHANGED <<location, dialogs, refreshed, answered>>

SendInvite(u) == Send(u, "INVITE", Request(u, "INVITE", "none", "none"))
SendRegister(u) == Send(u, "REGISTER", Request(u, "REGISTER", "none", "none"))

\* The dialog is Confirmed: answered, and no BYE sent yet.
Confirmed(u) == <<"INVITE", 200>> \in answered[u] /\ <<"BYE", "none">> \notin sent[u]

SendReinvite(u) ==
  Confirmed(u) /\ Send(u, "REINVITE", Request(u, "INVITE", "none", "proxy"))
SendBye(u) ==
  Confirmed(u) /\ Send(u, "BYE", Request(u, "BYE", "none", "none"))

Challenged(m) == m.status \in {401, 407}
Retried(m) == \E a \in {"valid", "invalid"} : <<m.method, a>> \in sent[m.user]

ReceivedByUac(m) == m \in wire /\ m.to = "uac"

\* handle_auth_challenge: once per call, with credentials that may be wrong.
Authenticate(m) ==
  /\ ReceivedByUac(m) /\ Challenged(m) /\ ~Retried(m)
  /\ \E a \in {"valid", "invalid"} :
       /\ sent' = [sent EXCEPT ![m.user] = @ \cup {<<m.method, a>>}]
       /\ Arrive(m, {Request(m.user, m.method, a, "none")})
  /\ UNCHANGED <<location, dialogs, refreshed, answered>>

\* handle_response with a final answer; the 200 to an INVITE is acknowledged.
Conclude(m) ==
  /\ ReceivedByUac(m) /\ m.status >= 200 /\ (Challenged(m) => Retried(m))
  /\ answered' = [answered EXCEPT ![m.user] = @ \cup {<<m.method, m.status>>}]
  /\ Arrive(m, IF m.method = "INVITE" /\ m.status = 200
                 THEN {Request(m.user, "ACK", "none", "none")} ELSE {})
  /\ UNCHANGED <<location, dialogs, refreshed, sent>>

\* handle_response ignores provisional responses and requests.
Ignore(m) ==
  /\ ReceivedByUac(m) /\ m.status < 200
  /\ Arrive(m, {})
  /\ UNCHANGED <<location, dialogs, refreshed, sent, answered>>

UacStep(m) == Authenticate(m) \/ Conclude(m) \/ Ignore(m)

-----------------------------------------------------------------------------
Deliver == \E m \in wire : ProxyStep(m) \/ UasStep(m) \/ UacStep(m)

Start == \E u \in User : SendInvite(u) \/ SendRegister(u) \/ SendReinvite(u) \/ SendBye(u)

Next == Deliver \/ Start

Spec == Init /\ [][Next]_vars

\* Every datagram arrives, and the receive loops handle what arrives.
FairSpec == Spec /\ WF_vars(Deliver)

-----------------------------------------------------------------------------
TypeOK ==
  /\ wire \subseteq Message
  /\ location \in [User -> Node \cup {"none"}]
  /\ dialogs \subseteq User /\ refreshed \subseteq User
  /\ sent \in [User -> SUBSET (Kind \X Auth)]
  /\ answered \in [User -> SUBSET (Method \X Status)]

\* A response travels to the node whose Via is on top of it, and arrives at the
\* UAC with the one Via the UAC has put there: whatever the proxy added on the
\* way, however often a request passed it, is gone.  (forward_request,
\* forward_response, build_response)
RoutedHome ==
  \A m \in wire : IsResponse(m) =>
    /\ m.via # <<>> /\ Head(m.via) = m.to
    /\ m.to = "uac" => Len(m.via) = 1

\* With authentication enabled, a call that has arrived at the UAS, and a
\* contact in the location service, go back to a request with verified
\* credentials, though an INVITE with a Route is let through without any.
\* (handle_request, requires_auth)
VerifiedOnly ==
  AuthEnabled => \A u \in User :
    /\ u \in dialogs => <<"INVITE", "valid">> \in sent[u]
    /\ location[u] # "none" => <<"REGISTER", "valid">> \in sent[u]

\* An answer, or an INVITE sent back to the UAC, which ignores requests.
Answered(u, k) ==
  \/ \E s \in Status : <<k, s>> \in answered[u]
  \/ k = "INVITE" /\ u \in LocalUser /\ location[u] = "uac"

\* A datagram that may still become the answer to a request, at a node that
\* handles it.
Carries(m, u, k) ==
  /\ m.user = u /\ m.method = k /\ m.route = "none" /\ m.status # 100
  /\ \/ m.to = "proxy"
     \/ m.to = "uas" /\ IsRequest(m) /\ k # "REGISTER"
     \/ m.to = "uac" /\ IsResponse(m)

\* No node loses a request: until it is answered (or sent back, see Answered), it,
\* its challenge, its retry or its answer is on the way to a node that knows what
\* to do with it.  That is so if a datagram has room for the proxy's Via.
\* (handle_request, forward_request, forward_response, handle_auth_challenge)
Underway ==
  MaxVia >= 2 =>
    \A u \in User, k \in {"INVITE", "REGISTER", "BYE"} :
      <<k, "none">> \in sent[u] => Answered(u, k) \/ \E m \in wire : Carries(m, u, k)

\* How many datagrams in a row may still follow from one.  A re-INVITE goes round
\* in the proxy until it is too long.
Ahead(m) ==
  CASE m.route # "none" -> 9 + (MaxVia - Len(m.via))
    [] m.route = "none" /\ m.method = "ACK" -> IF m.to = "proxy" THEN 1 ELSE 0
    [] m.route = "none" /\ m.method # "ACK" /\ IsRequest(m) ->
         IF m.to # "proxy" THEN 4 ELSE IF m.auth = "none" THEN 8 ELSE 5
    [] OTHER -> (IF m.to = "proxy" THEN 3 ELSE 2) + (IF Challenged(m) THEN 4 ELSE 0)

\* Nothing goes round for ever between the three: what a datagram is answered or
\* passed on with is closer to the end than it was, forwarding loops and
\* repeated challenges included.  The proxy looks at no Max-Forwards.
\* (forward_request, forward_response, handle_auth_challenge)
Descends ==
  [][\A m \in wire \ wire', n \in wire' \ wire : Ahead(n) \in 0..(Ahead(m) - 1)]_vars

\* Every call, registration and BYE is answered in the end, whether it is
\* challenged, refused, unknown or accepted.  The exception is an INVITE to a
\* user of the managed domain whom the UAC itself has registered: the proxy
\* sends it back to the UAC, which ignores requests.  (forward_request)
RequestsAnswered ==
  <>[](\A u \in User, k \in {"INVITE", "REGISTER", "BYE"} :
         <<k, "none">> \in sent[u] => Answered(u, k))

\* The re-INVITE of an established session reaches the UAS, unless the call
\* ends: docs/sip-load-tester.md has it refresh the session.
SessionRefreshed ==
  \A u \in User :
    <<"REINVITE", "none">> \in sent[u] ~> u \in refreshed \/ <<"BYE", "none">> \in sent[u]
=============================================================================
