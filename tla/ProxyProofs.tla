---------------------------- MODULE ProxyProofs ----------------------------
(***************************************************************************)
(* Proofs about Proxy, for any users, any managed domain and any number of *)
(* Via headers that fit into a datagram: responses find the way back,      *)
(* nothing is done for a user without verified credentials, no request is  *)
(* lost and none goes round for ever.                                      *)
(***************************************************************************)
EXTENDS Proxy, SequenceTheorems, TLAPS

\* The Via headers of every datagram are the UAC's below any number of the
\* proxy's.
ViaOK(via) ==
  /\ via \in Seq({"uac", "proxy"})
  /\ Len(via) >= 1
  /\ \A i \in 1 .. Len(via) : via[i] = "uac" <=> i = Len(via)

\* The top one is where a request comes from and where a response goes; a
\* request with a Route never leaves the proxy.
RouteOK(m) ==
  /\ ViaOK(m.via)
  /\ m.via[1] = IF IsRequest(m) THEN m.from ELSE m.to
  /\ m.route \in {"none", "proxy"}
  /\ m.route = "proxy" => m.to = "proxy" /\ IsRequest(m)

RoutedInv == \A m \in wire : RouteOK(m)

\* Credentials on their way have been sent, and no call or registration passes
\* the proxy without.
CredentialsInv ==
  \A m \in wire : IsRequest(m) =>
    /\ m.auth = "valid" => <<m.method, "valid">> \in sent[m.user]
    /\ AuthEnabled /\ m.to = "uas" /\ m.method = "INVITE" => m.auth = "valid"

IInv == TypeOK /\ RoutedInv /\ CredentialsInv /\ VerifiedOnly

-----------------------------------------------------------------------------
\* forward_request puts the proxy's Via on top of the others.
LEMMA PushVia ==
  ASSUME NEW via, ViaOK(via)
  PROVE  /\ ViaOK(<<"proxy">> \o via)
         /\ (<<"proxy">> \o via)[1] = "proxy"
<1> DEFINE new == <<"proxy">> \o via
<1>1. /\ new \in Seq({"uac", "proxy"})
      /\ Len(new) = Len(via) + 1
      /\ new[1] = "proxy"
      /\ \A i \in 2 .. Len(new) : new[i] = via[i - 1]
  BY DEF ViaOK
<1>2. ASSUME NEW i \in 1 .. Len(new)
      PROVE  new[i] = "uac" <=> i = Len(new)
  <2>1. CASE i = 1
    BY <1>1, <2>1 DEF ViaOK
  <2>2. CASE i # 1
    <3>1. i \in 2 .. Len(new) /\ i - 1 \in 1 .. Len(via) /\ Len(via) \in Nat
      BY <1>1, <2>2 DEF ViaOK
    <3>2. new[i] = via[i - 1]
      BY <1>1, <3>1
    <3>3. via[i - 1] = "uac" <=> i - 1 = Len(via)
      BY <3>1 DEF ViaOK
    <3> HIDE DEF new
    <3> QED BY <1>1, <3>1, <3>2, <3>3
  <2> QED BY <2>1, <2>2
<1> HIDE DEF new
<1>3. Len(new) >= 1
  BY <1>1 DEF ViaOK
<1>4. ViaOK(new)
  BY <1>1, <1>2, <1>3 DEF ViaOK
<1> QED BY <1>1, <1>4 DEF new

\* forward_response takes a Via of the proxy off, and there is one below it.
LEMMA PopVia ==
  ASSUME NEW via, ViaOK(via), via[1] = "proxy"
  PROVE  /\ Len(via) > 1
         /\ ViaOK(Tail(via))
         /\ Tail(via)[1] = via[2]
<1> DEFINE rest == Tail(via)
<1>1. Len(via) \in Nat /\ Len(via) > 1
  BY DEF ViaOK
<1>2. /\ rest \in Seq({"uac", "proxy"})
      /\ Len(rest) = Len(via) - 1
      /\ \A i \in 1 .. Len(rest) : rest[i] = via[i + 1]
  BY <1>1 DEF ViaOK
<1> HIDE DEF rest
<1>3. ASSUME NEW i \in 1 .. Len(rest)
      PROVE  rest[i] = "uac" <=> i = Len(rest)
  <2>1. i + 1 \in 1 .. Len(via)
    BY <1>1, <1>2
  <2>2. via[i + 1] = "uac" <=> i + 1 = Len(via)
    BY <2>1 DEF ViaOK
  <2>3. rest[i] = via[i + 1]
    BY <1>2
  <2>4. i + 1 = Len(via) <=> i = Len(rest)
    BY <1>1, <1>2
  <2> QED BY <2>2, <2>3, <2>4
<1>4. Len(rest) >= 1 /\ rest[1] = via[2]
  <2>1. 1 \in 1 .. Len(rest)
    BY <1>1, <1>2
  <2> QED BY <1>1, <1>2, <2>1
<1>5. ViaOK(rest)
  BY <1>2, <1>3, <1>4 DEF ViaOK
<1> QED BY <1>1, <1>4, <1>5 DEF rest

\* What the operators that build messages return.
LEMMA ResponseType ==
  ASSUME NEW m \in Message, NEW s \in Status
  PROVE  ResponseTo(m, s) \in Message
BY DEF ResponseTo, Message, Auth, Node

LEMMA ResponseRoute ==
  ASSUME NEW m \in Message, RouteOK(m), IsRequest(m), NEW s \in Status \ {0}
  PROVE  RouteOK(ResponseTo(m, s)) /\ ~IsRequest(ResponseTo(m, s))
BY DEF ResponseTo, Message, RouteOK, IsRequest, Status

LEMMA ForwardedType ==
  ASSUME NEW m \in Message, NEW dest \in Node
  PROVE  Forwarded(m, dest) \in Message
<1>1. <<"proxy">> \o m.via \in Seq(Node)
  BY DEF Message, Node
<1> QED BY <1>1 DEF Forwarded, Message, Node

LEMMA ForwardedRoute ==
  ASSUME NEW m \in Message, RouteOK(m), IsRequest(m), NEW dest \in Node,
         m.route = "proxy" => dest = "proxy"
  PROVE  RouteOK(Forwarded(m, dest)) /\ IsRequest(Forwarded(m, dest))
<1>1. ViaOK(<<"proxy">> \o m.via) /\ (<<"proxy">> \o m.via)[1] = "proxy"
  BY PushVia DEF RouteOK
<1> QED BY <1>1 DEF Forwarded, Message, RouteOK, IsRequest

LEMMA BackwardCorrect ==
  ASSUME NEW m \in Message, RouteOK(m), IsResponse(m), m.to = "proxy"
  PROVE  Backward(m) \in Message /\ RouteOK(Backward(m)) /\ ~IsRequest(Backward(m))
<1>0. m.status # 0 /\ m.via[1] = "proxy" /\ ViaOK(m.via)
  BY DEF RouteOK, IsRequest, IsResponse
<1>1. /\ Len(m.via) > 1
      /\ ViaOK(Tail(m.via))
      /\ Tail(m.via)[1] = m.via[2]
  BY <1>0, PopVia
<1>2. Tail(m.via) \in Seq(Node) /\ m.via[2] \in Node
  BY <1>0, <1>1 DEF ViaOK, Node
<1>3. Backward(m) = [m EXCEPT !.to = m.via[2], !.from = "proxy", !.via = Tail(m.via)]
  BY <1>1 DEF Backward
<1>4. Backward(m) \in Message
  BY <1>2, <1>3 DEF Message, Node
<1>5. RouteOK(Backward(m)) /\ ~IsRequest(Backward(m))
  BY <1>0, <1>1, <1>3 DEF Message, RouteOK, IsRequest
<1> QED BY <1>4, <1>5

LEMMA RequestCorrect ==
  ASSUME NEW u \in User, NEW k \in Method, NEW a \in Auth, NEW r \in {"none", "proxy"}
  PROVE  /\ Request(u, k, a, r) \in Message
         /\ RouteOK(Request(u, k, a, r))
<1>1. ViaOK(<<"uac">>) /\ <<"uac">>[1] = "uac" /\ <<"uac">> \in Seq(Node)
  BY DEF ViaOK, Node
<1> QED BY <1>1 DEF Request, Message, RouteOK, IsRequest, Node, Status

-----------------------------------------------------------------------------
\* What a step puts on the wire is well routed when what it sends is.
LEMMA ArrivePreserves ==
  ASSUME NEW m, NEW out, wire \subseteq Message, RoutedInv, Arrive(m, out),
         \A n \in out : n \in Message /\ RouteOK(n)
  PROVE  wire' \subseteq Message /\ RoutedInv'
BY DEF Arrive, RoutedInv, RouteOK, ViaOK, IsRequest

\* Every datagram a step sends carries credentials only as CredentialsInv
\* allows, if no credentials are taken out of sent.
LEMMA ArriveCredentials ==
  ASSUME NEW m, NEW out, CredentialsInv, Arrive(m, out), wire \subseteq Message,
         \A u \in User : sent[u] \subseteq sent'[u],
         \A n \in out : IsRequest(n) =>
           /\ n.auth = "valid" => <<n.method, "valid">> \in sent'[n.user]
           /\ AuthEnabled /\ n.to = "uas" /\ n.method = "INVITE" => n.auth = "valid"
  PROVE  CredentialsInv'
BY DEF Arrive, CredentialsInv, IsRequest, Message

LEMMA InitInv == Init => IInv
BY DEF Init, IInv, TypeOK, RoutedInv, CredentialsInv, VerifiedOnly, Kind, Method

LEMMA ProxyPreserves ==
  ASSUME IInv, NEW m \in wire, ProxyStep(m)
  PROVE  IInv'
<1>1. m \in Message /\ RouteOK(m)
  BY DEF IInv, TypeOK, RoutedInv
<1>2. CASE Challenge(m)
  <2>1. PICK s \in Status \ {0} : Arrive(m, {ResponseTo(m, s)})
    BY <1>2 DEF Challenge, Status
  <2>2. ResponseTo(m, s) \in Message /\ RouteOK(ResponseTo(m, s)) /\ ~IsRequest(ResponseTo(m, s))
    BY <1>1, <1>2, ResponseType, ResponseRoute DEF Challenge
  <2>3. wire' \subseteq Message /\ RoutedInv'
    BY <2>1, <2>2, ArrivePreserves DEF IInv, TypeOK
  <2>4. CredentialsInv'
    BY <1>2, <2>1, <2>2, ArriveCredentials DEF IInv, TypeOK, Challenge
  <2> QED BY <1>2, <2>3, <2>4 DEF Challenge, IInv, TypeOK, VerifiedOnly
<1>3. CASE Register(m)
  <2>1. ResponseTo(m, 200) \in Message /\ RouteOK(ResponseTo(m, 200))
          /\ ~IsRequest(ResponseTo(m, 200))
    BY <1>1, <1>3, ResponseType, ResponseRoute DEF Register, Status
  <2>2. wire' \subseteq Message /\ RoutedInv'
    BY <1>3, <2>1, ArrivePreserves DEF IInv, TypeOK, Register
  <2>3. CredentialsInv'
    BY <1>3, <2>1, ArriveCredentials DEF IInv, TypeOK, Register
  <2>4. AuthEnabled => <<"REGISTER", "valid">> \in sent[m.user]
    BY <1>3 DEF Register, Accepts, IInv, CredentialsInv
  <2>5. m.user \in User /\ m.from \in Node
    BY <1>1 DEF Message
  <2>6. TypeOK'
    BY <1>3, <2>2, <2>5 DEF Register, IInv, TypeOK
  <2>7. VerifiedOnly'
    BY <1>3, <2>4, <2>5 DEF Register, IInv, TypeOK, VerifiedOnly
  <2> QED BY <2>2, <2>3, <2>6, <2>7 DEF IInv
<1>4. CASE ForwardLocal(m)
  <2>1. CASE location[m.user] # "none" /\ Arrive(m, {Forwarded(m, location[m.user])})
    <3>1. location[m.user] \in Node /\ m.route = "none"
      BY <1>1, <1>4, <2>1 DEF ForwardLocal, LocalCall, Message, IInv, TypeOK
    <3> DEFINE n == Forwarded(m, location[m.user])
    <3>2. n \in Message /\ RouteOK(n)
      BY <1>1, <1>4, <3>1, ForwardedType, ForwardedRoute DEF ForwardLocal
    <3>3. n.auth = m.auth /\ n.user = m.user /\ n.method = m.method
      BY <1>1 DEF Forwarded, Message
    <3>4. AuthEnabled => m.auth = "valid"
      BY <1>4 DEF ForwardLocal, Allowed, NeedsAuth, LocalCall, Accepts
    <3>5. m.auth = "valid" => <<m.method, "valid">> \in sent[m.user]
      BY <1>4 DEF ForwardLocal, IInv, CredentialsInv
    <3> HIDE DEF n
    <3>6. Arrive(m, {n}) /\ sent' = sent
      BY <1>4, <2>1 DEF n, ForwardLocal
    <3>7. wire' \subseteq Message /\ RoutedInv'
      BY <3>2, <3>6, ArrivePreserves DEF IInv, TypeOK
    <3>8. CredentialsInv'
      BY <3>3, <3>4, <3>5, <3>6, ArriveCredentials DEF IInv, TypeOK
    <3> QED BY <1>4, <3>7, <3>8 DEF ForwardLocal, IInv, TypeOK, VerifiedOnly
  <2>2. CASE Arrive(m, {ResponseTo(m, 404)})
    <3>1. ResponseTo(m, 404) \in Message /\ RouteOK(ResponseTo(m, 404))
            /\ ~IsRequest(ResponseTo(m, 404))
      BY <1>1, <1>4, ResponseType, ResponseRoute DEF ForwardLocal, Status
    <3>2. wire' \subseteq Message /\ RoutedInv'
      BY <2>2, <3>1, ArrivePreserves DEF IInv, TypeOK
    <3>3. CredentialsInv'
      BY <1>4, <2>2, <3>1, ArriveCredentials DEF IInv, TypeOK, ForwardLocal
    <3> QED BY <1>4, <3>2, <3>3 DEF ForwardLocal, IInv, TypeOK, VerifiedOnly
  <2> QED BY <1>4, <2>1, <2>2 DEF ForwardLocal
<1>5. CASE Forward(m)
  <2> DEFINE n == Forwarded(m, Destination(m))
  <2>1. Destination(m) \in Node /\ (m.route = "proxy" => Destination(m) = "proxy")
    BY <1>1 DEF Destination, RouteOK, Node
  <2>2. n \in Message /\ RouteOK(n)
    BY <1>1, <1>5, <2>1, ForwardedType, ForwardedRoute DEF Forward
  <2>3. n.auth = m.auth /\ n.user = m.user /\ n.method = m.method /\ n.to = Destination(m)
    BY <1>1 DEF Forwarded, Message
  <2>4. AuthEnabled /\ n.to = "uas" /\ m.method = "INVITE" => m.auth = "valid"
    BY <1>1, <1>5, <2>3 DEF Forward, Allowed, NeedsAuth, Accepts, Destination, RouteOK
  <2>5. m.auth = "valid" => <<m.method, "valid">> \in sent[m.user]
    BY <1>5 DEF Forward, IInv, CredentialsInv
  <2> HIDE DEF n
  <2>6. Arrive(m, {n}) /\ sent' = sent
    BY <1>5 DEF n, Forward
  <2>7. wire' \subseteq Message /\ RoutedInv'
    BY <2>2, <2>6, ArrivePreserves DEF IInv, TypeOK
  <2>8. CredentialsInv'
    BY <2>3, <2>4, <2>5, <2>6, ArriveCredentials DEF IInv, TypeOK
  <2> QED BY <1>5, <2>7, <2>8 DEF Forward, IInv, TypeOK, VerifiedOnly
<1>6. CASE ForwardResponse(m)
  <2>1. Backward(m) \in Message /\ RouteOK(Backward(m)) /\ ~IsRequest(Backward(m))
    BY <1>1, <1>6, BackwardCorrect DEF ForwardResponse, Received
  <2>2. wire' \subseteq Message /\ RoutedInv'
    BY <1>6, <2>1, ArrivePreserves DEF IInv, TypeOK, ForwardResponse
  <2>3. CredentialsInv'
    BY <1>6, <2>1, ArriveCredentials DEF IInv, TypeOK, ForwardResponse
  <2> QED BY <1>6, <2>2, <2>3 DEF ForwardResponse, IInv, TypeOK, VerifiedOnly
<1> QED BY <1>2, <1>3, <1>4, <1>5, <1>6 DEF ProxyStep

LEMMA UasPreserves ==
  ASSUME IInv, NEW m \in wire, UasStep(m)
  PROVE  IInv'
<1>1. m \in Message /\ RouteOK(m) /\ IsRequest(m)
  BY DEF IInv, TypeOK, RoutedInv, UasStep
<1>2. \A s \in Status \ {0} :
        ResponseTo(m, s) \in Message /\ RouteOK(ResponseTo(m, s)) /\ ~IsRequest(ResponseTo(m, s))
  BY <1>1, ResponseType, ResponseRoute
<1>3. PICK out : /\ Arrive(m, out)
                 /\ \A n \in out : n \in Message /\ RouteOK(n) /\ ~IsRequest(n)
  <2>1. CASE UasInvite(m)
    BY <1>2, <2>1 DEF UasInvite, Status
  <2>2. CASE UasAck(m)
    BY <2>2 DEF UasAck
  <2>3. CASE UasBye(m)
    BY <1>2, <2>3 DEF UasBye, Status
  <2> QED BY <2>1, <2>2, <2>3 DEF UasStep
<1>4. wire' \subseteq Message /\ RoutedInv'
  BY <1>3, ArrivePreserves DEF IInv, TypeOK
<1>5. CredentialsInv'
  BY <1>3, ArriveCredentials DEF IInv, TypeOK, UasStep
<1>6. m.user \in User
  BY <1>1 DEF Message
<1>7. TypeOK'
  BY <1>4, <1>6 DEF UasStep, UasInvite, UasAck, UasBye, IInv, TypeOK
<1>8. VerifiedOnly'
  <2>1. CASE UasInvite(m)
    <3>1. AuthEnabled => <<"INVITE", "valid">> \in sent[m.user]
      BY <1>1, <2>1 DEF UasStep, UasInvite, IInv, CredentialsInv
    <3> QED BY <3>1, <1>6, <2>1 DEF UasStep, UasInvite, IInv, VerifiedOnly
  <2>2. CASE UasAck(m)
    BY <2>2 DEF UasStep, UasAck, IInv, VerifiedOnly
  <2>3. CASE UasBye(m)
    BY <2>3 DEF UasStep, UasBye, IInv, VerifiedOnly
  <2> QED BY <2>1, <2>2, <2>3 DEF UasStep
<1> QED BY <1>4, <1>5, <1>7, <1>8 DEF IInv

LEMMA UacPreserves ==
  ASSUME IInv, NEW m \in wire, UacStep(m)
  PROVE  IInv'
<1>1. m \in Message /\ RouteOK(m) /\ m.user \in User /\ m.method \in Method /\ m.status \in Status
  BY DEF IInv, TypeOK, RoutedInv, Message
<1>2. CASE Authenticate(m)
  <2>1. PICK a \in {"valid", "invalid"} :
          /\ sent' = [sent EXCEPT ![m.user] = @ \cup {<<m.method, a>>}]
          /\ Arrive(m, {Request(m.user, m.method, a, "none")})
    BY <1>2 DEF Authenticate
  <2> DEFINE n == Request(m.user, m.method, a, "none")
  <2>2. n \in Message /\ RouteOK(n)
    BY <1>1, RequestCorrect DEF Auth
  <2>3. n.auth = a /\ n.user = m.user /\ n.method = m.method /\ n.to = "proxy"
    BY DEF Request
  <2> HIDE DEF n
  <2>4. wire' \subseteq Message /\ RoutedInv'
    BY <2>1, <2>2, ArrivePreserves DEF IInv, TypeOK, n
  <2>5. \A u \in User : sent[u] \subseteq sent'[u]
    BY <2>1 DEF IInv, TypeOK
  <2>6. <<m.method, a>> \in sent'[m.user]
    BY <1>1, <2>1 DEF IInv, TypeOK
  <2>7. CredentialsInv'
    BY <2>1, <2>3, <2>5, <2>6, ArriveCredentials DEF IInv, TypeOK, n
  <2>8. TypeOK'
    BY <1>1, <1>2, <2>1, <2>4 DEF Authenticate, IInv, TypeOK, Kind, Auth
  <2>9. VerifiedOnly'
    BY <1>2, <2>5 DEF Authenticate, IInv, VerifiedOnly
  <2> QED BY <2>4, <2>7, <2>8, <2>9 DEF IInv
<1>3. CASE Conclude(m)
  <2>1. PICK out \in SUBSET {Request(m.user, "ACK", "none", "none")} : Arrive(m, out)
    BY <1>3 DEF Conclude
  <2>2. \A n \in out : n \in Message /\ RouteOK(n)
    BY <1>1, RequestCorrect DEF Auth, Method
  <2>3. \A n \in out : n.auth = "none" /\ n.to = "proxy"
    BY DEF Request
  <2>4. wire' \subseteq Message /\ RoutedInv'
    BY <2>1, <2>2, ArrivePreserves DEF IInv, TypeOK
  <2>5. CredentialsInv'
    BY <1>3, <2>1, <2>3, ArriveCredentials DEF Conclude, IInv, TypeOK
  <2> QED BY <1>1, <1>3, <2>4, <2>5 DEF Conclude, IInv, TypeOK, VerifiedOnly
<1>4. CASE Ignore(m)
  <2>1. Arrive(m, {})
    BY <1>4 DEF Ignore
  <2>2. wire' \subseteq Message /\ RoutedInv'
    BY <2>1, ArrivePreserves DEF IInv, TypeOK
  <2>3. CredentialsInv'
    BY <1>4, <2>1, ArriveCredentials DEF Ignore, IInv, TypeOK
  <2> QED BY <1>4, <2>2, <2>3 DEF Ignore, IInv, TypeOK, VerifiedOnly
<1> QED BY <1>2, <1>3, <1>4 DEF UacStep

\* Any of the four requests the UAC starts with.
LEMMA SendPreserves ==
  ASSUME IInv, NEW u \in User, NEW kind \in Kind, NEW k \in Method, NEW r \in {"none", "proxy"},
         Send(u, kind, Request(u, k, "none", r))
  PROVE  IInv'
<1> DEFINE n == Request(u, k, "none", r)
<1>1. n \in Message /\ RouteOK(n)
  BY RequestCorrect DEF Auth
<1>2. n.auth = "none" /\ n.to = "proxy"
  BY DEF Request
<1> HIDE DEF n
<1>3. /\ wire' = wire \cup {n}
      /\ sent' = [sent EXCEPT ![u] = @ \cup {<<kind, "none">>}]
      /\ UNCHANGED <<location, dialogs, refreshed, answered>>
  BY DEF Send, n
<1>4. \A v \in User : sent[v] \subseteq sent'[v]
  BY <1>3 DEF IInv, TypeOK
<1>5. wire' \subseteq Message /\ RoutedInv'
  BY <1>1, <1>3 DEF IInv, TypeOK, RoutedInv, RouteOK, ViaOK, IsRequest
<1>6. CredentialsInv'
  BY <1>2, <1>3, <1>4 DEF IInv, TypeOK, CredentialsInv, IsRequest, Message
<1>7. TypeOK'
  BY <1>3, <1>5 DEF IInv, TypeOK, Auth
<1>8. VerifiedOnly'
  BY <1>3, <1>4 DEF IInv, VerifiedOnly
<1> QED BY <1>5, <1>6, <1>7, <1>8 DEF IInv

LEMMA StepInv == IInv /\ [Next]_vars => IInv'
<1> SUFFICES ASSUME IInv, [Next]_vars PROVE IInv'
  OBVIOUS
<1>1. CASE Deliver
  BY <1>1, ProxyPreserves, UasPreserves, UacPreserves DEF Deliver
<1>2. CASE Start
  <2>1. PICK u \in User : SendInvite(u) \/ SendRegister(u) \/ SendReinvite(u) \/ SendBye(u)
    BY <1>2 DEF Start
  <2> QED BY <2>1, SendPreserves
          DEF SendInvite, SendRegister, SendReinvite, SendBye, Kind, Method
<1>3. CASE UNCHANGED vars
  BY <1>3 DEF vars, IInv, TypeOK, RoutedInv, CredentialsInv, VerifiedOnly
<1> QED BY <1>1, <1>2, <1>3 DEF Next

THEOREM Inductive == Spec => []IInv
<1>1. Init => IInv
  BY InitInv
<1>2. IInv /\ [Next]_vars => IInv'
  BY StepInv
<1> QED BY <1>1, <1>2, PTL DEF Spec

\* Every datagram on the wire is a message, and the tables stay what they are.
\* (proxy/mod.rs, proxy/location.rs)
THEOREM ProxyTypeCorrect == Spec => []TypeOK
<1>1. IInv => TypeOK
  BY DEF IInv
<1> QED BY <1>1, Inductive, PTL

\* However many hops a request has taken, its response goes back over them.
\* (forward_request, forward_response)
THEOREM ResponsesRoutedHome == Spec => []RoutedHome
<1>1. IInv => RoutedHome
  <2> SUFFICES ASSUME IInv, NEW m \in wire, IsResponse(m)
               PROVE  /\ m.via # <<>> /\ Head(m.via) = m.to
                      /\ m.to = "uac" => Len(m.via) = 1
    BY DEF RoutedHome
  <2>1. ViaOK(m.via) /\ m.via[1] = m.to
    BY DEF IInv, RoutedInv, RouteOK, IsRequest, IsResponse
  <2>2. m.via # <<>> /\ Head(m.via) = m.via[1] /\ 1 \in 1 .. Len(m.via)
    BY <2>1 DEF ViaOK
  <2>3. m.via[1] = "uac" <=> 1 = Len(m.via)
    BY <2>1, <2>2 DEF ViaOK
  <2> QED BY <2>1, <2>2, <2>3
<1> QED BY <1>1, Inductive, PTL

\* With authentication, neither the location service nor the UAS knows a user
\* for whom the UAC has not sent valid credentials.
\* (handle_request, requires_auth)
THEOREM OnlyVerified == Spec => []VerifiedOnly
<1>1. IInv => VerifiedOnly
  BY DEF IInv
<1> QED BY <1>1, Inductive, PTL
-----------------------------------------------------------------------------
(* No request is lost, and none goes round for ever.                        *)

\* A request that starts at the proxy comes from the UAC, a response has the Via
\* headers of such a request, and only a re-INVITE has a Route.
PathOK(m) ==
  /\ m.route = "proxy" => m.method = "INVITE"
  /\ m.route = "none" => Len(m.via) <= 2
  /\ m.route = "none" /\ IsRequest(m) /\ m.to = "proxy" => m.from = "uac" /\ Len(m.via) = 1
  /\ IsResponse(m) => m.route = "none" /\ m.method # "ACK"

PathInv ==
  /\ \A u \in User : location[u] \in {"none", "uac"}
  /\ \A m \in wire : PathOK(m) /\ Fits(m)

\* A datagram that some request still needs.
Needed(m) == Carries(m, m.user, m.method) /\ m.method # "ACK"

\* The proxy has sent an INVITE back to the UAC.
SentBack(m) == m.method = "INVITE" /\ m.user \in LocalUser /\ location[m.user] = "uac"

LEMMA RequestPath ==
  ASSUME NEW u \in User, NEW k \in Method, NEW a \in Auth, NEW r \in {"none", "proxy"},
         r = "proxy" => k = "INVITE"
  PROVE  LET n == Request(u, k, a, r)
         IN  /\ PathOK(n) /\ Fits(n)
             /\ r = "none" /\ k # "ACK" => Needed(n)
             /\ r = "none" => Ahead(n) = IF k = "ACK" THEN 1 ELSE IF a = "none" THEN 8 ELSE 5
<1> DEFINE n == Request(u, k, a, r)
<1>1. /\ n.to = "proxy" /\ n.from = "uac" /\ n.status = 0 /\ n.user = u
      /\ n.method = k /\ n.auth = a /\ n.route = r /\ n.via = <<"uac">>
  BY DEF Request
<1>2. Len(<<"uac">>) = 1
  OBVIOUS
<1> HIDE DEF n
<1>3. IsRequest(n) /\ ~IsResponse(n)
  BY <1>1 DEF IsRequest, IsResponse
<1>4. PathOK(n)
  BY <1>1, <1>2, <1>3 DEF PathOK
<1>5. Fits(n)
  BY <1>1, <1>2, ProxyAssumption DEF Fits
<1>6. r = "none" /\ k # "ACK" => Needed(n)
  BY <1>1 DEF Needed, Carries
<1>7. r = "none" => Ahead(n) = IF k = "ACK" THEN 1 ELSE IF a = "none" THEN 8 ELSE 5
  BY <1>1, <1>3 DEF Ahead
<1> QED BY <1>4, <1>5, <1>6, <1>7 DEF n

\* A node answers a request with a response on the same path, closer to the end.
LEMMA ResponsePath ==
  ASSUME NEW m \in Message, RouteOK(m), PathOK(m), IsRequest(m), m.route = "none",
         m.method # "ACK", m.to \in {"proxy", "uas"},
         NEW s \in Status \ {0}, s \in {401, 407} => m.to = "proxy" /\ m.auth = "none"
  PROVE  LET n == ResponseTo(m, s)
         IN  /\ PathOK(n) /\ Ahead(n) < Ahead(m)
             /\ Fits(m) => Fits(n)
             /\ s # 100 => Needed(n)
             /\ n.user = m.user /\ n.method = m.method
<1> DEFINE n == ResponseTo(m, s)
<1>1. /\ n.to = m.from /\ n.status = s /\ n.user = m.user /\ n.method = m.method
      /\ n.route = "none" /\ n.via = m.via
  BY DEF ResponseTo, Message
<1>2. m.from \in {"uac", "proxy"}
  BY DEF RouteOK, ViaOK
<1> HIDE DEF n
<1>3. IsResponse(n) /\ ~IsRequest(n)
  BY <1>1 DEF IsResponse, IsRequest
<1>4. PathOK(n)
  BY <1>1, <1>3 DEF PathOK
<1>5. Ahead(n) = (IF m.from = "proxy" THEN 3 ELSE 2) + (IF s \in {401, 407} THEN 4 ELSE 0)
  BY <1>1, <1>3 DEF Ahead, Challenged
<1>6. Ahead(m) = IF m.to # "proxy" THEN 4 ELSE IF m.auth = "none" THEN 8 ELSE 5
  BY DEF Ahead
<1>7. Ahead(n) < Ahead(m)
  BY <1>2, <1>5, <1>6, SMT
<1>8. s # 100 => Needed(n)
  BY <1>1, <1>2, <1>3 DEF Needed, Carries
<1>9. Fits(m) => Fits(n)
  BY <1>1 DEF Fits
<1> QED BY <1>1, <1>4, <1>7, <1>8, <1>9 DEF n

\* forward_request: one more Via, and no longer at the proxy unless it is a re-INVITE.
LEMMA ForwardedPath ==
  ASSUME NEW m \in Message, RouteOK(m), PathOK(m), IsRequest(m), m.to = "proxy",
         NEW dest \in {"uac", "uas", "proxy"}, dest = "proxy" <=> m.route = "proxy"
  PROVE  LET n == Forwarded(m, dest)
         IN  /\ PathOK(n) /\ Ahead(n) < Ahead(m)
             /\ m.route = "none" /\ MaxVia >= 2 => Fits(n)
             /\ m.route = "none" /\ m.method \notin {"ACK", "REGISTER"} /\ dest = "uas" => Needed(n)
             /\ n.user = m.user /\ n.method = m.method
<1> DEFINE n == Forwarded(m, dest)
<1>1. /\ n.to = dest /\ n.from = "proxy" /\ n.status = 0 /\ n.user = m.user
      /\ n.method = m.method /\ n.route = m.route /\ n.via = <<"proxy">> \o m.via
  BY DEF Forwarded, Message, IsRequest
<1>2. Len(m.via) \in Nat /\ Len(<<"proxy">> \o m.via) = Len(m.via) + 1
  BY DEF Message
<1> HIDE DEF n
<1>3. IsRequest(n) /\ ~IsResponse(n) /\ m.route \in {"none", "proxy"} /\ MaxVia \in Nat
  BY <1>1, ProxyAssumption DEF IsRequest, IsResponse, RouteOK
<1>4. m.route = "none" => Len(m.via) = 1
  BY DEF PathOK
<1>5. PathOK(n)
  BY <1>1, <1>2, <1>3, <1>4 DEF PathOK
<1>6. Ahead(n) < Ahead(m)
  <2>1. CASE m.route = "proxy"
    <3>1. Ahead(m) = 9 + (MaxVia - Len(m.via)) /\ Ahead(n) = 9 + (MaxVia - (Len(m.via) + 1))
      BY <1>1, <1>2, <2>1 DEF Ahead
    <3>2. \A x, l \in Nat : 9 + (x - (l + 1)) < 9 + (x - l)
      OBVIOUS
    <3> QED BY <1>2, <1>3, <3>1, <3>2
  <2>2. CASE m.route = "none" /\ m.method = "ACK"
    <3>1. Ahead(m) = 1 /\ Ahead(n) = 0
      BY <1>1, <2>2 DEF Ahead
    <3> QED BY <3>1
  <2>3. CASE m.route = "none" /\ m.method # "ACK"
    <3>1. Ahead(m) \in {5, 8} /\ Ahead(n) = 4
      BY <1>1, <1>3, <2>3 DEF Ahead
    <3> QED BY <3>1
  <2> QED BY <1>3, <2>1, <2>2, <2>3
<1>7. m.route = "none" /\ MaxVia >= 2 => Fits(n)
  BY <1>1, <1>2, <1>3, <1>4 DEF Fits
<1>8. m.route = "none" /\ m.method \notin {"ACK", "REGISTER"} /\ dest = "uas" => Needed(n)
  BY <1>1, <1>3 DEF Needed, Carries
<1> QED BY <1>1, <1>5, <1>6, <1>7, <1>8 DEF n

\* forward_response: the response is one hop from the UAC.
LEMMA BackwardPath ==
  ASSUME NEW m \in Message, RouteOK(m), PathOK(m), IsResponse(m), m.to = "proxy"
  PROVE  LET n == Backward(m)
         IN  /\ PathOK(n) /\ Ahead(n) < Ahead(m)
             /\ Fits(m) => Fits(n)
             /\ Needed(m) => Needed(n)
             /\ n.user = m.user /\ n.method = m.method
<1> DEFINE n == Backward(m)
<1>1. m.status # 0 /\ m.via[1] = "proxy" /\ ViaOK(m.via) /\ m.route = "none" /\ m.method # "ACK"
  BY DEF RouteOK, IsRequest, IsResponse, PathOK
<1>2. Len(m.via) > 1 /\ Len(m.via) \in Nat
  BY <1>1, PopVia DEF ViaOK
<1>3. Len(m.via) = 2
  <2>1. \A l \in Nat : l > 1 /\ l <= 2 => l = 2
    OBVIOUS
  <2> QED BY <1>1, <1>2, <2>1 DEF PathOK
<1>4. m.via[2] = "uac" /\ Len(Tail(m.via)) = 1
  BY <1>1, <1>3 DEF ViaOK
<1>5. /\ n.to = "uac" /\ n.status = m.status /\ n.user = m.user /\ n.method = m.method
      /\ n.route = "none" /\ n.via = Tail(m.via)
  BY <1>1, <1>2, <1>4 DEF Backward, Message
<1> HIDE DEF n
<1>6. IsResponse(n) /\ ~IsRequest(n) /\ ~IsRequest(m)
  BY <1>1, <1>5 DEF IsResponse, IsRequest
<1>7. PathOK(n)
  BY <1>1, <1>4, <1>5, <1>6 DEF PathOK
<1>8. /\ Ahead(m) = 3 + (IF Challenged(m) THEN 4 ELSE 0)
      /\ Ahead(n) = 2 + (IF Challenged(m) THEN 4 ELSE 0)
  BY <1>1, <1>5, <1>6 DEF Ahead, Challenged
<1>9. Ahead(n) < Ahead(m)
  BY <1>8
<1>10. Fits(m) => Fits(n)
  <2>1. \A x \in Nat : 2 <= x => 1 <= x
    OBVIOUS
  <2> QED BY <1>3, <1>4, <1>5, <2>1, ProxyAssumption DEF Fits
<1>11. Needed(m) => Needed(n)
  BY <1>1, <1>5, <1>6 DEF Needed, Carries
<1> QED BY <1>5, <1>7, <1>9, <1>10, <1>11 DEF n

LEMMA AheadNatural ==
  ASSUME NEW m \in Message, Fits(m)
  PROVE  Ahead(m) \in Nat
<1>1. Len(m.via) \in Nat /\ MaxVia \in Nat /\ Len(m.via) <= MaxVia
  BY ProxyAssumption DEF Message, Fits
<1>2. \A x, l \in Nat : l <= x => 9 + (x - l) \in Nat
  OBVIOUS
<1>3. CASE m.route # "none"
  BY <1>1, <1>2, <1>3 DEF Ahead
<1>4. CASE m.route = "none"
  BY <1>4 DEF Ahead
<1> QED BY <1>3, <1>4

-----------------------------------------------------------------------------
\* What the delivery of a datagram that some request needs leaves of it: another one,
\* an answer, or an INVITE sent back.
Outcome(m, out) ==
  \/ \E n \in out : Fits(n) /\ Needed(n) /\ n.user = m.user /\ n.method = m.method
  \/ SentBack(m)
  \/ \E s \in Status : <<m.method, s>> \in answered'[m.user]

Follows(m, out) ==
  /\ Arrive(m, out)
  /\ \A n \in out : PathOK(n) /\ Ahead(n) < Ahead(m)
  /\ MaxVia >= 2 /\ Needed(m) => Outcome(m, out)

LEMMA ProxyFollows ==
  ASSUME IInv, PathInv, NEW m \in wire, ProxyStep(m)
  PROVE  /\ \E out : Follows(m, out)
         /\ UNCHANGED <<sent, answered>>
         /\ \A u \in User : location'[u] = location[u] \/ location'[u] = "uac"
<1>1. m \in Message /\ RouteOK(m) /\ PathOK(m) /\ Fits(m) /\ m.to = "proxy"
  BY DEF IInv, TypeOK, RoutedInv, PathInv, ProxyStep, Challenge, Register, ForwardLocal,
         Forward, ForwardResponse, Received
<1>2. m.user \in User /\ m.route \in {"none", "proxy"}
  BY <1>1 DEF Message, RouteOK
<1>3. CASE Challenge(m)
  <2>1. PICK s \in {401, 403, 407} :
          Arrive(m, {ResponseTo(m, s)}) /\ (s # 403 => m.auth = "none")
    BY <1>3 DEF Challenge
  <2>2. IsRequest(m) /\ m.route = "none" /\ m.method # "ACK"
    BY <1>1, <1>2, <1>3 DEF Challenge, NeedsAuth, PathOK
  <2>3. LET n == ResponseTo(m, s)
        IN  /\ PathOK(n) /\ Ahead(n) < Ahead(m) /\ Fits(n) /\ Needed(n)
            /\ n.user = m.user /\ n.method = m.method
    BY <1>1, <2>1, <2>2, ResponsePath DEF Status
  <2>4. Follows(m, {ResponseTo(m, s)})
    BY <2>1, <2>3 DEF Follows, Outcome
  <2> QED BY <1>3, <2>4 DEF Challenge
<1>4. CASE Register(m)
  <2>1. IsRequest(m) /\ m.route = "none" /\ m.method = "REGISTER" /\ m.from = "uac"
    BY <1>1, <1>2, <1>4 DEF Register, PathOK
  <2>2. LET n == ResponseTo(m, 200)
        IN  /\ PathOK(n) /\ Ahead(n) < Ahead(m) /\ Fits(n) /\ Needed(n)
            /\ n.user = m.user /\ n.method = m.method
    BY <1>1, <2>1, ResponsePath DEF Status
  <2>3. Follows(m, {ResponseTo(m, 200)})
    BY <1>4, <2>2 DEF Follows, Outcome, Register
  <2>4. \A u \in User : location'[u] = location[u] \/ location'[u] = "uac"
    BY <1>2, <1>4, <2>1 DEF Register, IInv, TypeOK
  <2> QED BY <1>4, <2>3, <2>4 DEF Register
<1>5. CASE ForwardLocal(m)
  <2>1. /\ IsRequest(m) /\ m.route = "none" /\ m.method = "INVITE" /\ m.user \in LocalUser
        /\ UNCHANGED <<location, sent, answered>>
    BY <1>5 DEF ForwardLocal, LocalCall
  <2>2. CASE location[m.user] # "none" /\ Arrive(m, {Forwarded(m, location[m.user])})
    <3>1. location[m.user] = "uac"
      BY <1>2, <2>2 DEF PathInv
    <3>2. LET n == Forwarded(m, "uac") IN PathOK(n) /\ Ahead(n) < Ahead(m)
      BY <1>1, <2>1, ForwardedPath
    <3>3. Follows(m, {Forwarded(m, "uac")})
      BY <2>1, <2>2, <3>1, <3>2 DEF Follows, Outcome, SentBack
    <3> QED BY <2>1, <3>3
  <2>3. CASE Arrive(m, {ResponseTo(m, 404)})
    <3>1. LET n == ResponseTo(m, 404)
          IN  /\ PathOK(n) /\ Ahead(n) < Ahead(m) /\ Fits(n) /\ Needed(n)
              /\ n.user = m.user /\ n.method = m.method
      BY <1>1, <2>1, ResponsePath DEF Status
    <3>2. Follows(m, {ResponseTo(m, 404)})
      BY <2>3, <3>1 DEF Follows, Outcome
    <3> QED BY <2>1, <3>2
  <2> QED BY <1>5, <2>2, <2>3 DEF ForwardLocal
<1>6. CASE Forward(m)
  <2> DEFINE dest == Destination(m)
             n == Forwarded(m, dest)
  <2>1. /\ IsRequest(m) /\ m.method # "REGISTER" /\ Arrive(m, {n})
        /\ UNCHANGED <<location, sent, answered>>
    BY <1>6 DEF Forward
  <2>2. /\ dest \in {"uas", "proxy"} /\ (dest = "proxy" <=> m.route = "proxy")
        /\ (dest = "uas" <=> m.route = "none")
    BY <1>2 DEF Destination
  <2> HIDE DEF dest
  <2>3. /\ PathOK(n) /\ Ahead(n) < Ahead(m)
        /\ m.route = "none" /\ MaxVia >= 2 => Fits(n)
        /\ m.route = "none" /\ m.method \notin {"ACK", "REGISTER"} /\ dest = "uas" => Needed(n)
        /\ n.user = m.user /\ n.method = m.method
    BY <1>1, <2>1, <2>2, ForwardedPath
  <2>4. Needed(m) => m.route = "none" /\ m.method # "ACK"
    BY DEF Needed, Carries
  <2>5. Follows(m, {n})
    <3> HIDE DEF n
    <3> QED BY <2>1, <2>2, <2>3, <2>4 DEF Follows, Outcome
  <2> QED BY <2>1, <2>5
<1>7. CASE ForwardResponse(m)
  <2>1. LET n == Backward(m)
        IN  /\ PathOK(n) /\ Ahead(n) < Ahead(m) /\ Fits(n)
            /\ Needed(m) => Needed(n)
            /\ n.user = m.user /\ n.method = m.method
    BY <1>1, <1>7, BackwardPath DEF ForwardResponse
  <2>2. Follows(m, {Backward(m)})
    BY <1>7, <2>1 DEF Follows, Outcome, ForwardResponse
  <2> QED BY <1>7, <2>2 DEF ForwardResponse
<1> QED BY <1>3, <1>4, <1>5, <1>6, <1>7 DEF ProxyStep

LEMMA UasFollows ==
  ASSUME IInv, PathInv, NEW m \in wire, UasStep(m)
  PROVE  \E out : Follows(m, out)
<1>1. /\ m \in Message /\ RouteOK(m) /\ PathOK(m) /\ Fits(m)
      /\ m.to = "uas" /\ IsRequest(m) /\ m.route = "none"
  BY DEF IInv, TypeOK, RoutedInv, RouteOK, PathInv, UasStep
<1>2. m.method # "ACK" => \A s \in {100, 200, 481} :
        LET n == ResponseTo(m, s)
        IN  /\ PathOK(n) /\ Ahead(n) < Ahead(m) /\ Fits(n)
            /\ s # 100 => Needed(n)
            /\ n.user = m.user /\ n.method = m.method
  BY <1>1, ResponsePath DEF Status
<1>3. CASE UasInvite(m)
  <2>1. PICK out : /\ Arrive(m, out) /\ ResponseTo(m, 200) \in out
                   /\ out \subseteq {ResponseTo(m, 100), ResponseTo(m, 200)}
    BY <1>3 DEF UasInvite
  <2>2. m.method # "ACK"
    BY <1>3 DEF UasInvite
  <2>3. Follows(m, out)
    BY <1>2, <2>1, <2>2 DEF Follows, Outcome
  <2> QED BY <2>3
<1>4. CASE UasAck(m)
  <2>1. Follows(m, {})
    BY <1>4 DEF Follows, UasAck, Needed
  <2> QED BY <2>1
<1>5. CASE UasBye(m)
  <2>1. PICK s \in {200, 481} : Arrive(m, {ResponseTo(m, s)})
    BY <1>5 DEF UasBye
  <2>2. Follows(m, {ResponseTo(m, s)})
    BY <1>2, <1>5, <2>1 DEF Follows, Outcome, UasBye
  <2> QED BY <2>2
<1> QED BY <1>3, <1>4, <1>5 DEF UasStep

LEMMA UacFollows ==
  ASSUME IInv, PathInv, NEW m \in wire, UacStep(m)
  PROVE  \E out : Follows(m, out)
<1>1. /\ m \in Message /\ RouteOK(m) /\ PathOK(m) /\ Fits(m) /\ m.to = "uac"
      /\ m.user \in User /\ m.method \in Method /\ m.status \in Status
  BY DEF IInv, TypeOK, RoutedInv, PathInv, UacStep, Authenticate, Conclude, Ignore,
         ReceivedByUac, Message
<1>2. CASE Authenticate(m)
  <2>1. PICK a \in {"valid", "invalid"} : Arrive(m, {Request(m.user, m.method, a, "none")})
    BY <1>2 DEF Authenticate
  <2>2. Challenged(m) /\ IsResponse(m) /\ ~IsRequest(m)
    BY <1>2 DEF Authenticate, Challenged, IsResponse, IsRequest
  <2>3. Ahead(m) = 6 /\ m.method # "ACK"
    BY <1>1, <2>2 DEF Ahead, PathOK
  <2> DEFINE n == Request(m.user, m.method, a, "none")
  <2>4. PathOK(n) /\ Fits(n) /\ Needed(n) /\ Ahead(n) = 5
    BY <1>1, <2>3, RequestPath DEF Auth
  <2>5. n.user = m.user /\ n.method = m.method
    BY DEF Request
  <2>6. Follows(m, {n})
    <3> HIDE DEF n
    <3>1. Arrive(m, {n})
      BY <2>1 DEF n
    <3> QED BY <2>3, <2>4, <2>5, <3>1 DEF Follows, Outcome
  <2> QED BY <2>6
<1>3. CASE Conclude(m)
  <2>1. PICK out \in SUBSET {Request(m.user, "ACK", "none", "none")} : Arrive(m, out)
    BY <1>3 DEF Conclude
  <2>2. <<m.method, m.status>> \in answered'[m.user]
    BY <1>1, <1>3 DEF Conclude, IInv, TypeOK
  <2>3. IsResponse(m) /\ ~IsRequest(m)
    BY <1>3 DEF Conclude, IsResponse, IsRequest
  <2>4. Ahead(m) \in {2, 6}
    BY <1>1, <2>3 DEF Ahead, PathOK
  <2>5. LET n == Request(m.user, "ACK", "none", "none") IN PathOK(n) /\ Ahead(n) = 1
    BY <1>1, RequestPath DEF Auth, Method
  <2>6. Follows(m, out)
    BY <1>1, <2>1, <2>2, <2>4, <2>5 DEF Follows, Outcome
  <2> QED BY <2>6
<1>4. CASE Ignore(m)
  <2>1. m.status \in {0, 100}
    BY <1>1, <1>4 DEF Ignore, Status
  <2>2. ~Needed(m)
    BY <1>1, <2>1 DEF Needed, Carries, IsResponse
  <2>3. Follows(m, {})
    BY <1>4, <2>2 DEF Follows, Ignore
  <2> QED BY <2>3
<1> QED BY <1>2, <1>3, <1>4 DEF UacStep

LEMMA DeliveryFollows ==
  ASSUME IInv, PathInv, NEW m \in wire, ProxyStep(m) \/ UasStep(m) \/ UacStep(m)
  PROVE  /\ \E out : Follows(m, out)
         /\ \A u \in User : location'[u] = location[u] \/ location'[u] = "uac"
         /\ \A u \in User : answered[u] \subseteq answered'[u]
         /\ \A u \in User, k \in Kind : <<k, "none">> \in sent'[u] => <<k, "none">> \in sent[u]
<1>1. CASE ProxyStep(m)
  BY <1>1, ProxyFollows
<1>2. CASE UasStep(m)
  BY <1>2, UasFollows DEF UasStep
<1>3. CASE UacStep(m)
  <2>1. UNCHANGED location /\ \A u \in User : answered[u] \subseteq answered'[u]
    BY <1>3 DEF UacStep, Authenticate, Conclude, Ignore, IInv, TypeOK
  <2>2. \A u \in User, k \in Kind : <<k, "none">> \in sent'[u] => <<k, "none">> \in sent[u]
    BY <1>3 DEF UacStep, Authenticate, Conclude, Ignore, IInv, TypeOK
  <2> QED BY <1>3, <2>1, <2>2, UacFollows
<1> QED BY <1>1, <1>2, <1>3

\* What the UAC sends on its own.
LEMMA StartSends ==
  ASSUME IInv, NEW u \in User,
         SendInvite(u) \/ SendRegister(u) \/ SendReinvite(u) \/ SendBye(u)
  PROVE  \E kind \in Kind, n \in Message :
           /\ wire' = wire \cup {n} /\ PathOK(n) /\ Fits(n)
           /\ sent' = [sent EXCEPT ![u] = @ \cup {<<kind, "none">>}]
           /\ kind # "REINVITE" => Needed(n) /\ n.user = u /\ n.method = kind
           /\ UNCHANGED <<location, dialogs, refreshed, answered>>
<1>1. ASSUME NEW kind \in Kind, NEW k \in Method \ {"ACK"}, NEW r \in {"none", "proxy"},
             kind # "REINVITE" => k = kind /\ r = "none", r = "proxy" => k = "INVITE",
             Send(u, kind, Request(u, k, "none", r))
      PROVE  \E n \in Message :
               /\ wire' = wire \cup {n} /\ PathOK(n) /\ Fits(n)
               /\ sent' = [sent EXCEPT ![u] = @ \cup {<<kind, "none">>}]
               /\ kind # "REINVITE" => Needed(n) /\ n.user = u /\ n.method = kind
               /\ UNCHANGED <<location, dialogs, refreshed, answered>>
  <2> DEFINE n == Request(u, k, "none", r)
  <2>1. n.user = u /\ n.method = k
    BY DEF Request
  <2>2. n \in Message /\ PathOK(n) /\ Fits(n) /\ (r = "none" => Needed(n))
    BY <1>1, RequestCorrect, RequestPath DEF Auth
  <2> HIDE DEF n
  <2>3. wire' = wire \cup {n}
    BY <1>1 DEF Send, n
  <2> QED BY <1>1, <2>1, <2>2, <2>3 DEF Send
<1>2. \A k \in {"INVITE", "REGISTER", "REINVITE", "BYE"} : k \in Kind
  BY DEF Kind, Method
<1>3. \A k \in {"INVITE", "REGISTER", "BYE"} : k \in Method \ {"ACK"}
  BY DEF Method
<1>4. CASE SendInvite(u)
  BY <1>1, <1>2, <1>3, <1>4 DEF SendInvite
<1>5. CASE SendRegister(u)
  BY <1>1, <1>2, <1>3, <1>5 DEF SendRegister
<1>6. CASE SendReinvite(u)
  BY <1>1, <1>2, <1>3, <1>6 DEF SendReinvite
<1>7. CASE SendBye(u)
  BY <1>1, <1>2, <1>3, <1>7 DEF SendBye
<1> QED BY <1>4, <1>5, <1>6, <1>7

-----------------------------------------------------------------------------
LEMMA PathStep == IInv /\ PathInv /\ [Next]_vars => PathInv'
<1> SUFFICES ASSUME IInv, PathInv, [Next]_vars PROVE PathInv'
  OBVIOUS
<1> USE DEF PathOK, Fits, IsRequest, IsResponse
<1>1. CASE Deliver
  <2>1. PICK m \in wire : ProxyStep(m) \/ UasStep(m) \/ UacStep(m)
    BY <1>1 DEF Deliver
  <2>2. PICK out : Follows(m, out)
    BY <2>1, DeliveryFollows
  <2>3. \A n \in wire' : PathOK(n) /\ Fits(n)
    BY <2>2 DEF Follows, Arrive, PathInv
  <2>4. \A u \in User : location'[u] \in {"none", "uac"}
    BY <2>1, DeliveryFollows DEF PathInv
  <2> QED BY <2>3, <2>4 DEF PathInv
<1>2. CASE Start
  <2>1. PICK u \in User : SendInvite(u) \/ SendRegister(u) \/ SendReinvite(u) \/ SendBye(u)
    BY <1>2 DEF Start
  <2>2. PICK n : wire' = wire \cup {n} /\ PathOK(n) /\ Fits(n) /\ UNCHANGED location
    BY <2>1, StartSends
  <2> QED BY <2>2 DEF PathInv
<1>3. CASE UNCHANGED vars
  BY <1>3 DEF PathInv, vars
<1> QED BY <1>1, <1>2, <1>3 DEF Next

LEMMA PathHolds == Spec => []PathInv
<1>1. Init => PathInv
  BY DEF Init, PathInv
<1> QED BY <1>1, PathStep, Inductive, PTL DEF Spec

\* The requests RequestsAnswered is about.
Asked == {"INVITE", "REGISTER", "BYE"}

LEMMA UnderwayStep == IInv /\ PathInv /\ Underway /\ [Next]_vars => Underway'
<1> SUFFICES ASSUME IInv, PathInv, Underway, [Next]_vars, MaxVia >= 2,
                    NEW u \in User, NEW k \in Asked, <<k, "none">> \in sent'[u]
             PROVE  Answered(u, k)' \/ \E n \in wire' : Carries(n, u, k)
  BY DEF Underway, Asked, Carries, IsRequest, IsResponse
<1>1. k \in Kind \ {"ACK", "REINVITE"}
  BY DEF Asked, Kind, Method
<1>2. CASE Deliver
  <2>1. PICK m \in wire : ProxyStep(m) \/ UasStep(m) \/ UacStep(m)
    BY <1>2 DEF Deliver
  <2>2. PICK out : Follows(m, out)
    BY <2>1, DeliveryFollows
  <2>3. /\ location'[u] = location[u] \/ location'[u] = "uac"
        /\ answered[u] \subseteq answered'[u]
        /\ <<k, "none">> \in sent[u]
    BY <1>1, <2>1, DeliveryFollows
  <2>4. CASE Answered(u, k)
    BY <2>3, <2>4 DEF Answered
  <2>5. CASE ~Answered(u, k)
    <3>1. PICK c \in wire : Carries(c, u, k)
      BY <2>3, <2>5 DEF Underway, Asked
    <3>2. CASE c # m
      BY <2>2, <3>1, <3>2 DEF Follows, Arrive
    <3>3. CASE c = m
      <4>1. Needed(m) /\ m.user = u /\ m.method = k
        BY <1>1, <3>1, <3>3 DEF Needed, Carries
      <4>2. Outcome(m, out)
        BY <2>2, <4>1 DEF Follows
      <4>3. CASE \E n \in out : Fits(n) /\ Needed(n) /\ n.user = u /\ n.method = k
        BY <2>2, <4>3 DEF Follows, Arrive, Needed
      <4>4. CASE SentBack(m)
        BY <2>5, <4>1, <4>4 DEF SentBack, Answered
      <4>5. CASE \E s \in Status : <<k, s>> \in answered'[u]
        BY <4>5 DEF Answered
      <4> QED BY <4>1, <4>2, <4>3, <4>4, <4>5 DEF Outcome
    <3> QED BY <3>2, <3>3
  <2> QED BY <2>4, <2>5
<1>3. CASE Start
  <2>1. PICK v \in User : SendInvite(v) \/ SendRegister(v) \/ SendReinvite(v) \/ SendBye(v)
    BY <1>3 DEF Start
  <2>2. PICK kind \in Kind, n \in Message :
          /\ wire' = wire \cup {n}
          /\ sent' = [sent EXCEPT ![v] = @ \cup {<<kind, "none">>}]
          /\ kind # "REINVITE" => Needed(n) /\ n.user = v /\ n.method = kind
          /\ UNCHANGED <<location, answered>>
    BY <2>1, StartSends
  <2>3. CASE <<k, "none">> \in sent[u]
    BY <2>2, <2>3 DEF Underway, Asked, Answered
  <2>4. CASE <<k, "none">> \notin sent[u]
    <3>1. u = v /\ kind = k
      BY <2>2, <2>4 DEF IInv, TypeOK
    <3> QED BY <1>1, <2>2, <3>1 DEF Needed
  <2> QED BY <2>3, <2>4
<1>4. CASE UNCHANGED vars
  BY <1>4 DEF vars, Underway, Asked, Answered
<1> QED BY <1>2, <1>3, <1>4 DEF Next

\* Whatever is challenged, refused, looked up, forwarded or answered, for any users and
\* domain: a request stays on its way until it is answered.  This is the safety half of
\* RequestsAnswered.  (handle_request, forward_request, forward_response)
THEOREM NoRequestLost == Spec => []Underway
<1>1. Init => Underway
  BY DEF Init, Underway
<1> QED BY <1>1, UnderwayStep, Inductive, PathHolds, PTL DEF Spec

\* What one datagram leads to comes to an end, for any users, domain and size of a
\* datagram: its variant is a natural number.  (forward_request, handle_auth_challenge)
THEOREM TrafficDescends == Spec => Descends
<1>1. IInv /\ PathInv /\ PathInv' /\ IInv' /\ [Next]_vars
        => [\A m \in wire \ wire', n \in wire' \ wire : Ahead(n) \in 0..(Ahead(m) - 1)]_vars
  <2> SUFFICES ASSUME IInv, IInv', PathInv, PathInv', Next,
                      NEW m \in wire \ wire', NEW n \in wire' \ wire
               PROVE  Ahead(n) \in 0..(Ahead(m) - 1)
    OBVIOUS
  <2>1. CASE Start
    <3>1. wire \subseteq wire'
      BY <2>1, StartSends DEF Start
    <3> QED BY <3>1
  <2>2. CASE Deliver
    <3>1. PICK c \in wire : ProxyStep(c) \/ UasStep(c) \/ UacStep(c)
      BY <2>2 DEF Deliver
    <3>2. PICK out : Follows(c, out)
      BY <3>1, DeliveryFollows
    <3>3. m = c /\ n \in out
      BY <3>2 DEF Follows, Arrive
    <3>4. Ahead(n) < Ahead(m)
      BY <3>2, <3>3 DEF Follows
    <3>5. m \in Message /\ n \in Message /\ Fits(m) /\ Fits(n)
      BY DEF IInv, TypeOK, PathInv, Fits
    <3>6. Ahead(m) \in Nat /\ Ahead(n) \in Nat
      BY <3>5, AheadNatural
    <3> QED BY <3>4, <3>6
  <2> QED BY <2>1, <2>2 DEF Next
<1> QED BY <1>1, Inductive, PathHolds, PTL DEF Spec, Descends
=============================================================================
