----------------------------- MODULE ServeWSProofs -----------------------------
(***************************************************************************)
(* Proofs about ServeWS, for any connections, usernames, installations and *)
(* handshake messages.                                                     *)
(***************************************************************************)
EXTENDS ServeWS, TLAPS

RegisterLabels == {"canRegister", "register", "publish", "settle"}
ConnectLabels == {"lookup", "join", "announce", "greetMember", "greetPeer"}

\* A goroutine inside a handshake works on a message of the matching kind.
Stages ==
  \A c \in Conns :
    /\ pc[c] \in RegisterLabels => req[c] \in Request /\ req[c].type = "server_register"
    /\ pc[c] \in ConnectLabels => req[c] \in Request /\ req[c].type = "client_connect"

TypeInv == TypeOK /\ Stages

(***************************************************************************)
(* From here on a connection sends one handshake message (MaxHandshakes =  *)
(* 1), so what it asked for never changes once it is known.                *)
(***************************************************************************)

\* The maps and the fields of a Conn agree with what the connections asked for.
Agreement ==
  /\ \A c \in Conns : asked[c] = 0 => req[c] = NoRequest
  /\ \A c \in Conns : username[c] \in {NoUser, req[c].username}
  /\ \A c \in Conns : clientID[c] => req[c].type = "client_connect"
  /\ \A c \in Conns : multiClient[c] => req[c].type = "server_register"
  /\ \A u \in Usernames, c \in Conns : waiting[u] = c => Serves(c, u)
  /\ \A u \in Usernames, c \in Conns : groupServer[u] = c => Serves(c, u)
  /\ \A u \in Usernames : \A c \in groupClients[u] : Asks(c, u)
  /\ \A a, b \in Conns : peers[a] = b => Opposite(a, b)

RouteInv == TypeInv /\ Agreement /\ Isolation

--------------------------------------------------------------------------------
LEMMA RequestFields ==
  ASSUME NEW r \in Request
  PROVE  /\ r.type \in {"server_register", "client_connect"}
         /\ r.username \in Usernames
         /\ r.installID \in Installs
         /\ r.multiClient \in BOOLEAN
         /\ r.authorized \in BOOLEAN
         /\ r # NoRequest
BY DEF Request, NoRequest

LEMMA TypeInvInit == Init => TypeInv
BY ServeWSAssumption, RelayTypesAssumption
   DEF Init, NewManager, NewMemStore, NewRegistry, TypeInv, TypeOK, ManagerTypeOK,
       StoreTypeOK, RegistryTypeOK, WSState, Label, Stages, RegisterLabels, ConnectLabels

LEMMA TypeInvStep == TypeInv /\ [Next]_vars => TypeInv'
<1> SUFFICES ASSUME TypeInv, [Next]_vars
             PROVE  TypeInv'
  OBVIOUS
<1> USE RelayTypesAssumption, ServeWSAssumption, RequestFields
      DEF TypeInv, TypeOK, ManagerTypeOK, StoreTypeOK, RegistryTypeOK, Stages,
          Label, RegisterLabels, ConnectLabels, Goto
<1>1. ASSUME NEW c \in Conns, Step(c)
      PROVE  TypeInv'
  <2>1. CASE ReadError(c)
    BY <2>1 DEF ReadError, managerVars
  <2>2. CASE Reject(c)
    BY <2>2 DEF Reject, connFields, groups, storeVars, WSState
  <2>3. CASE AskRegistry(c)
    BY <2>3 DEF AskRegistry, managerVars
  <2>4. CASE EnterRegistry(c)
    BY <2>4 DEF EnterRegistry, connFields, groups, storeVars, Register, IsValidUsername
  <2>5. CASE Publish(c)
    BY <2>5 DEF Publish, PublishServer, SetWaiting, Evicted, CloseOf, connFields, groups, WSState
  <2>6. CASE Settle(c)
    BY <2>6 DEF Settle, storeVars, groups
  <2>7. CASE Lookup(c)
    BY <2>7 DEF Lookup, managerVars
  <2>8. CASE ServerOffline(c)
    BY <2>8 DEF ServerOffline, DropStaleServer, RemoveWaiting, storeVars, connFields, groups, WSState
  <2>9. CASE JoinMulti(c)
    BY <2>9 DEF JoinMulti, JoinGroup, storeVars
  <2>10. CASE JoinLegacy(c)
    BY <2>10 DEF JoinLegacy, PairWithWaiting, CreatePair, connFields, groups
  <2>11. CASE Announce(c)
    BY <2>11 DEF Announce, managerVars
  <2>12. CASE Greet(c)
    BY <2>12 DEF Greet, storeVars, groups
  <2>13. CASE Forward(c)
    <3>1. PICK T \in Route(c) \cup {{}} :
             /\ Goto(c, "forward", IF T = {} THEN "read" ELSE "write")
             /\ target' = [target EXCEPT ![c] = T]
      BY <2>13 DEF Forward
    <3>2. T \subseteq Conns
      BY <3>1 DEF Route, ForwardFromClient, ForwardFromServer, ForwardToPeer, HasGroup
    <3>. QED  BY <2>13, <3>1, <3>2 DEF Forward, managerVars
  <2>14. CASE \E t \in Conns : WriteToConn(c, t)
    BY <2>14 DEF WriteToConn, managerVars
  <2>15. CASE CloseMember(c)
    BY <2>15 DEF CloseMember, LeaveGroup, ClosesAsGroupClient, HasGroup, storeVars, connFields
  <2>16. CASE Farewell(c)
    BY <2>16 DEF Farewell, storeVars, groups, connFields, WSState
  <2>17. CASE CloseOther(c)
    <3>1. ws' \in [Conns -> WSState]
      BY <2>17 DEF CloseOther, Finished, CloseOf, WSState
    <3>2. CASE DisbandGroup(c)
      BY <2>17, <3>1, <3>2 DEF CloseOther, DisbandGroup, ClosesAsGroupServer, HasGroup, RemoveWaiting, connFields
    <3>3. CASE StopWaiting(c)
      BY <2>17, <3>1, <3>3 DEF CloseOther, StopWaiting, RemoveWaiting, connFields, groups
    <3>4. CASE BreakPair(c)
      BY <2>17, <3>1, <3>4 DEF CloseOther, BreakPair, RemovePair, connFields, groups
    <3>. QED  BY <2>17, <3>2, <3>3, <3>4 DEF CloseOther
  <2>. QED  BY <1>1, <2>1, <2>2, <2>3, <2>4, <2>5, <2>6, <2>7, <2>8, <2>9, <2>10, <2>11,
              <2>12, <2>13, <2>14, <2>15, <2>16, <2>17 DEF Step
<1>2. ASSUME NEW c \in Conns, Remote(c)
      PROVE  TypeInv'
  <2>1. CASE Accept(c)
    BY <2>1 DEF Accept, storeVars, groups, connFields, WSState
  <2>2. CASE ReadFrame(c)
    BY <2>2 DEF ReadFrame, managerVars
  <2>3. ASSUME NEW r \in Requests[c], ReadHandshake(c, r)
        PROVE  TypeInv'
    BY <2>3 DEF ReadHandshake, managerVars
  <2>4. ASSUME NEW r \in Requests[c], Unauthorized(c, r)
        PROVE  TypeInv'
    BY <2>4 DEF Unauthorized, storeVars, groups, connFields, WSState
  <2>5. CASE Disconnect(c)
    BY <2>5 DEF Disconnect, storeVars, groups, connFields, goVars, WSState
  <2>. QED  BY <1>2, <2>1, <2>2, <2>3, <2>4, <2>5 DEF Remote
<1>3. ASSUME NEW c \in Conns, CloseCompletes(c)
      PROVE  TypeInv'
  BY <1>3 DEF CloseCompletes, storeVars, groups, connFields, goVars, WSState
<1>4. CASE Shutdown
  BY <1>4 DEF Shutdown, CloseAll, CloseOf, storeVars, connFields, goVars, WSState
<1>5. CASE UNCHANGED vars
  BY <1>5 DEF vars, managerVars, goVars
<1>. QED  BY <1>1, <1>2, <1>3, <1>4, <1>5 DEF Next

\* Every variable keeps its type: in particular no frame is ever addressed to the
\* nil connection that a missing map entry yields (the nil checks of Forward).
THEOREM TypeCorrect == Spec => []TypeOK
<1>1. TypeInv => TypeOK
  BY DEF TypeInv
<1>. QED  BY <1>1, TypeInvInit, TypeInvStep, PTL DEF Spec

--------------------------------------------------------------------------------
(* Isolation.                                                                *)

LEMMA RouteInvInit == Init => RouteInv
<1>1. Init => Agreement /\ Isolation
  BY RelayTypesAssumption
     DEF Init, NewManager, NewMemStore, NewRegistry, Agreement, Isolation, NoRequest
<1>. QED  BY <1>1, TypeInvInit DEF RouteInv

LEMMA RouteInvStep ==
  ASSUME MaxHandshakes = 1
  PROVE  RouteInv /\ [Next]_vars => RouteInv'
<1> SUFFICES ASSUME RouteInv, [Next]_vars
             PROVE  Agreement' /\ Isolation'
  BY TypeInvStep DEF RouteInv
<1> USE RelayTypesAssumption
<1>ty. /\ TypeOK
       /\ ManagerTypeOK
       /\ Stages
  BY DEF RouteInv, TypeInv, TypeOK
<1>q. ASSUME UNCHANGED <<storeVars, groups, connFields, req, asked, target>>
      PROVE  Agreement' /\ Isolation'
  BY <1>q DEF RouteInv, Agreement, Isolation, Serves, Asks, Opposite, storeVars, groups, connFields
<1>1. ASSUME NEW c \in Conns, Step(c)
      PROVE  Agreement' /\ Isolation'
  <2>1. CASE ReadError(c) \/ AskRegistry(c) \/ Lookup(c) \/ Announce(c)
    BY <2>1, <1>q DEF ReadError, AskRegistry, Lookup, Announce, managerVars, storeVars, groups, connFields
  <2>2. CASE Reject(c) \/ EnterRegistry(c)
    BY <2>2, <1>q DEF Reject, EnterRegistry
  <2>3. CASE Publish(c)
    BY <2>3, <1>ty DEF Publish, Goto, PublishServer, SetWaiting, groups, connFields, RouteInv,
       Agreement, Isolation, Serves, Asks, Opposite, Stages, RegisterLabels, ManagerTypeOK, StoreTypeOK
  <2>4. CASE Settle(c)
    BY <2>4, <1>ty DEF Settle, Goto, storeVars, groups, RouteInv, Agreement, Isolation, Serves, Asks,
       Opposite, Stages, RegisterLabels, ManagerTypeOK
  <2>5. CASE ServerOffline(c)
    BY <2>5, <1>ty DEF ServerOffline, DropStaleServer, RemoveWaiting, storeVars, groups, connFields,
       RouteInv, Agreement, Isolation, Serves, Asks, Opposite, ManagerTypeOK, StoreTypeOK
  <2>6. CASE JoinMulti(c)
    BY <2>6, <1>ty, RequestFields DEF JoinMulti, Goto, JoinGroup, storeVars, RouteInv, Agreement, Isolation,
       Serves, Asks, Opposite, Stages, ConnectLabels, TypeOK, ManagerTypeOK, StoreTypeOK
  <2>7. CASE JoinLegacy(c)
    <3> DEFINE u == req[c].username
               s == waiting[u]
    <3>1. u \in Usernames /\ s \in Conns /\ Serves(s, u) /\ Asks(c, u)
      BY <2>7, <1>ty, RequestFields DEF JoinLegacy, Goto, PairWithWaiting, RouteInv, Agreement,
         Serves, Asks, Stages, ConnectLabels, ManagerTypeOK
    <3>2. /\ peers' = [peers EXCEPT ![s] = c, ![c] = s]
          /\ waiting' = [waiting EXCEPT ![u] = NoConn]
          /\ UNCHANGED <<groups, connFields, req, asked, target>>
      BY <2>7 DEF JoinLegacy, PairWithWaiting, CreatePair
    <3>. HIDE DEF u, s
    <3>3. \A a, b \in Conns : peers'[a] = b => Opposite(a, b)
      <4>1. Opposite(s, c) /\ Opposite(c, s)
        BY <3>1 DEF Opposite
      <4>. QED  BY <3>1, <3>2, <4>1, <1>ty DEF RouteInv, Agreement, ManagerTypeOK, StoreTypeOK
    <3>4. \A a, b \in Conns : Opposite(a, b)' <=> Opposite(a, b)
      BY <3>2 DEF Opposite, Serves, Asks
    <3>5. Isolation'
      BY <3>2, <3>4, <1>ty DEF RouteInv, Isolation, TypeOK
    <3>. QED  BY <3>1, <3>2, <3>3, <3>4, <3>5, <1>ty DEF RouteInv, Agreement, Serves, Asks,
              groups, connFields, ManagerTypeOK, StoreTypeOK
  <2>8. CASE Greet(c)
    BY <2>8, <1>ty DEF Greet, Goto, storeVars, groups, RouteInv, Agreement, Isolation, Serves, Asks,
       Opposite, Stages, ConnectLabels, ManagerTypeOK
  <2>9. CASE Forward(c)
    <3>1. PICK T \in Route(c) \cup {{}} : target' = [target EXCEPT ![c] = T]
      BY <2>9 DEF Forward
    <3>2. \A t \in T : Opposite(c, t)
      <4>1. CASE clientID[c]
        BY <3>1, <4>1, <1>ty DEF Route, ForwardFromClient, HasGroup, RouteInv, Agreement, Serves, Asks,
           Opposite, ManagerTypeOK
      <4>2. CASE ~ clientID[c] /\ multiClient[c] /\ username[c] # NoUser
        <5>1. T = {} \/ (username[c] \in Usernames /\ T \subseteq groupClients[username[c]])
          BY <3>1, <4>2 DEF Route, ForwardFromServer, HasGroup
        <5>. QED  BY <5>1, <4>2, <1>ty DEF RouteInv, Agreement, Serves, Asks, Opposite, ManagerTypeOK
      <4>3. CASE ~ clientID[c] /\ ~ (multiClient[c] /\ username[c] # NoUser)
        <5>1. T \subseteq {peers[c]} \cap conns
          BY <3>1, <4>3 DEF Route, ForwardToPeer
        <5>. QED  BY <5>1, <1>ty DEF RouteInv, Agreement, ManagerTypeOK
      <4>. QED  BY <4>1, <4>2, <4>3
    <3>. QED  BY <2>9, <3>1, <3>2, <1>ty DEF Forward, managerVars, RouteInv, Agreement, Isolation,
              Serves, Asks, Opposite, TypeOK
  <2>10. CASE \E t \in Conns : WriteToConn(c, t)
    BY <2>10, <1>ty DEF WriteToConn, managerVars, RouteInv, Agreement, Isolation, Serves, Asks,
       Opposite, TypeOK
  <2>11. CASE CloseMember(c)
    BY <2>11, <1>ty DEF CloseMember, LeaveGroup, ClosesAsGroupClient, HasGroup, storeVars, connFields,
       RouteInv, Agreement, Isolation, Serves, Asks, Opposite, TypeOK, ManagerTypeOK
  <2>12. CASE Farewell(c)
    BY <2>12, <1>ty DEF Farewell, storeVars, groups, connFields, RouteInv, Agreement, Isolation,
       Serves, Asks, Opposite, TypeOK
  <2>13. CASE CloseOther(c) /\ DisbandGroup(c)
    BY <2>13, <1>ty DEF CloseOther, DisbandGroup, ClosesAsGroupServer, HasGroup, RemoveWaiting, connFields,
       RouteInv, Agreement, Isolation, Serves, Asks, Opposite, ManagerTypeOK, StoreTypeOK
  <2>14. CASE CloseOther(c) /\ StopWaiting(c)
    BY <2>14, <1>ty DEF CloseOther, StopWaiting, RemoveWaiting, groups, connFields,
       RouteInv, Agreement, Isolation, Serves, Asks, Opposite, ManagerTypeOK, StoreTypeOK
  <2>15. CASE CloseOther(c) /\ BreakPair(c)
    BY <2>15, <1>ty DEF CloseOther, BreakPair, RemovePair, groups, connFields,
       RouteInv, Agreement, Isolation, Serves, Asks, Opposite, ManagerTypeOK, StoreTypeOK
  <2>. QED  BY <1>1, <2>1, <2>2, <2>3, <2>4, <2>5, <2>6, <2>7, <2>8, <2>9, <2>10, <2>11,
              <2>12, <2>13, <2>14, <2>15 DEF Step, CloseOther
<1>2. ASSUME NEW c \in Conns, Remote(c)
      PROVE  Agreement' /\ Isolation'
  <2>1. CASE Accept(c) \/ ReadFrame(c) \/ Disconnect(c)
    BY <2>1, <1>q DEF Accept, ReadFrame, Disconnect, managerVars, storeVars, groups, connFields, goVars
  <2>2. ASSUME NEW r \in Requests[c], ReadHandshake(c, r) \/ Unauthorized(c, r)
        PROVE  Agreement' /\ Isolation'
    <3>1. /\ asked[c] = 0
          /\ asked' = [asked EXCEPT ![c] = 1]
          /\ req' = [req EXCEPT ![c] = r]
          /\ UNCHANGED <<storeVars, groups, connFields, target>>
      BY <2>2, <1>ty DEF ReadHandshake, Unauthorized, managerVars, storeVars, groups, connFields, TypeOK
    <3>2. req[c] = NoRequest
      BY <3>1 DEF RouteInv, Agreement
    <3>3. Agreement'
      BY <3>1, <3>2, <1>ty DEF RouteInv, Agreement, Serves, Asks, Opposite, NoRequest, TypeOK,
         ManagerTypeOK, StoreTypeOK, storeVars, groups, connFields
    <3>4. Isolation'
      BY <3>1, <3>2, <1>ty DEF RouteInv, Isolation, Serves, Asks, Opposite, NoRequest, TypeOK
    <3>. QED  BY <3>3, <3>4
  <2>. QED  BY <1>2, <2>1, <2>2 DEF Remote
<1>3. ASSUME NEW c \in Conns, CloseCompletes(c)
      PROVE  Agreement' /\ Isolation'
  BY <1>3, <1>q DEF CloseCompletes, goVars
<1>4. CASE Shutdown
  BY <1>4 DEF Shutdown, CloseAll, storeVars, connFields, goVars, RouteInv, Agreement, Isolation,
     Serves, Asks, Opposite
<1>5. CASE UNCHANGED vars
  BY <1>5, <1>q DEF vars, managerVars, goVars, storeVars, groups, connFields
<1>. QED  BY <1>1, <1>2, <1>3, <1>4, <1>5 DEF Next

\* Nothing the relay writes to a connection, be it a frame or the news of a client
\* that left, comes from outside the username and the role it asked for.
THEOREM IsolationHolds ==
  ASSUME MaxHandshakes = 1
  PROVE  Spec => []Isolation
<1>1. RouteInv => Isolation
  BY DEF RouteInv
<1>. QED  BY <1>1, RouteInvInit, RouteInvStep, PTL DEF Spec

--------------------------------------------------------------------------------
(* A username that only one connection can register.                         *)

SoleServers ==
  \A s, t \in Conns : \A q \in Requests[s], r \in Requests[t] :
    /\ q.type = "server_register" /\ r.type = "server_register"
    /\ q.username = r.username
    => s = t

Connected(c) ==
  \/ clientID[c] \/ peers[c] # NoConn \/ target[c] # {}
  \/ \E u \in Usernames : c \in groupClients[u]
  \/ pc[c] \in {"announce", "greetMember", "greetPeer"}

\* A client that has got as far as a group, a peer or a target was connected to a server
\* of the username it asked for.
Told ==
  /\ \A c \in Conns : req[c] \in Requests[c] \cup {NoRequest}
  /\ \A c, s \in Conns : serverWS[c] = s => \E u \in Usernames : Asks(c, u) /\ Serves(s, u)
  /\ \A c \in Conns : req[c].type = "client_connect" /\ Connected(c) => serverWS[c] \in Conns

LEMMA ToldInit == Init => Told
BY RelayTypesAssumption
   DEF Init, NewManager, NewMemStore, Told, Connected, NoRequest

\* Nobody gets further and nobody asks for anything else.
LEMMA ToldQuiet ==
  ASSUME Told, UNCHANGED <<req, serverWS>>,
         \A c \in Conns : req[c].type = "client_connect" /\ Connected(c)' =>
           Connected(c) \/ serverWS[c] \in Conns
  PROVE  Told'
BY DEF Told, Asks, Serves

LEMMA ToldStep ==
  ASSUME MaxHandshakes = 1
  PROVE  RouteInv /\ Told /\ [Next]_vars => Told'
<1> SUFFICES ASSUME RouteInv, Told, [Next]_vars
             PROVE  Told'
  OBVIOUS
<1> USE RelayTypesAssumption
<1>ty. /\ pc \in [Conns -> Label] /\ req \in [Conns -> Request \cup {NoRequest}]
       /\ target \in [Conns -> SUBSET Conns]
       /\ serverWS \in [Conns -> Conns \cup {NoConn}]
       /\ waiting \in [Usernames -> Conns \cup {NoConn}]
       /\ peers \in [Conns -> Conns \cup {NoConn}]
       /\ conns \subseteq Conns
       /\ groupClients \in [Usernames -> SUBSET Conns]
       /\ clientID \in [Conns -> BOOLEAN]
       /\ asked \in [Conns -> 0 .. MaxHandshakes]
       /\ Stages
  BY DEF RouteInv, TypeInv, TypeOK, ManagerTypeOK, StoreTypeOK
<1>1. ASSUME NEW c \in Conns, Step(c)
      PROVE  Told'
  <2>1. CASE \/ ReadError(c) \/ Reject(c) \/ AskRegistry(c) \/ EnterRegistry(c)
             \/ Publish(c) \/ Settle(c) \/ Lookup(c) \/ ServerOffline(c)
    <3>1. /\ UNCHANGED <<req, serverWS, clientID, peers, target, groupClients>>
          /\ \A d \in Conns : pc'[d] \in {"announce", "greetMember", "greetPeer"} => pc'[d] = pc[d]
      BY <2>1, <1>ty
         DEF ReadError, Reject, AskRegistry, EnterRegistry, Publish, Settle, Lookup,
             ServerOffline, PublishServer, SetWaiting, DropStaleServer, Goto, managerVars,
             storeVars, groups, connFields
    <3>. QED  BY <3>1, ToldQuiet DEF Connected
  <2>2. CASE Announce(c) \/ Greet(c)
    <3>1. /\ UNCHANGED <<req, serverWS, peers, target, groupClients>>
          /\ pc[c] \in {"announce", "greetMember", "greetPeer"}
          /\ \A d \in Conns \ {c} : pc'[d] = pc[d] /\ clientID'[d] = clientID[d]
      BY <2>2, <1>ty DEF Announce, Greet, Goto, managerVars, storeVars, groups
    <3>. QED  BY <3>1, ToldQuiet DEF Connected
  <2>3. CASE JoinMulti(c)
    <3>. DEFINE u == req[c].username
    <3>1. u \in Usernames /\ Asks(c, u) /\ waiting[u] \in Conns
      BY <2>3, <1>ty, RequestFields DEF JoinMulti, JoinGroup, Goto, Stages, ConnectLabels, Asks
    <3>2. Serves(waiting[u], u)
      BY <3>1 DEF RouteInv, Agreement
    <3>3. /\ UNCHANGED <<req, peers, target>>
          /\ serverWS' = [serverWS EXCEPT ![c] = waiting[u]]
          /\ pc' = [pc EXCEPT ![c] = "announce"]
          /\ clientID' = [clientID EXCEPT ![c] = TRUE]
          /\ groupClients' = [groupClients EXCEPT ![u] = @ \cup {c}]
      BY <2>3 DEF JoinMulti, JoinGroup, Goto, storeVars
    <3>. HIDE DEF u
    <3>4. \A d \in Conns \ {c} : (Connected(d)' => Connected(d)) /\ serverWS'[d] = serverWS[d]
      BY <1>ty, <3>1, <3>3 DEF Connected
    <3>5. serverWS'[c] = waiting[u]
      BY <1>ty, <3>3
    <3>. QED  BY <3>1, <3>2, <3>3, <3>4, <3>5 DEF Told, Asks, Serves
  <2>4. CASE JoinLegacy(c)
    <3>. DEFINE u == req[c].username
                s == waiting[u]
    <3>1. u \in Usernames /\ Asks(c, u) /\ s \in Conns
      BY <2>4, <1>ty, RequestFields
         DEF JoinLegacy, PairWithWaiting, Goto, Stages, ConnectLabels, Asks
    <3>2. Serves(s, u)
      BY <3>1 DEF RouteInv, Agreement
    <3>3. /\ UNCHANGED <<req, clientID, target, groupClients>>
          /\ serverWS' = [serverWS EXCEPT ![c] = s]
          /\ pc' = [pc EXCEPT ![c] = "greetPeer"]
          /\ peers' = [peers EXCEPT ![s] = c, ![c] = s]
      BY <2>4 DEF JoinLegacy, PairWithWaiting, CreatePair, Goto, groups, connFields
    <3>. HIDE DEF u, s
    <3>4. \A d \in Conns \ {c, s} : (Connected(d)' => Connected(d)) /\ serverWS'[d] = serverWS[d]
      BY <1>ty, <3>1, <3>3 DEF Connected
    <3>5. serverWS'[c] = s /\ s # c /\ serverWS'[s] = serverWS[s]
      BY <1>ty, <3>1, <3>2, <3>3 DEF Asks, Serves
    <3>. QED  BY <3>1, <3>2, <3>3, <3>4, <3>5 DEF Told, Asks, Serves
  <2>5. CASE Forward(c)
    <3>1. PICK T \in Route(c) \cup {{}} : target' = [target EXCEPT ![c] = T]
      BY <2>5 DEF Forward
    <3>2. /\ UNCHANGED <<req, serverWS, clientID, peers, groupClients>>
          /\ \A d \in Conns : pc'[d] \in {"announce", "greetMember", "greetPeer"} => pc'[d] = pc[d]
      BY <2>5, <1>ty DEF Forward, Goto, managerVars
    <3>3. req[c].type = "client_connect" /\ T # {} => clientID[c] \/ peers[c] # NoConn
      BY <1>ty DEF Route, ForwardToPeer, RouteInv, Agreement
    <3>. QED  BY <1>ty, <3>1, <3>2, <3>3, ToldQuiet DEF Connected
  <2>6. CASE \E t \in Conns : WriteToConn(c, t)
    <3>1. /\ UNCHANGED <<req, serverWS, clientID, peers, groupClients>>
          /\ \A d \in Conns : /\ pc'[d] \in {"announce", "greetMember", "greetPeer"} => pc'[d] = pc[d]
                              /\ target'[d] \subseteq target[d]
      BY <2>6, <1>ty DEF WriteToConn, Goto, managerVars
    <3>. QED  BY <3>1, ToldQuiet DEF Connected
  <2>7. CASE CloseMember(c)
    <3>1. /\ UNCHANGED <<req, serverWS, clientID, peers>>
          /\ clientID[c]
          /\ \A d \in Conns : pc'[d] \in {"announce", "greetMember", "greetPeer"} => pc'[d] = pc[d]
          /\ \A d \in Conns \ {c} : target'[d] = target[d]
          /\ \A u \in Usernames : groupClients'[u] \subseteq groupClients[u]
      BY <2>7, <1>ty DEF CloseMember, LeaveGroup, ClosesAsGroupClient, Goto, storeVars, connFields
    <3>. QED  BY <3>1, ToldQuiet DEF Connected
  <2>8. CASE Farewell(c) \/ CloseOther(c)
    <3>1. /\ UNCHANGED <<req, serverWS, clientID>>
          /\ \A d \in Conns : pc'[d] \in {"announce", "greetMember", "greetPeer"} => pc'[d] = pc[d]
          /\ \A d \in Conns : target'[d] \subseteq target[d]
      BY <2>8, <1>ty
         DEF Farewell, CloseOther, DisbandGroup, StopWaiting, BreakPair, Goto, connFields
    <3>2. \A d \in Conns : peers'[d] \in {peers[d], NoConn}
      BY <2>8, <1>ty
         DEF Farewell, CloseOther, DisbandGroup, StopWaiting, BreakPair, RemovePair, storeVars
    <3>3. \A u \in Usernames : groupClients'[u] \subseteq groupClients[u]
      BY <2>8, <1>ty DEF Farewell, CloseOther, DisbandGroup, StopWaiting, BreakPair, groups
    <3>. QED  BY <3>1, <3>2, <3>3, ToldQuiet DEF Connected
  <2>. QED  BY <1>1, <2>1, <2>2, <2>3, <2>4, <2>5, <2>6, <2>7, <2>8 DEF Step
<1>2. ASSUME NEW c \in Conns, Remote(c)
      PROVE  Told'
  <2>1. CASE Accept(c) \/ ReadFrame(c) \/ Disconnect(c)
    <3>1. /\ UNCHANGED <<req, serverWS, clientID, peers, target, groupClients>>
          /\ \A d \in Conns : pc'[d] \in {"announce", "greetMember", "greetPeer"} => pc'[d] = pc[d]
      BY <2>1, <1>ty
         DEF Accept, ReadFrame, Disconnect, Goto, managerVars, storeVars, groups, connFields, goVars
    <3>. QED  BY <3>1, ToldQuiet DEF Connected
  <2>2. ASSUME NEW r \in Requests[c], ReadHandshake(c, r) \/ Unauthorized(c, r)
        PROVE  Told'
    <3>1. /\ asked[c] = 0
          /\ req' = [req EXCEPT ![c] = r]
          /\ UNCHANGED <<serverWS, clientID, peers, target, groupClients>>
          /\ \A d \in Conns : pc'[d] \in {"announce", "greetMember", "greetPeer"} => pc'[d] = pc[d]
          /\ pc'[c] \notin {"announce", "greetMember", "greetPeer"}
      BY <2>2, <1>ty
         DEF ReadHandshake, Unauthorized, Goto, managerVars, storeVars, groups, connFields
    <3>2. req[c] = NoRequest
      BY <3>1 DEF RouteInv, Agreement
    <3>3. /\ ~ Connected(c)' /\ serverWS[c] \notin Conns
          /\ \A d \in Conns : serverWS[d] # c
      BY <1>ty, <3>1, <3>2
         DEF Told, Connected, RouteInv, Agreement, Isolation, Opposite, Asks, Serves, NoRequest
    <3>4. \A d \in Conns \ {c} : req'[d] = req[d] /\ (Connected(d)' => Connected(d))
      BY <1>ty, <3>1 DEF Connected
    <3>5. req'[c] = r
      BY <1>ty, <3>1
    <3>. QED  BY <3>1, <3>3, <3>4, <3>5 DEF Told, Asks, Serves
  <2>. QED  BY <1>2, <2>1, <2>2 DEF Remote
<1>3. ASSUME NEW c \in Conns, CloseCompletes(c)
      PROVE  Told'
  BY <1>3, ToldQuiet DEF CloseCompletes, storeVars, groups, connFields, goVars, Connected
<1>4. CASE Shutdown
  <2>1. UNCHANGED <<req, serverWS, clientID, peers, target, pc>>
        /\ \A u \in Usernames : groupClients'[u] = {}
    BY <1>4 DEF Shutdown, CloseAll, storeVars, connFields, goVars
  <2>. QED  BY <2>1, ToldQuiet DEF Connected
<1>5. CASE UNCHANGED vars
  BY <1>5, ToldQuiet DEF vars, managerVars, goVars, Connected
<1>. QED  BY <1>1, <1>2, <1>3, <1>4, <1>5 DEF Next

LEMMA SoleServer ==
  ASSUME SoleServers, Told, NEW s \in Conns, NEW t \in Conns, NEW u \in Usernames,
         Serves(s, u), Serves(t, u)
  PROVE  s = t
BY DEF SoleServers, Told, Serves, NoRequest

\* A step in which a client is put out of its group.
LEMMA DisbandStep ==
  ASSUME MaxHandshakes = 1, SoleServers, RouteInv, Told, [Next]_vars,
         NEW c \in Conns, NEW u \in Usernames,
         c \in groupClients[u], c \notin groupClients'[u]
  PROVE  Gone(c)' \/ Gone(serverWS[c])' \/ conns' = {}
<1>1. \/ Shutdown
      \/ \E d \in Conns : JoinMulti(d) \/ CloseMember(d) \/ (CloseOther(d) /\ DisbandGroup(d))
  BY DEF Next, Step, Remote, ReadError, Reject, AskRegistry, EnterRegistry, Publish,
         PublishServer, Settle, Lookup, ServerOffline, DropStaleServer, JoinLegacy,
         PairWithWaiting, Announce, Greet, Forward, WriteToConn, Farewell, CloseOther,
         StopWaiting, BreakPair, Accept, ReadFrame, Disconnect, ReadHandshake, Unauthorized,
         CloseCompletes, vars, managerVars, groups, goVars
<1>2. groupClients \in [Usernames -> SUBSET Conns] /\ pc \in [Conns -> Label]
  BY DEF RouteInv, TypeInv, TypeOK, ManagerTypeOK
<1>3. CASE Shutdown
  BY <1>3 DEF Shutdown, CloseAll
<1>4. ASSUME NEW d \in Conns, JoinMulti(d)
      PROVE  FALSE
  BY <1>2, <1>4 DEF JoinMulti, JoinGroup
<1>5. ASSUME NEW d \in Conns, CloseMember(d)
      PROVE  Gone(c)'
  BY <1>2, <1>5 DEF CloseMember, LeaveGroup, Goto, Gone
<1>6. ASSUME NEW d \in Conns, CloseOther(d), DisbandGroup(d)
      PROVE  Gone(serverWS[c])'
  <2>1. username[d] = u /\ multiClient[d]
    BY <1>2, <1>6 DEF DisbandGroup, ClosesAsGroupServer
  <2>2. Serves(d, u)
    BY <2>1, RelayTypesAssumption DEF RouteInv, Agreement, Serves
  <2>3. Asks(c, u)
    BY DEF RouteInv, Agreement
  <2>4. serverWS[c] \in Conns /\ Serves(serverWS[c], u)
    BY <2>3 DEF Told, Connected, Asks, Serves
  <2>5. serverWS[c] = d
    BY <2>2, <2>4, SoleServer
  <2>6. pc'[d] = "done"
    BY <1>2, <1>6 DEF CloseOther, Goto
  <2>7. serverWS' = serverWS
    BY <1>6 DEF CloseOther
  <2>. QED  BY <2>5, <2>6, <2>7 DEF Gone
<1>. QED  BY <1>1, <1>3, <1>4, <1>5, <1>6

\* With a sole server of each username, a client leaves its group only when it is closed
\* itself, when that server is, or at shutdown.
THEOREM SoleDisband ==
  ASSUME MaxHandshakes = 1, SoleServers
  PROVE  Spec => DisbandedByOwner
<1>1. RouteInv /\ Told /\ [Next]_vars =>
        [\A c \in Conns, u \in Usernames :
           c \in groupClients[u] /\ c \notin groupClients'[u] =>
             Gone(c)' \/ Gone(serverWS[c])' \/ conns' = {}]_vars
  BY DisbandStep
<1>. QED  BY <1>1, RouteInvInit, RouteInvStep, ToldInit, ToldStep, PTL
          DEF Spec, DisbandedByOwner
================================================================================
