------------------------------ MODULE ReachProofs ------------------------------
(***************************************************************************)
(* That the maps of the Manager and the connections that are alive agree:  *)
(* no map leads to a connection whose HandleClose has run, and no          *)
(* connection that is open and past its handshake is out of their reach.   *)
(***************************************************************************)
EXTENDS PairingProofs

\* The fields that HandleClose decides by are set for whoever the maps lead to.
Recorded ==
  /\ \A u \in Usernames, c \in Conns :
       waiting[u] = c => pc[c] = "settle" \/ username[c] = u
  /\ \A u \in Usernames, c \in Conns :
       groupServer[u] = c => multiClient[c] /\ username[c] = u
  /\ \A u \in Usernames : \A c \in groupClients[u] :
       clientID[c] /\ username[c] = u /\ groupServer[u] # NoConn
  /\ \A c \in Conns : pc[c] \in RegisterLabels => ~ multiClient[c]
  /\ \A c \in Conns, u \in Usernames :
       pc[c] \in {"lookup", "join", "greetPeer"} => c \notin groupClients[u]

GhostInv == PairInv /\ Recorded /\ NoGhosts

LEMMA GhostInvInit == Init => GhostInv
<1>1. Init => Recorded /\ NoGhosts
  BY RelayTypesAssumption
     DEF Init, NewManager, NewMemStore, Recorded, RegisterLabels, NoGhosts, Gone
<1>. QED  BY <1>1, PairInvInit DEF GhostInv

LEMMA GhostInvStep ==
  ASSUME MaxHandshakes = 1
  PROVE  GhostInv /\ [Next]_vars => GhostInv'
<1> SUFFICES ASSUME GhostInv, [Next]_vars
             PROVE  Recorded' /\ NoGhosts'
  BY PairInvStep DEF GhostInv
<1> USE RelayTypesAssumption
<1>ty. /\ waiting \in [Usernames -> Conns \cup {NoConn}]
       /\ groupServer \in [Usernames -> Conns \cup {NoConn}]
       /\ groupClients \in [Usernames -> SUBSET Conns]
       /\ username \in [Conns -> Usernames \cup {NoUser}]
       /\ multiClient \in [Conns -> BOOLEAN]
       /\ clientID \in [Conns -> BOOLEAN]
       /\ conns \subseteq Conns
       /\ pc \in [Conns -> Label]
       /\ req \in [Conns -> Request \cup {NoRequest}]
       /\ asked \in [Conns -> 0 .. MaxHandshakes]
       /\ Stages
       /\ Agreement
       /\ Unpaired
       /\ Recorded
       /\ NoGhosts
  BY DEF GhostInv, PairInv, RouteInv, TypeInv, TypeOK, ManagerTypeOK, StoreTypeOK
\* A step from l to k that changes none of the maps and none of the fields.
<1>q. ASSUME NEW c \in Conns, NEW k, pc' = [pc EXCEPT ![c] = k],
             pc[c] # "settle", k \notin {"farewell", "done", "settle", "lookup", "greetPeer"},
             k \in RegisterLabels => ~ multiClient[c],
             k = "join" => pc[c] = "lookup",
             UNCHANGED <<waiting, conns, groups, connFields>>
      PROVE  Recorded' /\ NoGhosts'
  <2>1. Recorded'
    BY <1>q, <1>ty DEF Recorded, groups, connFields
  <2>2. NoGhosts'
    BY <1>q, <1>ty DEF NoGhosts, Gone, groups
  <2>. QED  BY <2>1, <2>2
<1>w. ASSUME UNCHANGED <<waiting, conns, groups, connFields, pc>>
      PROVE  Recorded' /\ NoGhosts'
  BY <1>w, <1>ty DEF Recorded, NoGhosts, Gone, groups, connFields
<1>1. ASSUME NEW c \in Conns, Step(c)
      PROVE  Recorded' /\ NoGhosts'
  <2>1. CASE ReadError(c) \/ AskRegistry(c) \/ Lookup(c) \/ Announce(c)
    BY <2>1, <1>ty, <1>q DEF ReadError, AskRegistry, Lookup, Announce, Goto, managerVars, groups,
       connFields, RegisterLabels, Recorded
  <2>2. CASE Reject(c) \/ EnterRegistry(c)
    BY <2>2, <1>ty, <1>q DEF Reject, EnterRegistry, Goto, storeVars, RegisterLabels, Recorded
  <2>3. CASE Forward(c) \/ \E t \in Conns : WriteToConn(c, t)
    BY <2>3, <1>ty, <1>q DEF Forward, WriteToConn, Goto, managerVars, groups, connFields, RegisterLabels
  <2>4. CASE Publish(c)
    <3>1. /\ pc[c] = "publish"
          /\ req[c].username \in Usernames
          /\ pc' = [pc EXCEPT ![c] = "settle"]
          /\ waiting' = [waiting EXCEPT ![req[c].username] = c]
          /\ conns' \subseteq conns \cup {c}
          /\ UNCHANGED <<groups, connFields>>
      BY <2>4, <1>ty, RequestFields DEF Publish, Goto, PublishServer, SetWaiting, Stages, RegisterLabels
    <3>2. Recorded'
      BY <3>1, <1>ty DEF Recorded, RegisterLabels, groups, connFields
    <3>3. NoGhosts'
      BY <3>1, <1>ty DEF NoGhosts, Gone, groups
    <3>. QED  BY <3>2, <3>3
  <2>5. CASE Settle(c)
    <3>1. /\ pc[c] = "settle"
          /\ req[c] \in Request
          /\ req[c].type = "server_register"
          /\ pc' = [pc EXCEPT ![c] = "read"]
          /\ username' = [username EXCEPT ![c] = req[c].username]
          /\ multiClient' = [multiClient EXCEPT ![c] = req[c].multiClient]
          /\ UNCHANGED <<waiting, conns, groupServer, groupClients, clientID>>
      BY <2>5, <1>ty DEF Settle, Goto, storeVars, groups, Stages, RegisterLabels
    <3>2. \A u \in Usernames : (waiting[u] = c => u = req[c].username) /\ groupServer[u] # c
                               /\ c \notin groupClients[u]
      BY <3>1, <1>ty DEF Agreement, Serves, Asks, Recorded, RegisterLabels
    <3>3. Recorded'
      BY <3>1, <3>2, <1>ty DEF Recorded, RegisterLabels
    <3>4. NoGhosts'
      BY <3>1, <1>ty DEF NoGhosts, Gone
    <3>. QED  BY <3>3, <3>4
  <2>6. CASE ServerOffline(c)
    <3>1. /\ pc[c] = "join"
          /\ pc' = [pc EXCEPT ![c] = "close"]
          /\ \A u \in Usernames : waiting'[u] \in {waiting[u], NoConn}
          /\ UNCHANGED <<conns, groups, connFields>>
      BY <2>6, <1>ty DEF ServerOffline, Goto, DropStaleServer, RemoveWaiting, storeVars
    <3>2. Recorded'
      BY <3>1, <1>ty DEF Recorded, RegisterLabels, groups, connFields
    <3>3. NoGhosts'
      BY <3>1, <1>ty DEF NoGhosts, Gone, groups
    <3>. QED  BY <3>2, <3>3
  <2>7. CASE JoinMulti(c)
    <3> DEFINE u == req[c].username
               s == waiting[u]
    <3>1. /\ pc[c] = "join"
          /\ u \in Usernames
          /\ Asks(c, u)
          /\ s \in conns
          /\ multiClient[s]
      BY <2>7, <1>ty, RequestFields DEF JoinMulti, JoinGroup, Goto, Stages, ConnectLabels, Asks
    <3>2. /\ pc' = [pc EXCEPT ![c] = "announce"]
          /\ clientID' = [clientID EXCEPT ![c] = TRUE]
          /\ username' = [username EXCEPT ![c] = u]
          /\ groupServer' = [groupServer EXCEPT ![u] = IF @ = NoConn THEN s ELSE @]
          /\ groupClients' = [groupClients EXCEPT ![u] = @ \cup {c}]
          /\ conns' = conns \cup {c}
          /\ UNCHANGED <<waiting, multiClient>>
      BY <2>7 DEF JoinMulti, JoinGroup, Goto, storeVars
    <3>3. s \in Conns /\ pc[s] # "settle" /\ username[s] = u /\ s # c /\ ~ Gone(s)
      BY <3>1, <1>ty DEF Recorded, RegisterLabels, NoGhosts, Agreement, Serves, Asks
    <3>4. \A v \in Usernames : waiting[v] # c /\ groupServer[v] # c /\ c \notin groupClients[v]
      BY <3>1, <1>ty DEF Recorded, Agreement, Serves, Asks
    <3>. HIDE DEF u, s
    <3>5. Recorded'
      BY <3>1, <3>2, <3>3, <3>4, <1>ty DEF Recorded, RegisterLabels
    <3>6. NoGhosts'
      BY <3>1, <3>2, <3>3, <1>ty DEF NoGhosts, Gone
    <3>. QED  BY <3>5, <3>6
  <2>8. CASE JoinLegacy(c)
    <3>1. /\ pc[c] = "join"
          /\ pc' = [pc EXCEPT ![c] = "greetPeer"]
          /\ \A u \in Usernames : waiting'[u] \in {waiting[u], NoConn}
          /\ conns' = conns \cup {c}
          /\ UNCHANGED <<groups, connFields>>
      BY <2>8, <1>ty DEF JoinLegacy, Goto, PairWithWaiting, CreatePair
    <3>2. Recorded'
      BY <3>1, <1>ty DEF Recorded, RegisterLabels, groups, connFields
    <3>3. NoGhosts'
      BY <3>1, <1>ty DEF NoGhosts, Gone, groups
    <3>. QED  BY <3>2, <3>3
  <2>9. CASE Greet(c)
    <3>1. /\ pc[c] \in {"greetMember", "greetPeer"}
          /\ req[c] \in Request
          /\ req[c].type = "client_connect"
          /\ pc' = [pc EXCEPT ![c] = "read"]
          /\ username' = [username EXCEPT ![c] = req[c].username]
          /\ clientID' = [clientID EXCEPT ![c] = pc[c] = "greetMember"]
          /\ UNCHANGED <<waiting, conns, groupServer, groupClients, multiClient>>
      BY <2>9, <1>ty DEF Greet, Goto, storeVars, groups, Stages, ConnectLabels
    <3>2. \A u \in Usernames : /\ waiting[u] # c
                               /\ groupServer[u] # c
                               /\ c \in groupClients[u] => u = req[c].username /\ pc[c] = "greetMember"
      BY <3>1, <1>ty DEF Agreement, Serves, Asks, Recorded
    <3>3. Recorded'
      BY <3>1, <3>2, <1>ty DEF Recorded, RegisterLabels
    <3>4. NoGhosts'
      BY <3>1, <1>ty DEF NoGhosts, Gone
    <3>. QED  BY <3>3, <3>4
  <2>10. CASE CloseMember(c)
    <3> DEFINE u == username[c]
    <3>1. /\ pc[c] = "close"
          /\ clientID[c]
          /\ u \in Usernames
          /\ pc' = [pc EXCEPT ![c] = "farewell"]
          /\ groupClients' = [groupClients EXCEPT ![u] = @ \ {c}]
          /\ groupServer' = [groupServer EXCEPT ![u] =
                               IF groupClients[u] \subseteq {c} THEN NoConn ELSE @]
          /\ conns' = conns \ {c}
          /\ UNCHANGED <<waiting, username, multiClient, clientID>>
      BY <2>10 DEF CloseMember, LeaveGroup, ClosesAsGroupClient, HasGroup, Goto, storeVars, connFields
    <3>2. \A v \in Usernames : /\ waiting[v] # c
                               /\ groupServer[v] # c
                               /\ c \in groupClients[v] => v = u
      BY <3>1, <1>ty DEF Agreement, Serves, Recorded
    <3>. HIDE DEF u
    <3>3. Recorded'
      BY <3>1, <3>2, <1>ty DEF Recorded, RegisterLabels
    <3>4. NoGhosts'
      BY <3>1, <3>2, <1>ty DEF NoGhosts, Gone
    <3>. QED  BY <3>3, <3>4
  <2>11. CASE Farewell(c)
    <3>1. /\ pc[c] = "farewell"
          /\ pc' = [pc EXCEPT ![c] = "done"]
          /\ UNCHANGED <<waiting, conns, groups, connFields>>
      BY <2>11 DEF Farewell, Goto, storeVars
    <3>2. Recorded'
      BY <3>1, <1>ty DEF Recorded, RegisterLabels, groups, connFields
    <3>3. NoGhosts'
      BY <3>1, <1>ty DEF NoGhosts, Gone, groups
    <3>. QED  BY <3>2, <3>3
  <2>12. CASE CloseOther(c) /\ DisbandGroup(c)
    <3> DEFINE u == username[c]
    <3>1. /\ pc[c] = "close"
          /\ multiClient[c]
          /\ u \in Usernames
          /\ pc' = [pc EXCEPT ![c] = "done"]
          /\ groupClients' = [groupClients EXCEPT ![u] = {}]
          /\ groupServer' = [groupServer EXCEPT ![u] = NoConn]
          /\ waiting' = [waiting EXCEPT ![u] = IF @ = c THEN NoConn ELSE @]
          /\ conns' = conns \ (groupClients[u] \cup {c})
          /\ UNCHANGED <<username, multiClient, clientID>>
      BY <2>12 DEF CloseOther, DisbandGroup, ClosesAsGroupServer, HasGroup, RemoveWaiting, Goto, connFields
    <3>2. \A v \in Usernames : /\ waiting[v] = c => v = u
                               /\ groupServer[v] = c => v = u
                               /\ c \notin groupClients[v]
      BY <3>1, <1>ty DEF Agreement, Asks, Recorded
    <3>. HIDE DEF u
    <3>3. Recorded'
      BY <3>1, <3>2, <1>ty DEF Recorded, RegisterLabels
    <3>4. NoGhosts'
      BY <3>1, <3>2, <1>ty DEF NoGhosts, Gone
    <3>. QED  BY <3>3, <3>4
  <2>13. CASE CloseOther(c) /\ (StopWaiting(c) \/ BreakPair(c))
    <3>1. /\ pc[c] = "close"
          /\ ~ ClosesAsGroupClient(c)
          /\ ~ ClosesAsGroupServer(c)
          /\ pc' = [pc EXCEPT ![c] = "done"]
          /\ \A u \in Usernames : waiting'[u] \in {waiting[u], NoConn}
          /\ c \notin conns'
          /\ conns' \subseteq conns
          /\ UNCHANGED <<groups, connFields>>
      BY <2>13, <1>ty DEF CloseOther, StopWaiting, BreakPair, RemoveWaiting, ClosesAsWaiting, Goto
    <3>2. \A v \in Usernames : groupServer[v] # c /\ c \notin groupClients[v]
      BY <3>1, <1>ty DEF ClosesAsGroupClient, ClosesAsGroupServer, HasGroup, Recorded
    <3>3. \A v \in Usernames : waiting'[v] # c
      <4>1. \A v \in Usernames : waiting[v] = c => username[c] = v
        BY <3>1, <1>ty DEF Recorded
      <4>. QED  BY <2>13, <4>1, <1>ty DEF CloseOther, StopWaiting, BreakPair, ClosesAsWaiting, RemoveWaiting
    <3>4. Recorded'
      BY <3>1, <1>ty DEF Recorded, RegisterLabels, groups, connFields
    <3>5. NoGhosts'
      BY <3>1, <3>2, <3>3, <1>ty DEF NoGhosts, Gone, groups
    <3>. QED  BY <3>4, <3>5
  <2>. QED  BY <1>1, <2>1, <2>2, <2>3, <2>4, <2>5, <2>6, <2>7, <2>8, <2>9, <2>10, <2>11, <2>12, <2>13
            DEF Step, CloseOther
<1>2. ASSUME NEW c \in Conns, Remote(c)
      PROVE  Recorded' /\ NoGhosts'
  <2>1. CASE Accept(c) \/ ReadFrame(c)
    BY <2>1, <1>ty, <1>q DEF Accept, ReadFrame, Goto, managerVars, storeVars, groups, connFields, RegisterLabels
  <2>2. CASE Disconnect(c)
    BY <2>2, <1>w DEF Disconnect, storeVars, goVars
  <2>3. ASSUME NEW r \in Requests[c], ReadHandshake(c, r) \/ Unauthorized(c, r)
        PROVE  Recorded' /\ NoGhosts'
    <3>1. /\ asked[c] = 0
          /\ UNCHANGED <<waiting, conns, groups, connFields>>
          /\ pc[c] = "read"
          /\ \E k \in {"canRegister", "lookup", "close"} : pc' = [pc EXCEPT ![c] = k]
      BY <2>3, <1>ty DEF ReadHandshake, Unauthorized, Goto, managerVars, storeVars, groups, connFields
    <3>2. req[c] = NoRequest
      BY <3>1, <1>ty DEF Agreement
    <3>3. ~ multiClient[c] /\ \A u \in Usernames : c \notin groupClients[u]
      BY <3>2, <1>ty DEF Agreement, NoRequest, Asks
    <3>4. Recorded'
      BY <3>1, <3>3, <1>ty DEF Recorded, RegisterLabels, groups, connFields
    <3>5. NoGhosts'
      BY <3>1, <1>ty DEF NoGhosts, Gone, groups
    <3>. QED  BY <3>4, <3>5
  <2>. QED  BY <1>2, <2>1, <2>2, <2>3 DEF Remote
<1>3. ASSUME NEW c \in Conns, CloseCompletes(c)
      PROVE  Recorded' /\ NoGhosts'
  BY <1>3, <1>w DEF CloseCompletes, storeVars, goVars
<1>4. CASE Shutdown
  BY <1>4, <1>ty DEF Shutdown, CloseAll, storeVars, connFields, goVars, Recorded, NoGhosts, Gone
<1>5. CASE UNCHANGED vars
  BY <1>5, <1>w DEF vars, managerVars, goVars, groups, connFields
<1>. QED  BY <1>1, <1>2, <1>3, <1>4, <1>5 DEF Next

\* After HandleClose has run for a connection, neither the connection map nor the
\* waiting entries nor the groups lead to it, whatever mix of servers raced with it.
THEOREM NoGhostsHold ==
  ASSUME MaxHandshakes = 1
  PROVE  Spec => []NoGhosts
<1>1. GhostInv => NoGhosts
  BY DEF GhostInv
<1>. QED  BY <1>1, GhostInvInit, GhostInvStep, PTL DEF Spec

--------------------------------------------------------------------------------
(* The end of pairs.                                                         *)

\* A member of a group has no peer, and whoever HandleClose has run for has none either,
\* unless it is a multi-client server and the branch of its group was taken.
Parted ==
  /\ \A c \in Conns :
       clientID[c] => peers[c] = NoConn /\ pc[c] \notin {"lookup", "join", "greetPeer"}
  /\ \A c \in Conns : pc[c] \in {"announce", "greetMember"} => clientID[c]
  /\ \A c \in Conns : Gone(c) /\ peers[c] # NoConn => multiClient[c]

LEMMA PartedInit == Init => Parted
BY DEF Init, NewManager, NewMemStore, Parted, Gone

LEMMA PartedStep ==
  ASSUME MaxHandshakes = 1
  PROVE  GhostInv /\ Parted /\ [Next]_vars => Parted'
<1> SUFFICES ASSUME GhostInv, Parted, [Next]_vars
             PROVE  Parted'
  OBVIOUS
<1> USE RelayTypesAssumption
<1>ty. /\ waiting \in [Usernames -> Conns \cup {NoConn}]
       /\ peers \in [Conns -> Conns \cup {NoConn}]
       /\ username \in [Conns -> Usernames \cup {NoUser}]
       /\ multiClient \in [Conns -> BOOLEAN]
       /\ clientID \in [Conns -> BOOLEAN]
       /\ conns \subseteq Conns
       /\ pc \in [Conns -> Label]
       /\ asked \in [Conns -> 0 .. MaxHandshakes]
       /\ Stages
       /\ Agreement
       /\ Unpaired
       /\ PeersSymmetric
       /\ NoGhosts
       /\ Parted
  BY DEF GhostInv, PairInv, RouteInv, TypeInv, TypeOK, ManagerTypeOK, StoreTypeOK
<1>q. ASSUME NEW c \in Conns, NEW k, pc' = [pc EXCEPT ![c] = k],
             UNCHANGED <<peers, multiClient, clientID>>,
             k \in {"farewell", "done"} => Gone(c) \/ peers[c] = NoConn \/ multiClient[c],
             k \in {"lookup", "join", "greetPeer"} => ~ clientID[c],
             k \in {"announce", "greetMember"} => clientID[c]
      PROVE  Parted'
  BY <1>q, <1>ty DEF Parted, Gone
<1>w. ASSUME UNCHANGED <<pc, peers, multiClient, clientID>>
      PROVE  Parted'
  BY <1>w, <1>ty DEF Parted, Gone
<1>1. ASSUME NEW c \in Conns, Step(c)
      PROVE  Parted'
  <2>1. CASE ReadError(c) \/ AskRegistry(c) \/ Forward(c) \/ \E t \in Conns : WriteToConn(c, t)
    BY <2>1, <1>q DEF ReadError, AskRegistry, Forward, WriteToConn, Goto,
       managerVars, connFields
  <2>2. CASE Lookup(c) \/ Announce(c)
    BY <2>2, <1>ty, <1>q DEF Lookup, Announce, Goto, connFields, managerVars, Parted
  <2>3. CASE Reject(c) \/ EnterRegistry(c) \/ Farewell(c)
    BY <2>3, <1>q DEF Reject, EnterRegistry, Farewell, Goto, storeVars, connFields, Gone
  <2>4. CASE Publish(c) \/ ServerOffline(c)
    BY <2>4, <1>q DEF Publish, PublishServer, SetWaiting, ServerOffline, DropStaleServer, Goto,
       storeVars, connFields
  <2>5. CASE Settle(c)
    <3>1. /\ pc[c] = "settle" /\ pc' = [pc EXCEPT ![c] = "read"]
          /\ \A d \in Conns \ {c} : multiClient'[d] = multiClient[d]
          /\ UNCHANGED <<peers, clientID>>
      BY <2>5, <1>ty DEF Settle, Goto, storeVars
    <3>. QED  BY <3>1, <1>ty DEF Parted, Gone
  <2>6. CASE Greet(c)
    <3>1. /\ pc[c] \in {"greetMember", "greetPeer"} /\ pc' = [pc EXCEPT ![c] = "read"]
          /\ clientID' = [clientID EXCEPT ![c] = pc[c] = "greetMember"]
          /\ UNCHANGED <<peers, multiClient>>
      BY <2>6 DEF Greet, Goto, storeVars
    <3>2. pc[c] = "greetMember" => peers[c] = NoConn
      BY <3>1, <1>ty DEF Parted
    <3>. QED  BY <3>1, <3>2, <1>ty DEF Parted, Gone
  <2>7. CASE JoinMulti(c)
    <3>1. /\ pc[c] = "join" /\ pc' = [pc EXCEPT ![c] = "announce"]
          /\ clientID' = [clientID EXCEPT ![c] = TRUE]
          /\ UNCHANGED <<peers, multiClient>>
      BY <2>7 DEF JoinMulti, JoinGroup, Goto, storeVars
    <3>2. peers[c] = NoConn
      BY <3>1, <1>ty DEF Unpaired, Unpublished
    <3>. QED  BY <3>1, <3>2, <1>ty DEF Parted, Gone
  <2>8. CASE JoinLegacy(c)
    <3> DEFINE s == waiting[req[c].username]
    <3>1. /\ s \in Conns /\ ~ Gone(s) /\ ~ clientID[s]
          /\ pc[c] = "join" /\ ~ clientID[c]
          /\ peers' = [peers EXCEPT ![s] = c, ![c] = s]
          /\ pc' = [pc EXCEPT ![c] = "greetPeer"]
          /\ UNCHANGED <<multiClient, clientID>>
      <4>1. /\ s \in Conns /\ pc[c] = "join"
            /\ peers' = [peers EXCEPT ![s] = c, ![c] = s]
            /\ pc' = [pc EXCEPT ![c] = "greetPeer"]
            /\ UNCHANGED <<multiClient, clientID>>
        BY <2>8, <1>ty DEF JoinLegacy, PairWithWaiting, CreatePair, Goto, connFields
      <4>2. req[c].username \in Usernames
        BY <4>1, <1>ty, RequestFields DEF Stages, ConnectLabels
      <4>3. ~ Gone(s)
        BY <4>1, <4>2, <1>ty DEF NoGhosts
      <4>4. ~ clientID[s]
        BY <4>1, <4>2, <1>ty DEF Agreement, Serves
      <4>5. ~ clientID[c]
        BY <4>1, <1>ty DEF Parted
      <4>. QED  BY <4>1, <4>3, <4>4, <4>5
    <3>. HIDE DEF s
    <3>. QED  BY <3>1, <1>ty DEF Parted, Gone
  <2>9. CASE CloseMember(c)
    BY <2>9, <1>ty, <1>q DEF CloseMember, LeaveGroup, ClosesAsGroupClient, Goto, storeVars,
       connFields, Parted
  <2>10. CASE CloseOther(c) /\ DisbandGroup(c)
    BY <2>10, <1>q DEF CloseOther, DisbandGroup, ClosesAsGroupServer, Goto, connFields
  <2>11. CASE CloseOther(c) /\ StopWaiting(c)
    <3>1. peers[c] = NoConn
      BY <2>11, <1>ty DEF StopWaiting, ClosesAsWaiting, Unpaired
    <3>. QED  BY <2>11, <3>1, <1>q DEF CloseOther, StopWaiting, Goto, connFields
  <2>12. CASE CloseOther(c) /\ BreakPair(c)
    <3>1. /\ peers' = [d \in Conns |-> IF d = c \/ d = peers[c] THEN NoConn ELSE peers[d]]
          /\ pc' = [pc EXCEPT ![c] = "done"]
          /\ UNCHANGED <<multiClient, clientID>>
      BY <2>12 DEF CloseOther, Goto, BreakPair, RemovePair, connFields
    <3>. QED  BY <3>1, <1>ty DEF Parted, Gone
  <2>. QED  BY <1>1, <2>1, <2>2, <2>3, <2>4, <2>5, <2>6, <2>7, <2>8, <2>9, <2>10, <2>11, <2>12
            DEF Step, CloseOther
<1>2. ASSUME NEW c \in Conns, Remote(c)
      PROVE  Parted'
  <2>1. CASE Accept(c) \/ ReadFrame(c)
    BY <2>1, <1>q DEF Accept, ReadFrame, Goto, managerVars, storeVars, connFields
  <2>2. CASE Disconnect(c)
    BY <2>2, <1>w DEF Disconnect, storeVars, connFields, goVars
  <2>3. ASSUME NEW r \in Requests[c], ReadHandshake(c, r) \/ Unauthorized(c, r)
        PROVE  Parted'
    <3>1. ~ clientID[c]
      BY <2>3, <1>ty DEF ReadHandshake, Unauthorized, Agreement, NoRequest
    <3>. QED  BY <2>3, <3>1, <1>q DEF ReadHandshake, Unauthorized, Goto, managerVars, storeVars,
              connFields
  <2>. QED  BY <1>2, <2>1, <2>2, <2>3 DEF Remote
<1>3. ASSUME NEW c \in Conns, CloseCompletes(c)
      PROVE  Parted'
  BY <1>3, <1>w DEF CloseCompletes, storeVars, connFields, goVars
<1>4. CASE Shutdown
  BY <1>4, <1>w DEF Shutdown, CloseAll, storeVars, connFields, goVars
<1>5. CASE UNCHANGED vars
  BY <1>5, <1>w DEF vars, managerVars, connFields, goVars
<1>. QED  BY <1>1, <1>2, <1>3, <1>4, <1>5 DEF Next

--------------------------------------------------------------------------------
(* Reachability.                                                             *)

\* What NoStranded says of the maps, from the publication of a connection to the end of
\* its life.
Served(c) ==
  /\ asked[c] > 0
  /\ pc[c] \in {"settle", "announce", "greetMember", "greetPeer", "read", "forward", "write"}
  /\ ws[c] = "open"

Reached(c) ==
  /\ c \in conns
  /\ \/ \E u \in Usernames : waiting[u] = c \/ c \in groupClients[u]
     \/ peers[c] # NoConn

Reachable ==
  /\ \A c \in Conns : pc[c] = "idle" => asked[c] = 0
  /\ \A c \in Conns : Served(c) => Reached(c)

ReachInv == GhostInv /\ Reachable

LEMMA ReachInvInit == Init => ReachInv
<1>1. Init => Reachable
  BY DEF Init, Reachable, Served
<1>. QED  BY <1>1, GhostInvInit DEF ReachInv

LEMMA ReachInvStep ==
  ASSUME MaxHandshakes = 1
  PROVE  ReachInv /\ [Next]_vars => ReachInv'
<1> SUFFICES ASSUME ReachInv, [Next]_vars
             PROVE  Reachable'
  BY GhostInvStep DEF ReachInv
<1> USE RelayTypesAssumption
<1>ty. /\ waiting \in [Usernames -> Conns \cup {NoConn}]
       /\ peers \in [Conns -> Conns \cup {NoConn}]
       /\ groupClients \in [Usernames -> SUBSET Conns]
       /\ conns \subseteq Conns
       /\ ws \in [Conns -> WSState]
       /\ pc \in [Conns -> Label]
       /\ asked \in [Conns -> 0 .. MaxHandshakes]
       /\ Stages
       /\ Reachable
  BY DEF ReachInv, GhostInv, PairInv, RouteInv, TypeInv, TypeOK, ManagerTypeOK, StoreTypeOK
\* Nobody starts to be served, and the maps stay as they are.
<1>q. ASSUME NEW c \in Conns, NEW k, pc' = [pc EXCEPT ![c] = k], k # "idle",
             Served(c)' => Served(c),
             \A d \in Conns \ {c} : ws'[d] = ws[d],
             UNCHANGED <<storeVars, conns, groupClients, asked>>
      PROVE  Reachable'
  BY <1>q, <1>ty DEF Reachable, Served, Reached, storeVars
<1>w. ASSUME \A d \in Conns : ws'[d] = "open" => ws[d] = "open",
             UNCHANGED <<storeVars, conns, groupClients, asked, pc>>
      PROVE  Reachable'
  BY <1>w, <1>ty DEF Reachable, Served, Reached, storeVars
<1>1. ASSUME NEW c \in Conns, Step(c)
      PROVE  Reachable'
  <2>1. CASE ReadError(c) \/ AskRegistry(c) \/ Lookup(c) \/ Announce(c) \/ Forward(c)
             \/ \E t \in Conns : WriteToConn(c, t)
    BY <2>1, <1>ty, <1>q DEF ReadError, AskRegistry, Lookup, Announce, Forward, WriteToConn, Goto,
       managerVars, storeVars, Served
  <2>2. CASE Reject(c) \/ EnterRegistry(c) \/ Settle(c) \/ Greet(c) \/ Farewell(c)
    BY <2>2, <1>ty, <1>q DEF Reject, EnterRegistry, Settle, Greet, Farewell, Goto, groups, Served
  <2>3. CASE Publish(c)
    <3> DEFINE u == req[c].username
               e == Evicted(u, c)
    <3>1. /\ u \in Usernames
          /\ e # c
          /\ waiting[u] \in {c, e}
      BY <2>3, <1>ty, RequestFields DEF Publish, Goto, Stages, RegisterLabels, Evicted
    <3>2. /\ waiting' = [waiting EXCEPT ![u] = c]
          /\ conns' = (conns \cup {c}) \ {e}
          /\ \A d \in Conns : ws'[d] = "open" => ws[d] = "open" /\ (d = e => d \notin conns)
          /\ pc' = [pc EXCEPT ![c] = "settle"]
          /\ UNCHANGED <<peers, groupClients, asked>>
      BY <2>3, <1>ty DEF Publish, Goto, PublishServer, SetWaiting, CloseOf, groups
    <3>. HIDE DEF u, e
    <3>3. ASSUME NEW d \in Conns, Served(d)'
          PROVE  Reached(d)'
      <4>1. CASE d = c
        BY <3>1, <3>2, <4>1, <1>ty DEF Reached
      <4>2. CASE d # c
        <5>1. Served(d) /\ Reached(d) /\ d # e
          BY <3>2, <3>3, <4>2, <1>ty DEF Reachable, Served, Reached
        <5>. QED  BY <3>1, <3>2, <4>2, <5>1, <1>ty DEF Reached
      <4>. QED  BY <4>1, <4>2
    <3>. QED  BY <3>2, <3>3, <1>ty DEF Reachable
  <2>4. CASE ServerOffline(c)
    <3>1. /\ \A u \in Usernames : waiting[u] \in conns => waiting'[u] = waiting[u]
          /\ ws' = [ws EXCEPT ![c] = "closed"]
          /\ pc' = [pc EXCEPT ![c] = "close"]
          /\ UNCHANGED <<peers, conns, groupClients, asked>>
      BY <2>4, <1>ty DEF ServerOffline, Goto, DropStaleServer, RemoveWaiting, storeVars, groups
    <3>. QED  BY <3>1, <1>ty DEF Reachable, Served, Reached
  <2>5. CASE JoinMulti(c)
    <3>1. /\ req[c].username \in Usernames
          /\ groupClients' = [groupClients EXCEPT ![req[c].username] = @ \cup {c}]
          /\ conns' = conns \cup {c}
          /\ pc' = [pc EXCEPT ![c] = "announce"]
          /\ UNCHANGED <<waiting, peers, ws, asked>>
      BY <2>5, <1>ty, RequestFields DEF JoinMulti, JoinGroup, Goto, Stages, ConnectLabels, storeVars
    <3>. QED  BY <3>1, <1>ty DEF Reachable, Served, Reached
  <2>6. CASE JoinLegacy(c)
    <3> DEFINE u == req[c].username
               s == waiting[u]
    <3>1. /\ u \in Usernames
          /\ s \in Conns
          /\ waiting' = [waiting EXCEPT ![u] = NoConn]
          /\ peers' = [peers EXCEPT ![s] = c, ![c] = s]
          /\ conns' = conns \cup {c}
          /\ pc' = [pc EXCEPT ![c] = "greetPeer"]
          /\ UNCHANGED <<groupClients, ws, asked>>
      BY <2>6, <1>ty, RequestFields DEF JoinLegacy, PairWithWaiting, CreatePair, Goto, Stages,
         ConnectLabels, groups
    <3>2. \A v \in Usernames : waiting'[v] = waiting[v] \/ waiting[v] = s
      BY <3>1, <1>ty
    <3>. HIDE DEF u, s
    <3>3. peers'[s] # NoConn /\ peers'[c] # NoConn
      BY <3>1, <1>ty
    <3>4. \A d \in Conns : d \notin {s, c} => peers'[d] = peers[d]
      BY <3>1, <1>ty
    <3>5. ASSUME NEW d \in Conns, Served(d)'
          PROVE  Reached(d)'
      <4>1. CASE d = c
        BY <3>1, <3>3, <4>1 DEF Reached
      <4>2. CASE d # c
        <5>1. Served(d) /\ Reached(d)
          BY <3>1, <3>5, <4>2, <1>ty DEF Reachable, Served
        <5>. QED  BY <3>1, <3>2, <3>3, <3>4, <4>2, <5>1 DEF Reached
      <4>. QED  BY <4>1, <4>2
    <3>. QED  BY <3>1, <3>5, <1>ty DEF Reachable
  <2>7. CASE CloseMember(c)
    <3>1. /\ username[c] \in Usernames
          /\ groupClients' = [groupClients EXCEPT ![username[c]] = @ \ {c}]
          /\ conns' = conns \ {c}
          /\ pc' = [pc EXCEPT ![c] = "farewell"]
          /\ UNCHANGED <<waiting, peers, ws, asked>>
      BY <2>7 DEF CloseMember, LeaveGroup, ClosesAsGroupClient, HasGroup, Goto, storeVars
    <3>. QED  BY <3>1, <1>ty DEF Reachable, Served, Reached
  <2>8. CASE CloseOther(c)
    <3>1. /\ pc' = [pc EXCEPT ![c] = "done"]
          /\ asked' = asked
          /\ \A d \in Conns : ws'[d] = "open" => d # c /\ ws[d] = "open" /\ d \notin ClosedWith(c)
      BY <2>8, <1>ty DEF CloseOther, Goto, Finished, CloseOf
    <3>2. ASSUME NEW d \in Conns, Served(d)'
          PROVE  Reached(d)'
      <4>1. Served(d) /\ Reached(d) /\ d # c /\ d \notin ClosedWith(c)
        BY <3>1, <3>2, <1>ty DEF Reachable, Served
      <4>2. CASE DisbandGroup(c)
        <5>1. d \notin groupClients[username[c]]
          BY <4>1, <4>2 DEF DisbandGroup, ClosesAsGroupServer, ClosedWith
        <5>2. username[c] \in Usernames
          BY <4>2 DEF DisbandGroup, ClosesAsGroupServer, HasGroup
        <5>. QED  BY <4>1, <4>2, <5>1, <5>2, <1>ty DEF DisbandGroup, RemoveWaiting, Reached
      <4>3. CASE StopWaiting(c)
        BY <4>1, <4>3, <1>ty DEF StopWaiting, RemoveWaiting, groups, Reached
      <4>4. CASE BreakPair(c)
        <5>1. d # peers[c]
          BY <4>1, <4>4 DEF BreakPair, ClosedWith, Reached
        <5>. QED  BY <4>1, <4>4, <5>1, <1>ty DEF BreakPair, RemovePair, groups, Reached
      <4>. QED  BY <2>8, <4>2, <4>3, <4>4 DEF CloseOther
    <3>. QED  BY <3>1, <3>2, <1>ty DEF Reachable
  <2>. QED  BY <1>1, <2>1, <2>2, <2>3, <2>4, <2>5, <2>6, <2>7, <2>8 DEF Step
<1>2. ASSUME NEW c \in Conns, Remote(c)
      PROVE  Reachable'
  <2>1. CASE Accept(c)
    <3>1. /\ pc' = [pc EXCEPT ![c] = "read"]
          /\ \A d \in Conns \ {c} : ws'[d] = ws[d]
          /\ asked[c] = 0
          /\ UNCHANGED <<storeVars, conns, groupClients, asked>>
      BY <2>1, <1>ty DEF Accept, Goto, groups, Reachable
    <3>2. ~ Served(c)'
      BY <3>1 DEF Served
    <3>. QED  BY <3>1, <3>2, <1>q
  <2>2. CASE ReadFrame(c)
    BY <2>2, <1>ty, <1>q DEF ReadFrame, Goto, managerVars, storeVars, Served
  <2>3. CASE Disconnect(c)
    BY <2>3, <1>ty, <1>w DEF Disconnect, groups, goVars
  <2>4. ASSUME NEW r \in Requests[c], ReadHandshake(c, r) \/ Unauthorized(c, r)
        PROVE  Reachable'
    <3>1. /\ UNCHANGED <<waiting, peers, conns, groupClients>>
          /\ \E k \in {"canRegister", "lookup", "close"} : pc' = [pc EXCEPT ![c] = k]
          /\ \A d \in Conns \ {c} : asked'[d] = asked[d] /\ ws'[d] = ws[d]
      BY <2>4, <1>ty DEF ReadHandshake, Unauthorized, Goto, managerVars, storeVars, groups
    <3>. QED  BY <3>1, <1>ty DEF Reachable, Served, Reached
  <2>. QED  BY <1>2, <2>1, <2>2, <2>3, <2>4 DEF Remote
<1>3. ASSUME NEW c \in Conns, CloseCompletes(c)
      PROVE  Reachable'
  BY <1>3, <1>ty, <1>w DEF CloseCompletes, groups, goVars
<1>4. CASE Shutdown
  <2>1. \A d \in Conns : ws'[d] = "open" => ws[d] = "open" /\ d \notin conns
    BY <1>4, <1>ty DEF Shutdown, CloseAll, CloseOf
  <2>. QED  BY <1>4, <2>1, <1>ty DEF Shutdown, CloseAll, goVars, Reachable, Served, Reached
<1>5. CASE UNCHANGED vars
  BY <1>5, <1>w DEF vars, managerVars, goVars, storeVars
<1>. QED  BY <1>1, <1>2, <1>3, <1>4, <1>5 DEF Next

\* A server or client that was told it is registered or connected, and is still open, is
\* waiting, or with somebody who will close it: eviction, HandleClose of its partner and
\* CloseAll never forget a connection without closing it, but for the clients of
\* multi-client servers that were paired with them in legacy mode.
THEOREM NobodyStranded ==
  ASSUME MaxHandshakes = 1
  PROVE  Spec => []NoStranded
<1>1. ReachInv /\ Parted => NoStranded
  <2> SUFFICES ASSUME ReachInv, Parted, NEW c \in Conns,
                      pc[c] = "read", asked[c] > 0, ws[c] = "open"
               PROVE  /\ c \in conns
                      /\ \/ \E u \in Usernames : waiting[u] = c
                         \/ IsPaired(c) /\ \E p \in Partners(c) : ~ Gone(p)
                         \/ Mispaired(c)
    BY DEF NoStranded
  <2> USE RelayTypesAssumption
  <2>ty. /\ peers \in [Conns -> Conns \cup {NoConn}]
         /\ groupServer \in [Usernames -> Conns \cup {NoConn}]
         /\ PeersSymmetric /\ NoGhosts /\ Recorded
    BY DEF ReachInv, GhostInv, PairInv, RouteInv, TypeInv, TypeOK, ManagerTypeOK, StoreTypeOK
  <2>1. Reached(c)
    BY DEF ReachInv, Reachable, Served
  <2>2. ASSUME NEW u \in Usernames, c \in groupClients[u]
        PROVE  IsPaired(c) /\ groupServer[u] \in Partners(c) /\ ~ Gone(groupServer[u])
    BY <2>2, <2>ty DEF Recorded, NoGhosts, IsPaired, HasGroup, Partners
  <2>3. ASSUME peers[c] # NoConn
        PROVE  /\ IsPaired(c) /\ peers[c] \in Partners(c)
               /\ Gone(peers[c]) => Mispaired(c)
    <3>1. peers[c] \in Conns /\ peers[peers[c]] = c
      BY <2>3, <2>ty DEF PeersSymmetric
    <3>. QED  BY <2>3, <3>1 DEF Parted, IsPaired, Partners, Mispaired
  <2>. QED  BY <2>1, <2>2, <2>3 DEF Reached
<1>2. GhostInv /\ Parted /\ [Next]_vars => Parted'
  BY PartedStep
<1>3. ReachInv => GhostInv
  BY DEF ReachInv
<1>. QED  BY <1>1, <1>2, <1>3, ReachInvInit, ReachInvStep, PartedInit, PTL DEF Spec

--------------------------------------------------------------------------------
(* Legacy pairs end with either side, when no server is multi-client.        *)

LegacyOnly == \A c \in Conns : \A r \in Requests[c] : ~ r.multiClient

NoMulti ==
  /\ \A c \in Conns : req[c] \in Request => ~ req[c].multiClient
  /\ \A c \in Conns : ~ multiClient[c]
  /\ \A u \in Usernames : groupServer[u] = NoConn

LegacyInv == GhostInv /\ NoMulti

LEMMA LegacyInvInit == Init => LegacyInv
<1>1. Init => NoMulti
  BY DEF Init, NewManager, NoMulti, NoRequest, Request
<1>. QED  BY <1>1, GhostInvInit DEF LegacyInv

LEMMA NoMultiStep ==
  ASSUME MaxHandshakes = 1, LegacyOnly
  PROVE  LegacyInv /\ [Next]_vars => NoMulti'
<1> SUFFICES ASSUME LegacyInv, [Next]_vars
             PROVE  NoMulti'
  OBVIOUS
<1> USE RelayTypesAssumption
<1>ty. /\ waiting \in [Usernames -> Conns \cup {NoConn}]
       /\ groupServer \in [Usernames -> Conns \cup {NoConn}]
       /\ multiClient \in [Conns -> BOOLEAN]
       /\ conns \subseteq Conns
       /\ req \in [Conns -> Request \cup {NoRequest}]
       /\ Stages
       /\ NoMulti
  BY DEF LegacyInv, GhostInv, PairInv, RouteInv, TypeInv, TypeOK, ManagerTypeOK, StoreTypeOK
<1>q. ASSUME UNCHANGED <<groupServer, multiClient, req>>
      PROVE  NoMulti'
  BY <1>q, <1>ty DEF NoMulti
<1>1. ASSUME NEW c \in Conns, Step(c)
      PROVE  NoMulti'
  <2>1. CASE ReadError(c) \/ AskRegistry(c) \/ Lookup(c) \/ Announce(c) \/ Forward(c)
             \/ \E t \in Conns : WriteToConn(c, t)
    BY <2>1, <1>q DEF ReadError, AskRegistry, Lookup, Announce, Forward, WriteToConn, managerVars
  <2>2. CASE Reject(c) \/ EnterRegistry(c) \/ Greet(c) \/ Farewell(c) \/ ServerOffline(c)
    BY <2>2, <1>q DEF Reject, EnterRegistry, Greet, Farewell, ServerOffline, DropStaleServer,
       groups, connFields
  <2>3. CASE Publish(c) \/ JoinLegacy(c)
    BY <2>3, <1>q DEF Publish, PublishServer, JoinLegacy, PairWithWaiting, groups, connFields
  <2>4. CASE Settle(c)
    BY <2>4, <1>ty DEF Settle, Goto, groups, NoMulti, Stages, RegisterLabels
  <2>5. CASE JoinMulti(c)
    BY <2>5, <1>ty DEF JoinMulti, JoinGroup, NoMulti
  <2>6. CASE CloseMember(c)
    BY <2>6, <1>ty DEF CloseMember, LeaveGroup, ClosesAsGroupClient, HasGroup, NoMulti
  <2>7. CASE CloseOther(c) /\ DisbandGroup(c)
    BY <2>7, <1>ty DEF DisbandGroup, ClosesAsGroupServer, HasGroup, NoMulti
  <2>8. CASE CloseOther(c) /\ (StopWaiting(c) \/ BreakPair(c))
    BY <2>8, <1>q DEF CloseOther, StopWaiting, BreakPair, groups, connFields
  <2>. QED  BY <1>1, <2>1, <2>2, <2>3, <2>4, <2>5, <2>6, <2>7, <2>8 DEF Step, CloseOther
<1>2. ASSUME NEW c \in Conns, Remote(c)
      PROVE  NoMulti'
  <2>1. CASE Accept(c) \/ ReadFrame(c) \/ Disconnect(c)
    BY <2>1, <1>q DEF Accept, ReadFrame, Disconnect, managerVars, groups, connFields, goVars
  <2>2. ASSUME NEW r \in Requests[c], ReadHandshake(c, r) \/ Unauthorized(c, r)
        PROVE  NoMulti'
    <3>1. /\ req' = [req EXCEPT ![c] = r]
          /\ UNCHANGED <<groupServer, multiClient>>
      BY <2>2 DEF ReadHandshake, Unauthorized, managerVars, groups, connFields
    <3>. QED  BY <3>1, <1>ty DEF NoMulti, LegacyOnly
  <2>. QED  BY <1>2, <2>1, <2>2 DEF Remote
<1>3. ASSUME NEW c \in Conns, CloseCompletes(c)
      PROVE  NoMulti'
  BY <1>3, <1>q DEF CloseCompletes, groups, connFields, goVars
<1>4. CASE Shutdown
  BY <1>4, <1>ty DEF Shutdown, CloseAll, connFields, goVars, NoMulti
<1>5. CASE UNCHANGED vars
  BY <1>5, <1>q DEF vars, managerVars, goVars
<1>. QED  BY <1>1, <1>2, <1>3, <1>4, <1>5 DEF Next

\* In a relay whose servers are all legacy ones, the pair is gone from the Store as
\* soon as HandleClose has run for one of its sides, even if both close at once.
THEOREM PairsEnd ==
  ASSUME MaxHandshakes = 1, LegacyOnly
  PROVE  Spec => []PairsLive
<1>1. LegacyInv /\ [Next]_vars => LegacyInv'
  BY GhostInvStep, NoMultiStep DEF LegacyInv
<1>2. LegacyInv /\ Parted /\ [Next]_vars => Parted'
  BY PartedStep DEF LegacyInv
<1>3. LegacyInv /\ Parted => PairsLive
  <2> SUFFICES ASSUME LegacyInv, Parted, NEW c \in Conns, peers[c] # NoConn
               PROVE  ~ Gone(c) /\ ~ Gone(peers[c])
    BY DEF PairsLive
  <2>1. peers[c] \in Conns /\ peers[peers[c]] = c /\ c # NoConn
    BY RelayTypesAssumption DEF LegacyInv, GhostInv, PairInv, RouteInv, TypeInv, TypeOK,
       ManagerTypeOK, StoreTypeOK, PeersSymmetric
  <2>. QED  BY <2>1 DEF LegacyInv, NoMulti, Parted
<1>. QED  BY <1>1, <1>2, <1>3, LegacyInvInit, PartedInit, PTL DEF Spec
================================================================================
