----------------------------- MODULE PairingProofs -----------------------------
(***************************************************************************)
(* That legacy pairs stay symmetric, and that a username is served only by *)
(* the installation that owns it, when connections send one handshake      *)
(* message each.                                                           *)
(***************************************************************************)
EXTENDS ServeWSProofs

\* Whoever waits, or has not reached the Manager yet, is not paired.
Unpaired ==
  /\ \A c \in Conns : pc[c] \in Unpublished => peers[c] = NoConn
  /\ \A c \in Conns, u \in Usernames : pc[c] \in Unpublished => waiting[u] # c
  /\ \A u \in Usernames, c \in Conns : waiting[u] = c => peers[c] = NoConn

PairInv == RouteInv /\ Unpaired /\ PeersSymmetric

LEMMA PairInvInit == Init => PairInv
<1>1. Init => Unpaired /\ PeersSymmetric
  BY RelayTypesAssumption
     DEF Init, NewManager, NewMemStore, Unpaired, Unpublished, PeersSymmetric
<1>. QED  BY <1>1, RouteInvInit DEF PairInv

LEMMA PairInvStep ==
  ASSUME MaxHandshakes = 1
  PROVE  PairInv /\ [Next]_vars => PairInv'
<1> SUFFICES ASSUME PairInv, [Next]_vars
             PROVE  Unpaired' /\ PeersSymmetric'
  BY RouteInvStep DEF PairInv
<1> USE RelayTypesAssumption
<1>ty. /\ waiting \in [Usernames -> Conns \cup {NoConn}]
       /\ peers \in [Conns -> Conns \cup {NoConn}]
       /\ conns \subseteq Conns
       /\ pc \in [Conns -> Label]
       /\ req \in [Conns -> Request \cup {NoRequest}]
       /\ asked \in [Conns -> 0 .. MaxHandshakes]
       /\ Stages
       /\ Agreement
  BY DEF PairInv, RouteInv, TypeInv, TypeOK, ManagerTypeOK, StoreTypeOK
<1>q. ASSUME UNCHANGED storeVars, NEW c \in Conns, NEW l, pc' = [pc EXCEPT ![c] = l],
             l \in Unpublished => pc[c] \in Unpublished
      PROVE  Unpaired' /\ PeersSymmetric'
  BY <1>q, <1>ty DEF PairInv, Unpaired, PeersSymmetric, storeVars
<1>w. ASSUME UNCHANGED <<storeVars, pc>>
      PROVE  Unpaired' /\ PeersSymmetric'
  BY <1>w DEF PairInv, Unpaired, PeersSymmetric, storeVars
<1>1. ASSUME NEW c \in Conns, Step(c)
      PROVE  Unpaired' /\ PeersSymmetric'
  <2>1. CASE ReadError(c) \/ AskRegistry(c) \/ Lookup(c) \/ Announce(c)
    BY <2>1, <1>q DEF ReadError, AskRegistry, Lookup, Announce, Goto, managerVars, storeVars, Unpublished
  <2>2. CASE Reject(c) \/ EnterRegistry(c) \/ Settle(c) \/ Greet(c) \/ Farewell(c)
    BY <2>2, <1>q DEF Reject, EnterRegistry, Settle, Greet, Farewell, Goto, Unpublished
  <2>3. CASE Forward(c) \/ \E t \in Conns : WriteToConn(c, t)
    BY <2>3, <1>q DEF Forward, WriteToConn, Goto, managerVars, storeVars, Unpublished
  <2>4. CASE Publish(c)
    <3>1. req[c].username \in Usernames /\ pc[c] = "publish"
      BY <2>4, <1>ty, RequestFields DEF Publish, Goto, Stages, RegisterLabels
    <3>2. /\ peers' = peers
          /\ waiting' = [waiting EXCEPT ![req[c].username] = c]
          /\ pc' = [pc EXCEPT ![c] = "settle"]
      BY <2>4 DEF Publish, Goto, PublishServer, SetWaiting
    <3>. QED  BY <3>1, <3>2, <1>ty DEF PairInv, Unpaired, Unpublished, PeersSymmetric
  <2>5. CASE ServerOffline(c)
    <3>1. /\ peers' = peers
          /\ \A u \in Usernames : waiting'[u] \in {waiting[u], NoConn}
          /\ pc' = [pc EXCEPT ![c] = "close"]
      BY <2>5, <1>ty DEF ServerOffline, Goto, DropStaleServer, RemoveWaiting, storeVars
    <3>. QED  BY <3>1, <1>ty DEF PairInv, Unpaired, Unpublished, PeersSymmetric
  <2>6. CASE JoinMulti(c)
    BY <2>6, <1>q DEF JoinMulti, JoinGroup, Goto, Unpublished
  <2>7. CASE JoinLegacy(c)
    <3> DEFINE u == req[c].username
               s == waiting[u]
    <3>1. u \in Usernames /\ s \in Conns /\ Serves(s, u) /\ Asks(c, u) /\ pc[c] = "join"
      BY <2>7, <1>ty, RequestFields DEF JoinLegacy, Goto, PairWithWaiting, Agreement,
         Serves, Asks, Stages, ConnectLabels
    <3>2. /\ peers' = [peers EXCEPT ![s] = c, ![c] = s]
          /\ waiting' = [waiting EXCEPT ![u] = NoConn]
          /\ pc' = [pc EXCEPT ![c] = "greetPeer"]
      BY <2>7 DEF JoinLegacy, PairWithWaiting, CreatePair, Goto
    <3>3. s # c /\ peers[s] = NoConn /\ peers[c] = NoConn /\ pc[s] \notin Unpublished
      BY <3>1, <1>ty DEF PairInv, Unpaired, Unpublished, Serves, Asks
    <3>4. \A v \in Usernames : waiting'[v] # s /\ waiting'[v] # c
      <4>1. \A v \in Usernames : waiting[v] = s => v = u
        BY <3>1, <1>ty DEF Agreement, Serves
      <4>2. \A v \in Usernames : waiting[v] # c
        BY <3>1, <1>ty DEF Agreement, Serves, Asks
      <4>. HIDE DEF u, s
      <4>. QED  BY <3>1, <3>2, <4>1, <4>2, <1>ty
    <3>5. \A v \in Usernames : waiting'[v] \in {waiting[v], NoConn}
      BY <3>1, <3>2, <1>ty
    <3>. HIDE DEF u, s
    <3>6. PeersSymmetric'
      BY <3>1, <3>2, <3>3, <1>ty DEF PairInv, PeersSymmetric
    <3>7. Unpaired'
      BY <3>1, <3>2, <3>3, <3>4, <3>5, <1>ty DEF PairInv, Unpaired, Unpublished
    <3>. QED  BY <3>6, <3>7
  <2>8. CASE CloseMember(c)
    BY <2>8, <1>q DEF CloseMember, LeaveGroup, Goto, Unpublished
  <2>9. CASE CloseOther(c) /\ (DisbandGroup(c) \/ StopWaiting(c))
    <3>1. /\ peers' = peers
          /\ \A u \in Usernames : waiting'[u] \in {waiting[u], NoConn}
          /\ pc' = [pc EXCEPT ![c] = "done"]
      BY <2>9, <1>ty DEF CloseOther, Goto, DisbandGroup, StopWaiting, RemoveWaiting
    <3>. QED  BY <3>1, <1>ty DEF PairInv, Unpaired, Unpublished, PeersSymmetric
  <2>10. CASE CloseOther(c) /\ BreakPair(c)
    <3>1. /\ peers' = [d \in Conns |-> IF d = c \/ d = peers[c] THEN NoConn ELSE peers[d]]
          /\ waiting' = waiting
          /\ pc' = [pc EXCEPT ![c] = "done"]
      BY <2>10 DEF CloseOther, Goto, BreakPair, RemovePair
    <3>. QED  BY <3>1, <1>ty DEF PairInv, Unpaired, Unpublished, PeersSymmetric
  <2>. QED  BY <1>1, <2>1, <2>2, <2>3, <2>4, <2>5, <2>6, <2>7, <2>8, <2>9, <2>10
            DEF Step, CloseOther
<1>2. ASSUME NEW c \in Conns, Remote(c)
      PROVE  Unpaired' /\ PeersSymmetric'
  <2>1. CASE Accept(c) \/ ReadFrame(c)
    BY <2>1, <1>q DEF Accept, ReadFrame, Goto, managerVars, storeVars, Unpublished
  <2>2. CASE Disconnect(c)
    BY <2>2, <1>w DEF Disconnect, goVars
  <2>3. ASSUME NEW r \in Requests[c], ReadHandshake(c, r) \/ Unauthorized(c, r)
        PROVE  Unpaired' /\ PeersSymmetric'
    <3>1. /\ asked[c] = 0
          /\ UNCHANGED storeVars
          /\ \A d \in Conns \ {c} : pc'[d] = pc[d]
      BY <2>3, <1>ty DEF ReadHandshake, Unauthorized, Goto, managerVars, storeVars
    <3>2. req[c] = NoRequest
      BY <3>1, <1>ty DEF Agreement
    <3>3. peers[c] = NoConn /\ \A u \in Usernames : waiting[u] # c
      BY <3>2, <1>ty DEF Agreement, NoRequest, Serves, Asks, Opposite
    <3>. QED  BY <3>1, <3>3, <1>ty DEF PairInv, Unpaired, PeersSymmetric, storeVars
  <2>. QED  BY <1>2, <2>1, <2>2, <2>3 DEF Remote
<1>3. ASSUME NEW c \in Conns, CloseCompletes(c)
      PROVE  Unpaired' /\ PeersSymmetric'
  BY <1>3, <1>w DEF CloseCompletes, goVars
<1>4. CASE Shutdown
  BY <1>4, <1>w DEF Shutdown, CloseAll, goVars
<1>5. CASE UNCHANGED vars
  BY <1>5, <1>w DEF vars, managerVars, goVars, storeVars
<1>. QED  BY <1>1, <1>2, <1>3, <1>4, <1>5 DEF Next

\* The peers map is a symmetric relation without fixed points: CreatePair never
\* overwrites one half of a pair that exists, and RemovePair removes both halves.
THEOREM PairsSymmetric ==
  ASSUME MaxHandshakes = 1
  PROVE  Spec => []PeersSymmetric
<1>1. PairInv => PeersSymmetric
  BY DEF PairInv
<1>. QED  BY <1>1, PairInvInit, PairInvStep, PTL DEF Spec

--------------------------------------------------------------------------------
(* Ownership.                                                                *)

\* Between Register and the publication the username belongs to the installation.
Entered ==
  \A c \in Conns : pc[c] = "publish" => usernames[req[c].username] = req[c].installID

OwnerInv == RouteInv /\ Entered /\ OwnerOnly

LEMMA OwnerInvInit == Init => OwnerInv
<1>1. Init => Entered /\ OwnerOnly
  BY RelayTypesAssumption DEF Init, NewManager, NewMemStore, Entered, OwnerOnly
<1>. QED  BY <1>1, RouteInvInit DEF OwnerInv

LEMMA OwnerInvStep ==
  ASSUME MaxHandshakes = 1
  PROVE  OwnerInv /\ [Next]_vars => OwnerInv'
<1> SUFFICES ASSUME OwnerInv, [Next]_vars
             PROVE  Entered' /\ OwnerOnly'
  BY RouteInvStep DEF OwnerInv
<1> USE RelayTypesAssumption
<1>ty. /\ waiting \in [Usernames -> Conns \cup {NoConn}]
       /\ groupServer \in [Usernames -> Conns \cup {NoConn}]
       /\ usernames \in [Usernames -> Installs \cup {NoInstall}]
       /\ pc \in [Conns -> Label]
       /\ req \in [Conns -> Request \cup {NoRequest}]
       /\ asked \in [Conns -> 0 .. MaxHandshakes]
       /\ Stages
       /\ Agreement
  BY DEF OwnerInv, RouteInv, TypeInv, TypeOK, ManagerTypeOK, StoreTypeOK, RegistryTypeOK
\* Entries disappear and nobody reaches the publication: nothing to show.
<1>q. ASSUME UNCHANGED <<usernames, req>>,
             \A d \in Conns : pc'[d] = "publish" => pc[d] = "publish",
             \A u \in Usernames : waiting'[u] \in {waiting[u], NoConn},
             \A u \in Usernames : groupServer'[u] \in {waiting[u], groupServer[u], NoConn}
      PROVE  Entered' /\ OwnerOnly'
  <2>1. Entered'
    BY <1>q DEF OwnerInv, Entered
  <2>2. OwnerOnly'
    BY <1>q DEF OwnerInv, OwnerOnly
  <2>. QED  BY <2>1, <2>2
<1>1. ASSUME NEW c \in Conns, Step(c)
      PROVE  Entered' /\ OwnerOnly'
  <2>1. CASE ReadError(c) \/ AskRegistry(c) \/ Lookup(c) \/ Announce(c) \/ Forward(c)
             \/ \E t \in Conns : WriteToConn(c, t)
    BY <2>1, <1>ty, <1>q DEF ReadError, AskRegistry, Lookup, Announce, Forward, WriteToConn, Goto, managerVars
  <2>2. CASE Reject(c) \/ Settle(c) \/ Greet(c) \/ Farewell(c)
    BY <2>2, <1>ty, <1>q DEF Reject, Settle, Greet, Farewell, Goto, storeVars, groups
  <2>3. CASE EnterRegistry(c)
    <3> DEFINE u == req[c].username
    <3>1. /\ u \in Usernames
          /\ usernames[u] \in {NoInstall, req[c].installID}
          /\ usernames' = [usernames EXCEPT ![u] = req[c].installID]
          /\ UNCHANGED <<waiting, groupServer, req>>
          /\ pc' = [pc EXCEPT ![c] = "publish"]
      BY <2>3 DEF EnterRegistry, Register, IsValidUsername, Goto, storeVars, groups
    <3>2. \A s \in {waiting[u], groupServer[u]} \cap Conns : req[s].installID = req[c].installID
      <4>1. \A s \in {waiting[u], groupServer[u]} \cap Conns : Serves(s, u) /\ req[s] \in Request
        BY <3>1, <1>ty DEF Agreement, Serves, NoRequest
      <4>2. \A s \in {waiting[u], groupServer[u]} \cap Conns : req[s].installID = usernames[u]
        BY <3>1 DEF OwnerInv, OwnerOnly
      <4>. QED  BY <3>1, <4>1, <4>2, RequestFields
    <3>3. OwnerOnly'
      BY <3>1, <3>2, <1>ty DEF OwnerInv, OwnerOnly
    <3>4. Entered'
      <4>1. ASSUME NEW d \in Conns, pc[d] = "publish"
            PROVE  req[d] \in Request /\ usernames[req[d].username] = req[d].installID
        BY <4>1, <1>ty DEF Stages, RegisterLabels, OwnerInv, Entered
      <4>2. ASSUME NEW d \in Conns, pc[d] = "publish", req[d].username = u
            PROVE  req[d].installID = req[c].installID
        BY <3>1, <4>1, <4>2, RequestFields
      <4>. QED  BY <3>1, <4>1, <4>2, <1>ty, RequestFields DEF Entered
    <3>. QED  BY <3>3, <3>4
  <2>4. CASE Publish(c)
    <3>1. /\ req[c].username \in Usernames
          /\ usernames[req[c].username] = req[c].installID
          /\ waiting' = [waiting EXCEPT ![req[c].username] = c]
          /\ pc' = [pc EXCEPT ![c] = "settle"]
          /\ UNCHANGED <<groupServer, usernames, req>>
      BY <2>4, <1>ty, RequestFields DEF Publish, Goto, PublishServer, SetWaiting, groups,
         Stages, RegisterLabels, OwnerInv, Entered
    <3>2. Entered'
      BY <3>1, <1>ty DEF OwnerInv, Entered
    <3>3. OwnerOnly'
      BY <3>1, <1>ty DEF OwnerInv, OwnerOnly
    <3>. QED  BY <3>2, <3>3
  <2>5. CASE ServerOffline(c)
    BY <2>5, <1>ty, <1>q DEF ServerOffline, Goto, DropStaleServer, RemoveWaiting, storeVars, groups
  <2>6. CASE JoinMulti(c)
    BY <2>6, <1>ty, <1>q DEF JoinMulti, Goto, JoinGroup, storeVars
  <2>7. CASE JoinLegacy(c)
    BY <2>7, <1>ty, <1>q DEF JoinLegacy, Goto, PairWithWaiting, CreatePair, groups
  <2>8. CASE CloseMember(c)
    BY <2>8, <1>ty, <1>q DEF CloseMember, LeaveGroup, Goto, storeVars
  <2>9. CASE CloseOther(c)
    BY <2>9, <1>ty, <1>q DEF CloseOther, DisbandGroup, StopWaiting, BreakPair, RemoveWaiting, Goto, groups
  <2>. QED  BY <1>1, <2>1, <2>2, <2>3, <2>4, <2>5, <2>6, <2>7, <2>8, <2>9 DEF Step
<1>2. ASSUME NEW c \in Conns, Remote(c)
      PROVE  Entered' /\ OwnerOnly'
  <2>1. CASE Accept(c) \/ ReadFrame(c) \/ Disconnect(c)
    BY <2>1, <1>ty, <1>q DEF Accept, ReadFrame, Disconnect, Goto, managerVars, storeVars, groups, goVars
  <2>2. ASSUME NEW r \in Requests[c], ReadHandshake(c, r) \/ Unauthorized(c, r)
        PROVE  Entered' /\ OwnerOnly'
    <3>1. /\ asked[c] = 0
          /\ UNCHANGED <<waiting, groupServer, usernames>>
          /\ req' = [req EXCEPT ![c] = r]
          /\ \A d \in Conns \ {c} : pc'[d] = pc[d]
          /\ pc'[c] # "publish"
      BY <2>2, <1>ty DEF ReadHandshake, Unauthorized, Goto, managerVars, storeVars, groups
    <3>2. req[c] = NoRequest
      BY <3>1, <1>ty DEF Agreement
    <3>3. \A u \in Usernames : waiting[u] # c /\ groupServer[u] # c
      BY <3>2, <1>ty DEF Agreement, NoRequest, Serves
    <3>4. Entered'
      BY <3>1, <1>ty DEF OwnerInv, Entered
    <3>5. OwnerOnly'
      BY <3>1, <3>3, <1>ty DEF OwnerInv, OwnerOnly
    <3>. QED  BY <3>4, <3>5
  <2>. QED  BY <1>2, <2>1, <2>2 DEF Remote
<1>3. ASSUME NEW c \in Conns, CloseCompletes(c)
      PROVE  Entered' /\ OwnerOnly'
  BY <1>3, <1>q DEF CloseCompletes, storeVars, groups, goVars
<1>4. CASE Shutdown
  BY <1>4, <1>q DEF Shutdown, CloseAll, storeVars, goVars
<1>5. CASE UNCHANGED vars
  BY <1>5, <1>q DEF vars, managerVars, goVars
<1>. QED  BY <1>1, <1>2, <1>3, <1>4, <1>5 DEF Next

\* However registrations of one username interleave, the server that waits for it and
\* the server of its group belong to the installation the registry names.
THEOREM OwnerServes ==
  ASSUME MaxHandshakes = 1
  PROVE  Spec => []OwnerOnly
<1>1. OwnerInv => OwnerOnly
  BY DEF OwnerInv
<1>. QED  BY <1>1, OwnerInvInit, OwnerInvStep, PTL DEF Spec
================================================================================
