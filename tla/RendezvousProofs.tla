---------------------------- MODULE RendezvousProofs ----------------------------
(***************************************************************************)
(* ServeWS implements Rendezvous, when a connection sends one handshake    *)
(* message: initial states are mapped to initial states, and each step to  *)
(* a step or to none.  Keepalive in turn implements ServeWS, up to the     *)
(* fairness, with its variables as they are.                               *)
(***************************************************************************)
EXTENDS ServeWSProofs, Keepalive

\* A connection in a handshake has been counted as having asked.
LEMMA AskedInHandshake ==
  ASSUME RouteInv, NEW c \in Conns,
         pc[c] \in RegisterLabels \cup ConnectLabels
  PROVE  asked[c] # 0
BY RequestFields DEF RouteInv, TypeInv, Stages, Agreement

\* Nobody else's freshness changes in a step of c.
LEMMA OthersStayFresh ==
  ASSUME RouteInv, NEW c \in Conns, NEW k,
         pc' = [pc EXCEPT ![c] = k], UNCHANGED asked
  PROVE  Fresh' = IF asked[c] = 0 \/ k \in Unpublished THEN Fresh \cup {c} ELSE Fresh \ {c}
BY DEF RouteInv, TypeInv, TypeOK, Fresh

LEMMA InitMaps == Init => R!Init
BY DEF Init, NewManager, NewMemStore, R!Init, Fresh

LEMMA StepMaps ==
  ASSUME MaxHandshakes = 1
  PROVE  RouteInv /\ [Next]_vars => [R!Next]_R!rendezvous
<1> SUFFICES ASSUME RouteInv, [Next]_vars
             PROVE  [R!Next]_R!rendezvous
  OBVIOUS
<1> USE RelayTypesAssumption
<1>ty. /\ waiting \in [Usernames -> Conns \cup {NoConn}]
       /\ peers \in [Conns -> Conns \cup {NoConn}]
       /\ pc \in [Conns -> Label]
       /\ req \in [Conns -> Request \cup {NoRequest}]
       /\ asked \in [Conns -> 0 .. MaxHandshakes]
       /\ conns \subseteq Conns
       /\ Stages
  BY DEF RouteInv, TypeInv, TypeOK, ManagerTypeOK, StoreTypeOK
<1>named. ASSUME NEW c \in Conns, pc[c] \in RegisterLabels \cup ConnectLabels
          PROVE  req[c].username \in Usernames
  BY <1>named, RequestFields, <1>ty DEF Stages
\* The maps stay, and c is as fresh after the step as it was before.
<1>quiet. ASSUME NEW c \in Conns, NEW k, pc' = [pc EXCEPT ![c] = k],
                 UNCHANGED <<waiting, peers, asked>>,
                 asked[c] = 0 \/ (pc[c] \in Unpublished <=> k \in Unpublished)
          PROVE  UNCHANGED R!rendezvous
  <2>1. Fresh' = Fresh
    BY <1>quiet, <1>ty DEF Fresh
  <2>. QED  BY <2>1, <1>quiet DEF R!rendezvous
\* The maps stay, and c stops being fresh.
<1>leave. ASSUME NEW c \in Conns, NEW k, pc' = [pc EXCEPT ![c] = k],
                 UNCHANGED <<waiting, peers, asked>>,
                 asked[c] # 0, k \notin Unpublished
          PROVE  R!Leave(c)
  <2>1. Fresh' = Fresh \ {c}
    BY <1>leave, OthersStayFresh
  <2>. QED  BY <2>1, <1>leave DEF R!Leave
<1>1. ASSUME NEW c \in Conns, Step(c)
      PROVE  [R!Next]_R!rendezvous
  <2>1. CASE ReadError(c)
    BY <2>1, <1>quiet, <1>ty DEF ReadError, Goto, managerVars, Unpublished
  <2>2. CASE Reject(c)
    <3>1. asked[c] # 0
      BY <2>2, AskedInHandshake DEF Reject, RegisterLabels, ConnectLabels
    <3>. QED  BY <2>2, <3>1, <1>leave DEF Reject, Goto, storeVars, Unpublished, R!Next
  <2>3. CASE AskRegistry(c)
    BY <2>3, <1>quiet, <1>ty DEF AskRegistry, Goto, managerVars, Unpublished
  <2>4. CASE EnterRegistry(c)
    BY <2>4, <1>quiet, <1>ty DEF EnterRegistry, Goto, storeVars, Unpublished
  <2>5. CASE Publish(c)
    <3>1. pc[c] = "publish"
      BY <2>5 DEF Publish, Goto
    <3>2. asked[c] # 0 /\ req[c].username \in Usernames
      BY <3>1, AskedInHandshake, <1>named DEF RegisterLabels
    <3>3. c \in Fresh
      BY <3>1 DEF Fresh, Unpublished
    <3>4. Fresh' = Fresh \ {c}
      BY <2>5, <3>2, OthersStayFresh DEF Publish, Goto, Unpublished
    <3>5. R!MakeOffer(c, req[c].username)
      BY <2>5, <3>3, <3>4 DEF Publish, PublishServer, SetWaiting, R!MakeOffer
    <3>. QED  BY <3>2, <3>5 DEF R!Next
  <2>6. CASE Settle(c)
    BY <2>6, <1>quiet, <1>ty DEF Settle, Goto, storeVars, Unpublished
  <2>7. CASE Lookup(c)
    BY <2>7, <1>quiet, <1>ty DEF Lookup, Goto, managerVars, Unpublished
  <2>8. CASE ServerOffline(c)
    <3>1. pc[c] = "join"
      BY <2>8 DEF ServerOffline, Goto
    <3>2. asked[c] # 0 /\ req[c].username \in Usernames
      BY <3>1, AskedInHandshake, <1>named DEF ConnectLabels
    <3>3. Fresh' = Fresh \ {c}
      BY <2>8, <3>2, OthersStayFresh DEF ServerOffline, Goto, Unpublished
    <3>4. CASE UNCHANGED storeVars
      <4>1. R!Leave(c)
        BY <3>3, <3>4 DEF storeVars, R!Leave
      <4>. QED  BY <4>1 DEF R!Next
    <3>5. CASE DropStaleServer(req[c].username)
      <4>1. R!FindStale(c, req[c].username)
        BY <3>2, <3>3, <3>5, <1>ty DEF DropStaleServer, RemoveWaiting, R!FindStale
      <4>. QED  BY <3>2, <4>1 DEF R!Next
    <3>. QED  BY <2>8, <3>4, <3>5 DEF ServerOffline
  <2>9. CASE JoinMulti(c)
    <3>1. asked[c] # 0
      BY <2>9, AskedInHandshake DEF JoinMulti, Goto, ConnectLabels
    <3>. QED  BY <2>9, <3>1, <1>leave DEF JoinMulti, JoinGroup, Goto, storeVars, Unpublished, R!Next
  <2>10. CASE JoinLegacy(c)
    <3>1. pc[c] = "join"
      BY <2>10 DEF JoinLegacy, Goto
    <3>2. asked[c] # 0 /\ req[c].username \in Usernames
      BY <3>1, AskedInHandshake, <1>named DEF ConnectLabels
    <3>3. c \in Fresh
      BY <3>1 DEF Fresh, Unpublished
    <3>4. Fresh' = Fresh \ {c}
      BY <2>10, <3>2, OthersStayFresh DEF JoinLegacy, Goto, Unpublished
    <3>5. R!TakeOffer(c, req[c].username)
      BY <2>10, <3>3, <3>4, <1>ty DEF JoinLegacy, PairWithWaiting, CreatePair, R!TakeOffer
    <3>. QED  BY <3>2, <3>5 DEF R!Next
  <2>11. CASE Announce(c)
    BY <2>11, <1>quiet, <1>ty DEF Announce, Goto, managerVars, Unpublished
  <2>12. CASE Greet(c)
    BY <2>12, <1>quiet, <1>ty DEF Greet, Goto, storeVars, Unpublished
  <2>13. CASE Forward(c)
    <3>1. PICK k \in {"read", "write"} : Goto(c, "forward", k)
      BY <2>13 DEF Forward
    <3>. QED  BY <2>13, <3>1, <1>quiet, <1>ty DEF Forward, Goto, managerVars, Unpublished
  <2>14. CASE \E t \in Conns : WriteToConn(c, t)
    <3>1. PICK k \in {"read", "write"} : Goto(c, "write", k)
      BY <2>14 DEF WriteToConn
    <3>. QED  BY <2>14, <3>1, <1>quiet, <1>ty DEF WriteToConn, Goto, managerVars, Unpublished
  <2>15. CASE CloseMember(c)
    BY <2>15, <1>quiet, <1>ty DEF CloseMember, LeaveGroup, Goto, storeVars, Unpublished
  <2>16. CASE Farewell(c)
    BY <2>16, <1>quiet, <1>ty DEF Farewell, Goto, storeVars, Unpublished
  <2>17. CASE CloseOther(c)
    <3>1. Fresh' = Fresh
      BY <2>17, <1>ty DEF CloseOther, Goto, Fresh, Unpublished
    <3>2. CASE DisbandGroup(c)
      <4>1. username[c] \in Usernames
        BY <3>2 DEF DisbandGroup, ClosesAsGroupServer, HasGroup
      <4>2. \/ waiting' = waiting
            \/ waiting' = [waiting EXCEPT ![username[c]] = NoConn]
        BY <3>2, <4>1, <1>ty DEF DisbandGroup, RemoveWaiting
      <4>3. UNCHANGED R!rendezvous \/ R!Withdraw(username[c])
        BY <3>1, <3>2, <4>2 DEF DisbandGroup, R!rendezvous, R!Withdraw
      <4>. QED  BY <4>1, <4>3 DEF R!Next
    <3>3. CASE StopWaiting(c)
      <4>1. username[c] \in Usernames
        BY <3>3, <1>ty DEF StopWaiting, ClosesAsWaiting, RouteInv, TypeInv, TypeOK, ManagerTypeOK
      <4>2. R!Withdraw(username[c])
        BY <3>1, <3>3, <4>1, <1>ty DEF StopWaiting, ClosesAsWaiting, RemoveWaiting, R!Withdraw
      <4>. QED  BY <4>1, <4>2 DEF R!Next
    <3>4. CASE BreakPair(c)
      <4>1. R!Part(c)
        BY <3>1, <3>4, <1>ty DEF BreakPair, RemovePair, R!Part
      <4>. QED  BY <4>1 DEF R!Next
    <3>. QED  BY <2>17, <3>2, <3>3, <3>4 DEF CloseOther
  <2>. QED  BY <1>1, <2>1, <2>2, <2>3, <2>4, <2>5, <2>6, <2>7, <2>8, <2>9, <2>10, <2>11,
               <2>12, <2>13, <2>14, <2>15, <2>16, <2>17 DEF Step
<1>2. ASSUME NEW c \in Conns, Remote(c)
      PROVE  [R!Next]_R!rendezvous
  <2>1. CASE Accept(c)
    BY <2>1, <1>quiet, <1>ty DEF Accept, Goto, storeVars, Unpublished
  <2>2. CASE ReadFrame(c)
    BY <2>2, <1>quiet, <1>ty DEF ReadFrame, Goto, managerVars, Unpublished
  <2>3. CASE Disconnect(c)
    BY <2>3, <1>ty DEF Disconnect, storeVars, goVars, R!rendezvous, Fresh
  <2>4. ASSUME NEW r \in Requests[c], ReadHandshake(c, r)
        PROVE  [R!Next]_R!rendezvous
    <3>1. asked[c] = 0
      BY <2>4, <1>ty DEF ReadHandshake
    <3>2. Fresh' = Fresh
      BY <2>4, <3>1, <1>ty DEF ReadHandshake, Goto, Fresh, Unpublished
    <3>. QED  BY <2>4, <3>2 DEF ReadHandshake, managerVars, R!rendezvous
  <2>5. ASSUME NEW r \in Requests[c], Unauthorized(c, r)
        PROVE  [R!Next]_R!rendezvous
    <3>1. asked[c] = 0
      BY <2>5, <1>ty DEF Unauthorized
    <3>2. Fresh' = Fresh \ {c}
      BY <2>5, <3>1, <1>ty DEF Unauthorized, Goto, Fresh, Unpublished
    <3>3. R!Leave(c)
      BY <2>5, <3>2 DEF Unauthorized, storeVars, R!Leave
    <3>. QED  BY <3>3 DEF R!Next
  <2>. QED  BY <1>2, <2>1, <2>2, <2>3, <2>4, <2>5 DEF Remote
<1>3. ASSUME NEW c \in Conns, CloseCompletes(c)
      PROVE  [R!Next]_R!rendezvous
  BY <1>3 DEF CloseCompletes, storeVars, goVars, R!rendezvous, Fresh
<1>4. CASE Shutdown
  BY <1>4 DEF Shutdown, CloseAll, storeVars, goVars, R!rendezvous, Fresh
<1>5. CASE UNCHANGED vars
  BY <1>5 DEF vars, managerVars, goVars, R!rendezvous, Fresh
<1>. QED  BY <1>1, <1>2, <1>3, <1>4, <1>5 DEF Next

\* The handlers, whatever their interleaving, implement the abstract rendezvous:
\* waiting and peers change only by offers, pairs and partings in which no connection
\* takes part twice.
THEOREM RelayImplementsRendezvous ==
  ASSUME MaxHandshakes = 1
  PROVE  Spec => ImplementsRendezvous
<1>1. Spec => []RouteInv
  BY RouteInvInit, RouteInvStep, PTL DEF Spec
<1>. QED  BY <1>1, InitMaps, StepMaps, PTL DEF Spec, ImplementsRendezvous, R!Spec

--------------------------------------------------------------------------------
(* Keepalive.                                                                *)

LEMMA KeepStep ==
  KTypeOK /\ [KNext]_keepVars =>
    /\ [Next]_vars
    /\ ping' \in [Conns -> PingLabel]
    /\ silent' \subseteq Conns
<1> SUFFICES ASSUME KTypeOK, [KNext]_keepVars
             PROVE  /\ [Next]_vars
                    /\ ping' \in [Conns -> PingLabel]
                    /\ silent' \subseteq Conns
  OBVIOUS
<1>0. /\ ping \in [Conns -> PingLabel] /\ silent \subseteq Conns
      /\ ws \in [Conns -> WSState]
  BY DEF KTypeOK, TypeOK, ManagerTypeOK
<1>. USE DEF PingLabel
<1>1. ASSUME NEW c \in Conns, Serve(c)
      PROVE  [Next]_vars /\ ping' \in [Conns -> PingLabel] /\ silent' \subseteq Conns
  <2>1. Next
    BY <1>1 DEF Serve, Next
  <2>2. ping' \in [Conns -> PingLabel] /\ silent' \subseteq Conns
    BY <1>0, <1>1 DEF Serve
  <2>. QED  BY <2>1, <2>2
<1>2. ASSUME NEW c \in Conns, Hear(c) \/ Quietly(CloseCompletes(c))
      PROVE  [Next]_vars /\ ping' \in [Conns -> PingLabel] /\ silent' \subseteq Conns
  <2>1. Next
    BY <1>2 DEF Hear, Quietly, Next
  <2>. QED  BY <1>0, <1>2, <2>1 DEF Hear, Quietly
<1>3. CASE Quietly(Shutdown)
  <2>1. Next
    BY <1>3 DEF Quietly, Next
  <2>. QED  BY <1>0, <1>3, <2>1 DEF Quietly
<1>4. ASSUME NEW c \in Conns, FallSilent(c) \/ Tick(c) \/ PongArrives(c)
      PROVE  [Next]_vars /\ ping' \in [Conns -> PingLabel] /\ silent' \subseteq Conns
  <2>1. UNCHANGED vars
    BY <1>4 DEF FallSilent, Tick, PongArrives
  <2>2. ping' \in [Conns -> PingLabel] /\ silent' \subseteq Conns
    BY <1>0, <1>4 DEF FallSilent, Tick, PongArrives, PingGoto
  <2>. QED  BY <2>1, <2>2
\* pingLoop closes a WebSocket that may be closed already.
<1>5. ASSUME NEW c \in Conns, PongMissing(c)
      PROVE  [Next]_vars /\ ping' \in [Conns -> PingLabel] /\ silent' \subseteq Conns
  <2>1. /\ ws' = [ws EXCEPT ![c] = "closed"]
        /\ UNCHANGED <<storeVars, usernames, conns, groups, connFields, goVars>>
    BY <1>5 DEF PongMissing
  <2>2. CASE ws[c] = "closed"
    <3>1. ws' = ws
      BY <1>0, <2>1, <2>2
    <3>2. UNCHANGED vars
      BY <2>1, <3>1 DEF vars, managerVars, storeVars, groups, connFields
    <3>. QED  BY <1>0, <1>5, <3>2 DEF PongMissing, PingGoto
  <2>3. CASE ws[c] # "closed"
    <3>1. Disconnect(c)
      BY <2>1, <2>3 DEF Disconnect
    <3>2. Next
      BY <3>1 DEF Next, Remote
    <3>. QED  BY <1>0, <1>5, <3>2 DEF PongMissing, PingGoto
  <2>. QED  BY <2>2, <2>3
<1>6. CASE UNCHANGED keepVars
  BY <1>0, <1>6 DEF keepVars
<1>. QED  BY <1>1, <1>2, <1>3, <1>4, <1>5, <1>6 DEF KNext, PingLoop

LEMMA KeepInvariant == KSpec => [](KTypeOK /\ TypeInv)
<1>1. KInit => KTypeOK /\ TypeInv
  BY TypeInvInit DEF KInit, KTypeOK, TypeInv, PingLabel
<1>2. KTypeOK /\ TypeInv /\ [KNext]_keepVars => KTypeOK' /\ TypeInv'
  BY KeepStep, TypeInvStep DEF KTypeOK, TypeInv
<1>. QED  BY <1>1, <1>2, PTL DEF KSpec

\* The pingLoop goroutine has a state of its own and keeps its type, and that of every
\* variable of the relay.
THEOREM KeepaliveTypes == KSpec => []KTypeOK
BY KeepInvariant, PTL

\* pingLoop does to the relay only what a remote end that goes away can do at any time:
\* what holds of every step of ServeWS holds with it.
THEOREM KeepaliveImplements == KSpec => Init /\ [][Next]_vars
<1>1. KInit => Init
  BY DEF KInit
<1>. QED  BY <1>1, KeepStep, KeepInvariant, PTL DEF KSpec

\* Isolation, with servers that are pinged and remote ends that fall silent.
THEOREM KeepaliveIsolates ==
  ASSUME MaxHandshakes = 1
  PROVE  KSpec => []Isolation
<1>1. RouteInv => Isolation
  BY DEF RouteInv
<1>. QED  BY <1>1, KeepaliveImplements, RouteInvInit, RouteInvStep, PTL

\* ... and SoleDisband too: a pingLoop that closes a server takes no other server's clients.
THEOREM KeepaliveDisbands ==
  ASSUME MaxHandshakes = 1, SoleServers
  PROVE  KSpec => DisbandedByOwner
<1>1. RouteInv /\ Told /\ [Next]_vars =>
        [\A c \in Conns, u \in Usernames :
           c \in groupClients[u] /\ c \notin groupClients'[u] =>
             Gone(c)' \/ Gone(serverWS[c])' \/ conns' = {}]_vars
  BY DisbandStep
<1>. QED  BY <1>1, KeepaliveImplements, RouteInvInit, RouteInvStep, ToldInit, ToldStep, PTL
          DEF DisbandedByOwner
================================================================================
