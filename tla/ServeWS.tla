-------------------------------- MODULE ServeWS --------------------------------
(***************************************************************************)
(* The relay: one goroutine per WebSocket connection running               *)
(* handler.ServeWS (internal/handler/handler.go) against the shared        *)
(* Manager, the goroutines that close WebSockets, the remote ends, and     *)
(* shutdown.  A goroutine's step is the code up to the next point where    *)
(* another goroutine can interfere: a critical section of the Manager or   *)
(* the registry, a write to somebody's WebSocket, a read from its own.     *)
(*                                                                         *)
(* Registry calls fail on any SQL error (a busy or a closed database), and *)
(* every such failure is reported as a rejection: Reject is always         *)
(* possible where the registry is asked.                                   *)
(***************************************************************************)
EXTENDS Manager, Naturals

CONSTANTS
  Requests,       \* connection -> the handshake messages its remote end may send
  MaxHandshakes   \* bound on the handshake messages read from one connection

Request == [type : {"server_register", "client_connect"}, username : Usernames,
            installID : Installs, multiClient : BOOLEAN, authorized : BOOLEAN]

\* req[c] before the first handshake message
NoRequest == [type |-> "none", username |-> NoUser]

ASSUME ServeWSAssumption ==
  /\ Requests \in [Conns -> SUBSET Request]
  /\ MaxHandshakes \in Nat \ {0}

VARIABLES
  pc,        \* where the goroutine of a connection is
  req,       \* the last handshake message it read
  asked,     \* how many it read (bounded by MaxHandshakes)
  target,    \* the connections it still has to write its current message to
  serverWS   \* ConnectionResult.ServerWS: the server a client was connected to

goVars == <<pc, req, asked, target, serverWS>>
vars == <<managerVars, goVars>>

Label == {"idle", "read", "canRegister", "register", "publish", "settle",
          "lookup", "join", "announce", "greetMember", "greetPeer", "forward", "write", "close",
          "farewell", "done"}

TypeOK ==
  /\ ManagerTypeOK
  /\ pc \in [Conns -> Label]
  /\ req \in [Conns -> Request \cup {NoRequest}]
  /\ asked \in [Conns -> 0 .. MaxHandshakes]
  /\ target \in [Conns -> SUBSET Conns]
  /\ serverWS \in [Conns -> Conns \cup {NoConn}]

Init ==
  /\ NewManager
  /\ pc = [c \in Conns |-> "idle"]
  /\ req = [c \in Conns |-> NoRequest]
  /\ asked = [c \in Conns |-> 0]
  /\ target = [c \in Conns |-> {}]
  /\ serverWS = [c \in Conns |-> NoConn]

Goto(c, from, to) == pc[c] = from /\ pc' = [pc EXCEPT ![c] = to]

--------------------------------------------------------------------------------
(* The read loop.                                                            *)

\* handleWS: the upgrade succeeded, the goroutine enters ServeWS.
Accept(c) ==
  /\ Goto(c, "idle", "read")
  /\ ws' = [ws EXCEPT ![c] = "open"]
  /\ UNCHANGED <<storeVars, usernames, conns, groups, connFields, req, asked, target, serverWS>>

\* A frame on a paired connection is payload, whatever it contains.
ReadFrame(c) ==
  /\ ws[c] # "closed"
  /\ IsPaired(c)
  /\ Goto(c, "read", "forward")
  /\ UNCHANGED <<managerVars, req, asked, target, serverWS>>

\* On an unpaired one it is a handshake (binary and unknown frames are skipped).
ReadHandshake(c, r) ==
  /\ ws[c] # "closed"
  /\ ~ IsPaired(c)
  /\ asked[c] < MaxHandshakes
  /\ r.authorized
  /\ Goto(c, "read", IF r.type = "server_register" THEN "canRegister" ELSE "lookup")
  /\ req' = [req EXCEPT ![c] = r]
  /\ asked' = [asked EXCEPT ![c] = @ + 1]
  /\ UNCHANGED <<managerVars, target, serverWS>>

\* Neither the JWT nor a token authorizes the registration.
Unauthorized(c, r) ==
  /\ ws[c] # "closed"
  /\ ~ IsPaired(c)
  /\ asked[c] < MaxHandshakes
  /\ r.type = "server_register"
  /\ ~ r.authorized
  /\ Goto(c, "read", "close")
  /\ req' = [req EXCEPT ![c] = r]
  /\ asked' = [asked EXCEPT ![c] = @ + 1]
  /\ ws' = [ws EXCEPT ![c] = "closed"]
  /\ UNCHANGED <<storeVars, usernames, conns, groups, connFields, target, serverWS>>

ReadError(c) ==
  /\ ws[c] = "closed"
  /\ Goto(c, "read", "close")
  /\ UNCHANGED <<managerVars, req, asked, target, serverWS>>

\* The code reports the rejection and closes the WebSocket before it returns.
Reject(c) ==
  /\ pc[c] \in {"canRegister", "register", "lookup"}
  /\ Goto(c, pc[c], "close")
  /\ ws' = [ws EXCEPT ![c] = "closed"]
  /\ UNCHANGED <<storeVars, usernames, conns, groups, connFields, req, asked, target, serverWS>>

--------------------------------------------------------------------------------
(* server_register: RegisterServer, then the Conn's fields and the reply.    *)

AskRegistry(c) ==
  /\ Goto(c, "canRegister", "register")
  /\ CanRegister(req[c].username, req[c].installID)
  /\ UNCHANGED <<managerVars, req, asked, target, serverWS>>

EnterRegistry(c) ==
  /\ Goto(c, "register", "publish")
  /\ Register(req[c].username, req[c].installID)
  /\ UNCHANGED <<storeVars, conns, groups, connFields, ws, req, asked, target, serverWS>>

Publish(c) ==
  /\ Goto(c, "publish", "settle")
  /\ PublishServer(c, req[c].username)
  /\ UNCHANGED <<req, asked, target, serverWS>>

\* The fields are set, and server_registered sent, after the server is published.
Settle(c) ==
  /\ Goto(c, "settle", "read")
  /\ username' = [username EXCEPT ![c] = req[c].username]
  /\ multiClient' = [multiClient EXCEPT ![c] = req[c].multiClient]
  /\ UNCHANGED <<storeVars, usernames, conns, groups, clientID, ws, req, asked, target, serverWS>>

--------------------------------------------------------------------------------
(* client_connect: ConnectClient, then the Conn's fields and the reply.      *)

Lookup(c) ==
  /\ Goto(c, "lookup", "join")
  /\ IsRegistered(req[c].username)
  /\ UNCHANGED <<managerVars, req, asked, target, serverWS>>

ServerOffline(c) ==
  /\ Goto(c, "join", "close")
  /\ \/ /\ NobodyWaiting(req[c].username)
        /\ UNCHANGED <<storeVars, usernames, conns, groups, connFields>>
     \/ DropStaleServer(req[c].username)
  /\ ws' = [ws EXCEPT ![c] = "closed"]
  /\ UNCHANGED <<req, asked, target, serverWS>>

JoinMulti(c) ==
  /\ Goto(c, "join", "announce")
  /\ JoinGroup(c, req[c].username)
  /\ serverWS' = [serverWS EXCEPT ![c] = waiting[req[c].username]]
  /\ UNCHANGED <<req, asked, target>>

JoinLegacy(c) ==
  /\ Goto(c, "join", "greetPeer")
  /\ PairWithWaiting(c, req[c].username)
  /\ serverWS' = [serverWS EXCEPT ![c] = waiting[req[c].username]]
  /\ UNCHANGED <<req, asked, target>>

\* relay_client_joined is written to the server found waiting.
Announce(c) ==
  /\ Goto(c, "announce", "greetMember")
  /\ UNCHANGED <<managerVars, req, asked, target, serverWS>>

\* ConnectionResult.ClientID is "" unless ConnectClient took the multi-client branch.
Greet(c) ==
  /\ pc[c] \in {"greetMember", "greetPeer"}
  /\ Goto(c, pc[c], "read")
  /\ username' = [username EXCEPT ![c] = req[c].username]
  /\ clientID' = [clientID EXCEPT ![c] = pc[c] = "greetMember"]
  /\ UNCHANGED <<storeVars, usernames, conns, groups, multiClient, ws, req, asked, target, serverWS>>

--------------------------------------------------------------------------------
(* Forward: choose the targets in a critical section, write to each outside. *)
(* With nobody to write to, or over the rate limit, the frame is dropped.    *)

Forward(c) ==
  /\ \E T \in Route(c) \cup {{}} :
       /\ Goto(c, "forward", IF T = {} THEN "read" ELSE "write")
       /\ target' = [target EXCEPT ![c] = T]
  /\ UNCHANGED <<managerVars, req, asked, serverWS>>

\* A write ends within relayWriteTimeout; its failure, like a drop, is only logged.
WriteToConn(c, t) ==
  /\ t \in target[c]
  /\ target' = [target EXCEPT ![c] = @ \ {t}]
  /\ Goto(c, "write", IF target[c] = {t} THEN "read" ELSE "write")
  /\ UNCHANGED <<managerVars, req, asked, serverWS>>

--------------------------------------------------------------------------------
(* The deferred HandleClose and CloseNow.                                    *)

\* The goroutine is gone and CloseNow has closed its own WebSocket.
Finished(c) == [CloseOf(ClosedWith(c)) EXCEPT ![c] = "closed"]

CloseMember(c) ==
  /\ Goto(c, "close", "farewell")
  /\ LeaveGroup(c)
  /\ target' = [target EXCEPT ![c] = {groupServer[username[c]]}]
  /\ UNCHANGED <<ws, req, asked, serverWS>>

\* relay_client_left is written to the server of the group that was left.
Farewell(c) ==
  /\ Goto(c, "farewell", "done")
  /\ target' = [target EXCEPT ![c] = {}]
  /\ ws' = [ws EXCEPT ![c] = "closed"]
  /\ UNCHANGED <<storeVars, usernames, conns, groups, connFields, req, asked, serverWS>>

CloseOther(c) ==
  /\ Goto(c, "close", "done")
  /\ DisbandGroup(c) \/ StopWaiting(c) \/ BreakPair(c)
  /\ ws' = Finished(c)
  /\ UNCHANGED <<req, asked, target, serverWS>>

--------------------------------------------------------------------------------
(* The environment of the goroutines.                                        *)

\* The remote end goes away, the network fails, or a write to it times out.
Disconnect(c) ==
  /\ ws[c] # "closed"
  /\ ws' = [ws EXCEPT ![c] = "closed"]
  /\ UNCHANGED <<storeVars, usernames, conns, groups, connFields, goVars>>

\* WS.Close ends with the remote end's close frame or after its timeout.
CloseCompletes(c) ==
  /\ ws[c] = "closing"
  /\ ws' = [ws EXCEPT ![c] = "closed"]
  /\ UNCHANGED <<storeVars, usernames, conns, groups, connFields, goVars>>

\* Server.Shutdown and Server.Close; the goroutines run on until the process ends.
Shutdown == conns # {} /\ CloseAll /\ UNCHANGED goVars

--------------------------------------------------------------------------------
\* The steps a goroutine takes without waiting for a remote end.
Step(c) ==
  \/ ReadError(c) \/ Reject(c)
  \/ AskRegistry(c) \/ EnterRegistry(c) \/ Publish(c) \/ Settle(c)
  \/ Lookup(c) \/ ServerOffline(c) \/ JoinMulti(c) \/ JoinLegacy(c)
  \/ Announce(c) \/ Greet(c)
  \/ Forward(c) \/ \E t \in Conns : WriteToConn(c, t)
  \/ CloseMember(c) \/ Farewell(c) \/ CloseOther(c)

\* What the remote end of a connection can do.
Remote(c) ==
  \/ Accept(c) \/ ReadFrame(c) \/ Disconnect(c)
  \/ \E r \in Requests[c] : ReadHandshake(c, r) \/ Unauthorized(c, r)

Next == Shutdown \/ \E c \in Conns : Step(c) \/ Remote(c) \/ CloseCompletes(c)

(***************************************************************************)
(* The Go scheduler runs every runnable goroutine, each write and each     *)
(* WS.Close ends within its timeout, and nothing obliges a remote end to   *)
(* send, to disconnect or not to.                                          *)
(***************************************************************************)
Fairness == \A c \in Conns : WF_vars(Step(c)) /\ WF_vars(CloseCompletes(c))

Spec == Init /\ [][Next]_vars /\ Fairness

--------------------------------------------------------------------------------
(* Properties.                                                               *)

\* HandleClose has run for the connection.
Gone(c) == pc[c] \in {"farewell", "done"}

\* A legacy pair is entered in both directions, and no connection is its own peer.
PeersSymmetric ==
  \A a, b \in Conns : peers[a] = b => peers[b] = a /\ a # b

\* Once HandleClose has run for a connection, no map of the Manager leads to it.
NoGhosts ==
  \A c \in Conns : Gone(c) =>
    /\ c \notin conns
    /\ \A u \in Usernames :
         waiting[u] # c /\ groupServer[u] # c /\ c \notin groupClients[u]

\* ... nor does the peers map, so that a pair is gone as soon as one side is.
PairsLive == \A c \in Conns : peers[c] # NoConn => ~ Gone(c) /\ ~ Gone(peers[c])

\* Whom a connection was put together with: the peer of its pair, the server of its group.
Partners(c) ==
  ({peers[c]} \cup {groupServer[u] : u \in {v \in Usernames : c \in groupClients[v]}}) \cap Conns

\* A client paired in legacy mode with a server that is multi-client by now, whose
\* HandleClose may therefore skip RemovePair (see MultiNeverLegacy).
Mispaired(c) == peers[c] # NoConn /\ multiClient[peers[c]]

\* For as long as it stays open, a connection whose handshake succeeded is on offer, or
\* paired with somebody whose HandleClose has yet to run and will then close it.  The
\* one exception is a client that is Mispaired: it may be left to a server that is gone.
NoStranded ==
  \A c \in Conns :
    pc[c] = "read" /\ asked[c] > 0 /\ ws[c] = "open" =>
      /\ c \in conns
      /\ \/ \E u \in Usernames : waiting[u] = c
         \/ IsPaired(c) /\ \E p \in Partners(c) : ~ Gone(p)
         \/ Mispaired(c)

Serves(c, u) == req[c].type = "server_register" /\ req[c].username = u
Asks(c, u) == req[c].type = "client_connect" /\ req[c].username = u

Opposite(c, d) ==
  \E u \in Usernames : (Serves(c, u) /\ Asks(d, u)) \/ (Asks(c, u) /\ Serves(d, u))

\* Nothing is written to a connection that did not ask, in the other role, for the
\* sender's username: frames never cross between usernames or between clients.
Isolation == \A c \in Conns : \A t \in target[c] : Opposite(c, t)

\* Whoever waits for, or serves the group of, a username belongs to the installation
\* that owns it in the registry: the recheck in Register decides, not CanRegister.
OwnerOnly ==
  \A u \in Usernames : \A s \in {waiting[u], groupServer[u]} \cap Conns :
    req[s].installID = usernames[u]

\* What a client sends, and the news that it left, goes to the server that was told
\* it joined.
AnnouncedRoute ==
  \A c \in Conns :
    req[c].type = "client_connect" => target[c] \subseteq {serverWS[c]}

\* A server that registered as multi-client is never half of a legacy pair.
MultiNeverLegacy ==
  \A c \in Conns :
    pc[c] = "read" /\ multiClient[c] => peers[c] = NoConn

\* A client is put out of its group only by its own HandleClose, by the HandleClose
\* of the server it was connected to, or by shutdown.
DisbandedByOwner ==
  [][\A c \in Conns, u \in Usernames :
       c \in groupClients[u] /\ c \notin groupClients'[u] =>
         Gone(c)' \/ Gone(serverWS[c])' \/ conns' = {}]_vars

\* The other side of its legacy pair, or the server of its group, is lost.
LostPartner(c) ==
  \/ peers[c] # NoConn /\ ws[peers[c]] = "closed"
  \/ \E u \in Usernames :
       c \in groupClients[u] /\ groupServer[u] # NoConn /\ ws[groupServer[u]] = "closed"

\* When a connection loses its partner, its own handler ends too: nobody is left
\* connected to a peer that is no longer there.
Teardown == \A c \in Conns : LostPartner(c) ~> pc[c] = "done"
--------------------------------------------------------------------------------
(* The relay implements Rendezvous: waiting is the offer, peers the partner, *)
(* and a connection is fresh until a critical section of RegisterServer or   *)
(* ConnectClient has accepted it, or it is turned away.                      *)

Unpublished == {"canRegister", "register", "publish", "lookup", "join"}

Fresh == {c \in Conns : asked[c] = 0 \/ pc[c] \in Unpublished}

R == INSTANCE Rendezvous WITH
       People <- Conns, Nobody <- NoConn, Names <- Usernames,
       offer <- waiting, partner <- peers, fresh <- Fresh

\* With one handshake per connection, whatever the handlers do to waiting and peers
\* amounts to offers, pairs and partings in which nobody takes part twice.
ImplementsRendezvous == R!Spec
================================================================================
