-------------------------------- MODULE Manager --------------------------------
(***************************************************************************)
(* The connection manager (internal/connections/connections.go): the Store *)
(* of waiting servers and legacy pairs, the local map of connections, and  *)
(* the multi-client groups.  Each operator below is one critical section   *)
(* of Manager.mu (the text between Lock and Unlock), or a read made in one;*)
(* the goroutine that runs it is in ServeWS.                               *)
(*                                                                         *)
(* A Conn is shared by pointer and its Username, MultiClient and ClientID  *)
(* are written by its own goroutine outside mu, so they are state of their *)
(* own here.  A client's ClientID is a fresh UUID that only ever names the *)
(* connection itself, so clientID[c] records just whether it is set.       *)
(***************************************************************************)
EXTENDS MemStore, Registry, FiniteSets

VARIABLES
  conns,         \* Manager.conns: the connections registered or connected
  groupServer,   \* username -> multiGroups[username].serverConn, NoConn if no group
  groupClients,  \* username -> the connections in multiGroups[username].clients
  username,      \* Conn.Username
  multiClient,   \* Conn.MultiClient
  clientID,      \* Conn.ClientID # ""
  ws             \* state of Conn.WS

managerVars == <<waiting, peers, usernames, conns, groupServer, groupClients,
                 username, multiClient, clientID, ws>>

(***************************************************************************)
(* "closing": some goroutine has called, or is committed to call, Close on *)
(* the WebSocket; its reader may still deliver frames that are in flight.  *)
(* "closed": the reader fails.                                             *)
(***************************************************************************)
WSState == {"open", "closing", "closed"}

ManagerTypeOK ==
  /\ StoreTypeOK
  /\ RegistryTypeOK
  /\ conns \subseteq Conns
  /\ groupServer \in [Usernames -> Conns \cup {NoConn}]
  /\ groupClients \in [Usernames -> SUBSET Conns]
  /\ username \in [Conns -> Usernames \cup {NoUser}]
  /\ multiClient \in [Conns -> BOOLEAN]
  /\ clientID \in [Conns -> BOOLEAN]
  /\ ws \in [Conns -> WSState]

NewManager ==
  /\ NewMemStore
  /\ NewRegistry
  /\ conns = {}
  /\ groupServer = [u \in Usernames |-> NoConn]
  /\ groupClients = [u \in Usernames |-> {}]
  /\ username = [c \in Conns |-> NoUser]
  /\ multiClient = [c \in Conns |-> FALSE]
  /\ clientID = [c \in Conns |-> FALSE]
  /\ ws = [c \in Conns |-> "closed"]

connFields == <<username, multiClient, clientID>>
groups == <<groupServer, groupClients>>

HasGroup(u) == u \in Usernames /\ groupServer[u] # NoConn

\* ws once the goroutines that call WS.Close on the connections in S are spawned.
CloseOf(S) == [c \in Conns |-> IF c \in S /\ ws[c] = "open" THEN "closing" ELSE ws[c]]

IsPaired(c) ==
  \/ multiClient[c] /\ HasGroup(username[c]) /\ groupClients[username[c]] # {}
  \/ clientID[c] /\ HasGroup(username[c]) /\ c \in groupClients[username[c]]
  \/ peers[c] # NoConn

--------------------------------------------------------------------------------
(* RegisterServer: enter the connection, evict the server it replaces.       *)

PublishServer(c, u) ==
  /\ SetWaiting(u, c)
  /\ conns' = (conns \cup {c}) \ {Evicted(u, c)}
  /\ ws' = CloseOf((conns \cup {c}) \cap {Evicted(u, c)})
  /\ UNCHANGED <<usernames, groups, connFields>>

--------------------------------------------------------------------------------
(* ConnectClient: the four ways its critical section can end.                *)

NobodyWaiting(u) == waiting[u] = NoConn

\* The waiting entry outlived its connection: drop it and report the server offline.
DropStaleServer(u) ==
  /\ waiting[u] \in Conns \ conns
  /\ RemoveWaiting(u, waiting[u])
  /\ UNCHANGED <<peers, usernames, conns, groups, connFields>>

\* The server stays in waiting; a group that exists keeps the serverConn it has.
JoinGroup(c, u) ==
  /\ waiting[u] \in conns
  /\ multiClient[waiting[u]]
  /\ clientID' = [clientID EXCEPT ![c] = TRUE]
  /\ username' = [username EXCEPT ![c] = u]
  /\ groupServer' = [groupServer EXCEPT ![u] = IF @ = NoConn THEN waiting[u] ELSE @]
  /\ groupClients' = [groupClients EXCEPT ![u] = @ \cup {c}]
  /\ conns' = conns \cup {c}
  /\ UNCHANGED <<storeVars, usernames, multiClient, ws>>

PairWithWaiting(c, u) ==
  /\ waiting[u] \in conns
  /\ ~ multiClient[waiting[u]]
  /\ conns' = conns \cup {c}
  /\ CreatePair(waiting[u], c, u)
  /\ UNCHANGED <<usernames, groups, connFields, ws>>

--------------------------------------------------------------------------------
(* Forward: the connections a frame from c is written to.  A frame of a      *)
(* multi-client server that carries a client's header goes to that client,   *)
(* if the group still has it (choice d), and any other frame to them all.    *)

\* A slip of ForwardFromClient: the frame is broadcast to the rest of the group.
ForwardFromClientToAll(c) ==
  IF HasGroup(username[c])
  THEN ({groupServer[username[c]]} \cup groupClients[username[c]]) \ {c}
  ELSE {}

ForwardFromClient(c) == IF HasGroup(username[c]) THEN {groupServer[username[c]]} ELSE {}

ForwardFromServer(c) ==
  IF HasGroup(username[c])
  THEN {groupClients[username[c]], {}} \cup {{d} : d \in groupClients[username[c]]}
  ELSE {{}}

\* A slip of ForwardToPeer: no check that the peer is still there.
ForwardToPeerUnchecked(c) == {peers[c]}

ForwardToPeer(c) == {peers[c]} \cap conns

Route(c) ==
  IF clientID[c] THEN {ForwardFromClient(c)}
  ELSE IF multiClient[c] /\ username[c] # NoUser THEN ForwardFromServer(c)
  ELSE {ForwardToPeer(c)}

--------------------------------------------------------------------------------
(* HandleClose: the first of these that applies, in the code's order.        *)

ClosesAsGroupClient(c) == clientID[c] /\ HasGroup(username[c])

\* A slip of LeaveGroup: the group is deleted although it has other clients.
LeaveGroupAll(c) ==
  LET u == username[c] IN
  /\ ClosesAsGroupClient(c)
  /\ groupClients' = [groupClients EXCEPT ![u] = {}]
  /\ groupServer' = [groupServer EXCEPT ![u] = NoConn]
  /\ conns' = conns \ {c}
  /\ UNCHANGED <<storeVars, usernames, connFields>>

LeaveGroup(c) ==
  LET u == username[c] IN
  /\ ClosesAsGroupClient(c)
  /\ groupClients' = [groupClients EXCEPT ![u] = @ \ {c}]
  /\ groupServer' = [groupServer EXCEPT ![u] = IF groupClients[u] \subseteq {c} THEN NoConn ELSE @]
  /\ conns' = conns \ {c}
  /\ UNCHANGED <<storeVars, usernames, connFields>>

\* A slip of ClosesAsGroupServer: any connection whose username has a group takes this way.
ClosesAsGroupServerAny(c) == ~ ClosesAsGroupClient(c) /\ HasGroup(username[c])

ClosesAsGroupServer(c) ==
  /\ ~ ClosesAsGroupClient(c)
  /\ multiClient[c]
  /\ HasGroup(username[c])

\* A slip of DisbandGroup: the server's waiting entry is left.
DisbandGroupStillWaiting(c) ==
  LET u == username[c] IN
  /\ ClosesAsGroupServer(c)
  /\ groupServer' = [groupServer EXCEPT ![u] = NoConn]
  /\ groupClients' = [groupClients EXCEPT ![u] = {}]
  /\ conns' = conns \ (groupClients[u] \cup {c})
  /\ UNCHANGED <<storeVars, usernames, connFields>>

DisbandGroup(c) ==
  LET u == username[c] IN
  /\ ClosesAsGroupServer(c)
  /\ groupServer' = [groupServer EXCEPT ![u] = NoConn]
  /\ groupClients' = [groupClients EXCEPT ![u] = {}]
  /\ RemoveWaiting(u, c)
  /\ conns' = conns \ (groupClients[u] \cup {c})
  /\ UNCHANGED <<peers, usernames, connFields>>

ClosesAsWaiting(c) ==
  /\ ~ ClosesAsGroupClient(c)
  /\ ~ ClosesAsGroupServer(c)
  /\ username[c] # NoUser
  /\ waiting[username[c]] = c

StopWaiting(c) ==
  /\ ClosesAsWaiting(c)
  /\ RemoveWaiting(username[c], c)
  /\ conns' = conns \ {c}
  /\ UNCHANGED <<peers, usernames, groups, connFields>>

BreakPair(c) ==
  /\ ~ ClosesAsGroupClient(c)
  /\ ~ ClosesAsGroupServer(c)
  /\ ~ ClosesAsWaiting(c)
  /\ RemovePair(c)
  /\ conns' = conns \ {c, peers[c]}
  /\ UNCHANGED <<waiting, usernames, groups, connFields>>

\* A slip of ClosedWith: the peer is not closed.
ClosedWithoutPeer(c) ==
  IF ~ ClosesAsGroupClient(c) /\ ClosesAsGroupServer(c) THEN groupClients[username[c]] ELSE {}

\* The connections whose WebSockets HandleClose(c) closes.
ClosedWith(c) ==
  IF ClosesAsGroupClient(c) THEN {}
  ELSE IF ClosesAsGroupServer(c) THEN groupClients[username[c]]
  ELSE IF ClosesAsWaiting(c) THEN {}
  ELSE {peers[c]} \cap (conns \ {c})

--------------------------------------------------------------------------------
\* Shutdown: forget every connection and group and close them; the Store is kept.
CloseAll ==
  /\ conns' = {}
  /\ groupServer' = [u \in Usernames |-> NoConn]
  /\ groupClients' = [u \in Usernames |-> {}]
  /\ ws' = CloseOf(conns)
  /\ UNCHANGED <<storeVars, usernames, connFields>>
================================================================================
