------------------------------- MODULE RedisRelay -------------------------------
(***************************************************************************)
(* Several relay processes that share one Redis store, with legacy servers *)
(* and clients.  Each process has its own Manager: its own mu, which it    *)
(* holds across its calls to Redis, and its own map of connections.  Time  *)
(* passes in Redis, calls to it fail, and a relay may crash: its           *)
(* connections are gone and their keys stay.                               *)
(*                                                                         *)
(* Handler and Manager are those of ServeWS, reduced to what touches the   *)
(* store: a connection sends one handshake message, and one that the       *)
(* registry turns away has no effect here and is left out.                 *)
(***************************************************************************)
EXTENDS RedisStore

CONSTANTS
  Relays,
  NoRelay,     \* a connection that no relay has accepted yet
  Servers,     \* the connections that register; the others are clients
  UserOf,      \* connection -> the username in its handshake message
  RelaysOf,    \* connection -> the relays that it may reach
  MaxCrashes,  \* bound on the crashes of relays
  MaxFaults    \* bound on the calls to Redis that fail

ASSUME RedisRelayAssumption ==
  /\ NoRelay \notin Relays
  /\ Servers \subseteq Conns
  /\ UserOf \in [Conns -> Usernames]
  /\ RelaysOf \in [Conns -> SUBSET Relays]
  /\ MaxCrashes \in Nat
  /\ MaxFaults \in Nat

VARIABLES
  home,     \* connection -> the relay process that accepted it
  conns,    \* the Manager.conns of all relays: c is an entry of home[c]'s
  ws,       \* state of Conn.WS
  pc,       \* where the handler of a connection is
  found,    \* what its last GET returned
  mu,       \* relay -> the connection whose handler holds Manager.mu
  excused,  \* history: the connections whose entries were lost to time, to a failed
            \* call or to another relay
  crashes,
  faults

local == <<conns, ws>>
counters == <<crashes, faults>>
rvars == <<storeVars, home, local, pc, found, mu, excused, counters>>

Label == {"idle", "publish", "find", "renew", "join", "read", "forward", "renewOwn",
          "renewPeer", "close", "unpair", "done"}

TypeOK ==
  /\ StoreTypeOK
  /\ \A u \in Usernames : waiting[u] = NoConn <=> waitingTTL[u] = 0
  /\ \A c \in Conns : peers[c] = NoConn <=> peersTTL[c] = 0
  /\ home \in [Conns -> Relays \cup {NoRelay}]
  /\ conns \subseteq Conns
  /\ ws \in [Conns -> {"open", "closing", "closed"}]
  /\ pc \in [Conns -> Label]
  /\ found \in [Conns -> Conns \cup {NoConn}]
  /\ mu \in [Relays -> Conns \cup {NoConn}]
  /\ excused \subseteq Conns
  /\ crashes \in 0 .. MaxCrashes
  /\ faults \in 0 .. MaxFaults

Init ==
  /\ NewRedisStore
  /\ home = [c \in Conns |-> NoRelay]
  /\ conns = {}
  /\ ws = [c \in Conns |-> "closed"]
  /\ pc = [c \in Conns |-> "idle"]
  /\ found = [c \in Conns |-> NoConn]
  /\ mu = [r \in Relays |-> NoConn]
  /\ excused = {}
  /\ crashes = 0
  /\ faults = 0

Goto(c, from, to) == pc[c] = from /\ pc' = [pc EXCEPT ![c] = to]

Acquire(c) == mu[home[c]] = NoConn /\ mu' = [mu EXCEPT ![home[c]] = c]
Release(c) == mu' = [mu EXCEPT ![home[c]] = NoConn]
\* A critical section with a single call to Redis, or with none.
Briefly(c) == mu[home[c]] = NoConn /\ UNCHANGED mu

\* The local variable of the method goes out of scope.
Forget(c) == found' = [found EXCEPT ![c] = NoConn]

\* A call to Redis and its outcome.
Call(o) ==
  /\ o \in Outcome
  /\ faults' = IF o = "ok" THEN faults ELSE faults + 1
  /\ faults' <= MaxFaults
  /\ UNCHANGED crashes

Unless(failed, A, keys) == IF failed THEN UNCHANGED keys ELSE A

Excuse(S) == excused' = excused \cup (S \cap Conns)

LocalTo(c) == {d \in conns : home[d] = home[c]}

CloseOf(S) == [c \in Conns |-> IF c \in S /\ ws[c] = "open" THEN "closing" ELSE ws[c]]

--------------------------------------------------------------------------------
(* Handshakes.                                                               *)

Accept(c, r) ==
  /\ r \in RelaysOf[c]
  /\ Goto(c, "idle", IF c \in Servers THEN "publish" ELSE "find")
  /\ home' = [home EXCEPT ![c] = r]
  /\ ws' = [ws EXCEPT ![c] = "open"]
  /\ UNCHANGED <<storeVars, conns, found, mu, excused, counters>>

\* RegisterServer: the error of SetWaiting is ignored, and only a server of the same
\* relay can be evicted.
Publish(c, o) ==
  LET u == UserOf[c]
      evicted == IF o = "ok" THEN {Evicted(u, c)} \cap Conns ELSE {}
      dropped == IF o = "failed" THEN {c} ELSE {waiting[u]}
  IN
  /\ Goto(c, "publish", "read")
  /\ Briefly(c)
  /\ Call(o)
  /\ Unless(o = "failed", SetWaiting(u, c), waitingKeys)
  /\ conns' = (conns \cup {c}) \ (evicted \cap LocalTo(c))
  /\ ws' = CloseOf(evicted \cap LocalTo(c))
  /\ Excuse(dropped \ (evicted \cap LocalTo(c)))
  /\ UNCHANGED <<home, peerKeys, found>>

\* ConnectClient, first half: GetWaiting with its GET and then its EXPIRE.
Find(c, o) ==
  LET server == IF o = "ok" THEN waiting[UserOf[c]] ELSE NoConn IN
  /\ Goto(c, "find", IF server = NoConn THEN "close" ELSE "renew")
  /\ Call(o)
  /\ found' = [found EXCEPT ![c] = server]
  /\ ws' = [ws EXCEPT ![c] = IF server = NoConn THEN "closed" ELSE @]
  /\ IF server = NoConn THEN Briefly(c) ELSE Acquire(c)
  /\ UNCHANGED <<home, storeVars, conns, excused>>

Renew(c, o) ==
  /\ Goto(c, "renew", "join")
  /\ Call(o)
  /\ Unless(o = "failed", RenewWaiting(UserOf[c]), waitingKeys)
  /\ UNCHANGED <<home, peerKeys, local, found, mu, excused>>

\* A slip of DropStaleServer: the client is turned away, and the key is left as it is.
DropStaleServerKept(c, o) ==
  /\ Goto(c, "join", "close")
  /\ found[c] \notin LocalTo(c)
  /\ Call(o)
  /\ Excuse({found[c]})
  /\ Release(c) /\ Forget(c)
  /\ ws' = [ws EXCEPT ![c] = "closed"]
  /\ UNCHANGED <<home, storeVars, conns>>

\* A server that is not in this relay's map is taken for gone, wherever it is.
DropStaleServer(c, o) ==
  /\ Goto(c, "join", "close")
  /\ found[c] \notin LocalTo(c)
  /\ Call(o)
  /\ Unless(o = "failed", RemoveWaiting(UserOf[c], found[c]), waitingKeys)
  /\ Excuse({found[c]})
  /\ Release(c) /\ Forget(c)
  /\ ws' = [ws EXCEPT ![c] = "closed"]
  /\ UNCHANGED <<home, peerKeys, conns>>

\* A slip of PairWithWaiting: the server found is not looked up in this relay's map.
PairWithWaitingAnywhere(c, o) ==
  /\ Goto(c, "join", "read")
  /\ Call(o)
  /\ Unless(o = "failed", DeleteWaiting(UserOf[c]) /\ SetPeers(found[c], c), storeVars)
  /\ conns' = conns \cup {c}
  /\ Excuse({waiting[UserOf[c]]} \ {found[c]})
  /\ Release(c) /\ Forget(c)
  /\ UNCHANGED <<home, ws>>

\* CreatePair deletes the key of the username whoever it names by now; its error is
\* ignored and the client told that it is connected.
PairWithWaiting(c, o) ==
  LET lost == IF o = "failed" THEN {c} ELSE {waiting[UserOf[c]]} \ {found[c]} IN
  /\ Goto(c, "join", "read")
  /\ found[c] \in LocalTo(c)
  /\ Call(o)
  /\ Unless(o = "failed", DeleteWaiting(UserOf[c]) /\ SetPeers(found[c], c), storeVars)
  /\ conns' = conns \cup {c}
  /\ Excuse(lost)
  /\ Release(c) /\ Forget(c)
  /\ UNCHANGED <<home, ws>>

--------------------------------------------------------------------------------
(* Frames: IsPaired with its EXISTS, then Forward's GetPeer with its GET and *)
(* its two EXPIREs.  What is sent where is in ServeWS.                       *)

\* A frame that arrives when EXISTS says no is not forwarded, and changes nothing.
ReadFrame(c) ==
  /\ ws[c] # "closed"
  /\ peers[c] # NoConn
  /\ Goto(c, "read", "forward")
  /\ Briefly(c)
  /\ UNCHANGED <<home, storeVars, local, found, excused, counters>>

Forward(c, o) ==
  LET peer == IF o = "ok" THEN peers[c] ELSE NoConn IN
  /\ Goto(c, "forward", IF peer = NoConn THEN "read" ELSE "renewOwn")
  /\ Call(o)
  /\ found' = [found EXCEPT ![c] = peer]
  /\ IF peer = NoConn THEN Briefly(c) ELSE Acquire(c)
  /\ UNCHANGED <<home, storeVars, local, excused>>

RenewOwn(c, o) ==
  /\ Goto(c, "renewOwn", "renewPeer")
  /\ Call(o)
  /\ Unless(o = "failed", RenewPeer(c), peerKeys)
  /\ UNCHANGED <<home, waitingKeys, local, found, mu, excused>>

RenewOther(c, o) ==
  /\ Goto(c, "renewPeer", "read")
  /\ Call(o)
  /\ Unless(o = "failed", RenewPeer(found[c]), peerKeys)
  /\ Release(c) /\ Forget(c)
  /\ UNCHANGED <<home, waitingKeys, local, excused>>

--------------------------------------------------------------------------------
(* The end of a connection.                                                  *)

ReadError(c) ==
  /\ ws[c] = "closed"
  /\ Goto(c, "read", "close")
  /\ UNCHANGED <<home, storeVars, local, found, mu, excused, counters>>

\* HandleClose: RemoveWaiting, which answers no when it fails.  (A client never waits,
\* so it does not matter that one without a Username does not ask.)
StopWaiting(c, o) ==
  LET u == UserOf[c]
      waited == o = "ok" /\ waiting[u] = c
  IN
  /\ Goto(c, "close", IF waited THEN "done" ELSE "unpair")
  /\ Call(o)
  /\ Unless(o = "failed", RemoveWaiting(u, c), waitingKeys)
  /\ conns' = IF waited THEN conns \ {c} ELSE conns
  /\ IF waited THEN Briefly(c) ELSE Acquire(c)
  /\ UNCHANGED <<home, peerKeys, ws, found, excused>>

\* ... and RemovePair: only if it answers is the peer known, and closed.
BreakPair(c, o) ==
  LET peer == IF o = "ok" THEN {peers[c]} \cap LocalTo(c) ELSE {} IN
  /\ Goto(c, "unpair", "done")
  /\ Call(o)
  /\ Unless(o = "failed", RemovePair(c), peerKeys)
  /\ conns' = conns \ (peer \cup {c})
  /\ ws' = [CloseOf(peer) EXCEPT ![c] = "closed"]
  /\ Excuse({peers[c]} \ peer)
  /\ Release(c)
  /\ UNCHANGED <<home, waitingKeys, found>>

--------------------------------------------------------------------------------
(* The environment.                                                          *)

\* Clients keep coming: the next one takes the place of one whose handler has ended and
\* whom no map, key or handler names any more.
NextClient(c) ==
  /\ Goto(c, "done", "idle")
  /\ c \notin Servers
  /\ c \notin conns
  /\ peers[c] = NoConn
  /\ \A d \in Conns : c \notin {peers[d], found[d]}
  /\ home' = [home EXCEPT ![c] = NoRelay]
  /\ found' = [found EXCEPT ![c] = NoConn]
  /\ excused' = excused \ {c}
  /\ UNCHANGED <<storeVars, local, mu, counters>>

\* The remote end goes away, or the relay's own WS.Close ends.
Disconnect(c) ==
  /\ ws[c] # "closed"
  /\ ws' = [ws EXCEPT ![c] = "closed"]
  /\ UNCHANGED <<home, storeVars, conns, pc, found, mu, excused, counters>>

\* The process dies and is started again: none of its handlers runs HandleClose.
Crash(r) ==
  LET dead == {c \in Conns : home[c] = r /\ pc[c] # "idle"} IN
  /\ crashes < MaxCrashes
  /\ dead # {}
  /\ crashes' = crashes + 1
  /\ pc' = [c \in Conns |-> IF c \in dead THEN "done" ELSE pc[c]]
  /\ ws' = [c \in Conns |-> IF c \in dead THEN "closed" ELSE ws[c]]
  /\ conns' = conns \ dead
  /\ found' = [c \in Conns |-> IF c \in dead THEN NoConn ELSE found[c]]
  /\ mu' = [mu EXCEPT ![r] = NoConn]
  /\ UNCHANGED <<home, storeVars, excused, faults>>

\* Whoever loses a key, and whoever is paired with it.  Time matters only to keys.
Tick ==
  /\ \/ \E u \in Usernames : waiting[u] # NoConn
     \/ \E c \in Conns : peers[c] # NoConn
  /\ Expire
  /\ Excuse(Expiring \cup {peers[c] : c \in Expiring})
  /\ UNCHANGED <<home, local, pc, found, mu, counters>>

--------------------------------------------------------------------------------
Step(c) ==
  \/ ReadError(c)
  \/ \E o \in Outcome :
       \/ Publish(c, o) \/ Find(c, o) \/ Renew(c, o)
       \/ DropStaleServer(c, o) \/ PairWithWaiting(c, o)
       \/ Forward(c, o) \/ RenewOwn(c, o) \/ RenewOther(c, o)
       \/ StopWaiting(c, o) \/ BreakPair(c, o)

Next ==
  \/ Tick
  \/ \E r \in Relays : Crash(r) \/ \E c \in Conns : Accept(c, r)
  \/ \E c \in Conns : Step(c) \/ ReadFrame(c) \/ Disconnect(c) \/ NextClient(c)

(***************************************************************************)
(* The clock of Redis goes on; nothing else is needed.                     *)
(***************************************************************************)
Spec == Init /\ [][Next]_rvars /\ WF_rvars(Tick)

--------------------------------------------------------------------------------
(* Properties.                                                               *)

\* Every key that is there is listed in the set that Stats counts, whatever expired,
\* failed or crashed: the counts can be too high but never too low.
IndexCovers ==
  /\ \A u \in Usernames : waiting[u] # NoConn => u \in waitingSet
  /\ \A c \in Conns : peers[c] # NoConn => c \in pairedSet

\* Although the keys are shared, a pair never spans two relays (neither could forward
\* to the other), and joins a server and a client of one username.
PairsLocal ==
  \A c \in Conns : peers[c] # NoConn =>
    /\ home[peers[c]] = home[c]
    /\ UserOf[peers[c]] = UserOf[c]
    /\ (peers[c] \in Servers) # (c \in Servers)

OnOffer(c) == waiting[UserOf[c]] = c
Paired(c) == peers[c] \in conns /\ peers[peers[c]] = c

\* A connection that completed its handshake is on offer or paired for as long as it
\* stays open, unless its key or its peer's ran out of time, a call to Redis failed, or
\* another relay took its username: within one relay sharing the store costs nothing.
LostOnlyWithExcuse ==
  \A c \in Conns :
    pc[c] = "read" /\ ws[c] = "open" /\ c \notin excused =>
      c \in conns /\ (OnOffer(c) \/ Paired(c))

\* What a crashed relay leaves in the store disappears, even though clients keep asking
\* for the username and each of them renews the key before it finds the server gone.
StaleOffer(u) == waiting[u] \in Conns /\ pc[waiting[u]] = "done"
StaleOffersEnd == \A u \in Usernames : StaleOffer(u) ~> ~ StaleOffer(u)
================================================================================
