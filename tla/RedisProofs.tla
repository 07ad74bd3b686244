------------------------------ MODULE RedisProofs ------------------------------
(***************************************************************************)
(* Proofs of the safety properties of RedisRelay, for any relays,          *)
(* connections and usernames, and any number of failures and crashes.      *)
(***************************************************************************)
EXTENDS RedisRelay, TLAPS

--------------------------------------------------------------------------------
(* The keys.                                                                 *)

\* A key is there as long as it has time to live.
KeysLive ==
  /\ \A u \in Usernames : waiting[u] = NoConn <=> waitingTTL[u] = 0
  /\ \A c \in Conns : peers[c] = NoConn <=> peersTTL[c] = 0

StoreInv == StoreTypeOK /\ KeysLive /\ IndexCovers

\* The ways in which the relays and time change the store.
StoreOp ==
  \/ UNCHANGED storeVars
  \/ UNCHANGED peerKeys /\ \E u \in Usernames : \/ \E c \in Conns : SetWaiting(u, c)
                                                \/ RenewWaiting(u) \/ DeleteWaiting(u)
  \/ UNCHANGED waitingKeys /\ \E c \in Conns : RenewPeer(c) \/ RemovePair(c)
  \/ \E u \in Usernames, s \in Conns, c \in Conns : DeleteWaiting(u) /\ SetPeers(s, c)
  \/ Expire

LEMMA StoreStep ==
  ASSUME StoreInv, StoreOp
  PROVE  StoreInv'
<1>. USE TTLAssumption, RelayTypesAssumption
     DEF StoreInv, StoreTypeOK, KeysLive, IndexCovers, waitingKeys, peerKeys
<1>1. CASE UNCHANGED storeVars
  BY <1>1 DEF storeVars
<1>2. ASSUME UNCHANGED peerKeys, NEW u \in Usernames, NEW c \in Conns, SetWaiting(u, c)
      PROVE  StoreInv'
  BY <1>2 DEF SetWaiting
<1>3. ASSUME UNCHANGED peerKeys, NEW u \in Usernames, RenewWaiting(u)
      PROVE  StoreInv'
  BY <1>3 DEF RenewWaiting
<1>4. ASSUME UNCHANGED peerKeys, NEW u \in Usernames, DeleteWaiting(u)
      PROVE  StoreInv'
  BY <1>4 DEF DeleteWaiting
<1>5. ASSUME UNCHANGED waitingKeys, NEW c \in Conns, RenewPeer(c)
      PROVE  StoreInv'
  BY <1>5 DEF RenewPeer
<1>6. ASSUME UNCHANGED waitingKeys, NEW c \in Conns, RemovePair(c)
      PROVE  StoreInv'
  BY <1>6 DEF RemovePair
<1>7. ASSUME NEW u \in Usernames, NEW s \in Conns, NEW c \in Conns,
             DeleteWaiting(u), SetPeers(s, c)
      PROVE  StoreInv'
  BY <1>7 DEF DeleteWaiting, SetPeers
<1>8. CASE Expire
  BY <1>8 DEF Expire
<1>. QED  BY <1>1, <1>2, <1>3, <1>4, <1>5, <1>6, <1>7, <1>8 DEF StoreOp

--------------------------------------------------------------------------------
(* Types.                                                                    *)

Locking == {"renew", "join", "renewOwn", "renewPeer", "unpair"}

\* A handler that has begun runs in a relay, holds its mutex between the calls of one
\* critical section, and knows then what the first of them found.
Placed ==
  \A c \in Conns :
    /\ pc[c] # "idle" => home[c] \in Relays
    /\ pc[c] \in Locking => mu[home[c]] = c
    /\ pc[c] \in Locking \ {"unpair"} => found[c] \in Conns

\* The variables of the relays; those of the store are in StoreInv.
RelayTypeOK ==
  /\ home \in [Conns -> Relays \cup {NoRelay}]
  /\ conns \subseteq Conns
  /\ ws \in [Conns -> {"open", "closing", "closed"}]
  /\ pc \in [Conns -> Label]
  /\ found \in [Conns -> Conns \cup {NoConn}]
  /\ mu \in [Relays -> Conns \cup {NoConn}]
  /\ excused \subseteq Conns
  /\ crashes \in 0 .. MaxCrashes
  /\ faults \in 0 .. MaxFaults

TypeInv == StoreInv /\ RelayTypeOK /\ Placed

LEMMA TypeInit == Init => TypeInv
BY RelayTypesAssumption, TTLAssumption, RedisRelayAssumption
   DEF Init, NewRedisStore, TypeInv, StoreInv, StoreTypeOK, KeysLive, IndexCovers,
       RelayTypeOK, Placed, Label, Locking

\* A failing call counts, within the bound.
LEMMA CallType ==
  ASSUME RelayTypeOK, NEW o, Call(o)
  PROVE  faults' \in 0 .. MaxFaults /\ crashes' \in 0 .. MaxCrashes
BY RedisRelayAssumption DEF RelayTypeOK, Call

LEMMA StepStore ==
  ASSUME TypeInv, [Next]_rvars
  PROVE  StoreOp
<1>. USE RelayTypesAssumption, RedisRelayAssumption
<1>1. CASE UNCHANGED rvars
  BY <1>1 DEF rvars, StoreOp
<1>2. CASE Tick
  BY <1>2 DEF Tick, StoreOp
<1>3. ASSUME NEW r \in Relays, Crash(r) \/ \E c \in Conns : Accept(c, r)
      PROVE  StoreOp
  BY <1>3 DEF Crash, Accept, StoreOp
<1>4. ASSUME NEW c \in Conns,
             ReadError(c) \/ ReadFrame(c) \/ Disconnect(c) \/ NextClient(c)
      PROVE  StoreOp
  BY <1>4 DEF ReadError, ReadFrame, Disconnect, NextClient, StoreOp
<1>5. ASSUME NEW c \in Conns, NEW o \in Outcome, Find(c, o) \/ Forward(c, o)
      PROVE  StoreOp
  BY <1>5 DEF Find, Forward, StoreOp
<1>6. ASSUME NEW c \in Conns, NEW o \in Outcome,
             Publish(c, o) \/ Renew(c, o) \/ DropStaleServer(c, o) \/ StopWaiting(c, o)
      PROVE  StoreOp
  <2>1. UNCHANGED peerKeys /\ UserOf[c] \in Usernames
    BY <1>6 DEF Publish, Renew, DropStaleServer, StopWaiting
  <2>2. \/ UNCHANGED waitingKeys
        \/ SetWaiting(UserOf[c], c) \/ RenewWaiting(UserOf[c]) \/ DeleteWaiting(UserOf[c])
    BY <1>6 DEF Publish, Renew, DropStaleServer, StopWaiting, Unless, RemoveWaiting
  <2>. QED  BY <2>1, <2>2 DEF StoreOp, storeVars
<1>7. ASSUME NEW c \in Conns, NEW o \in Outcome, PairWithWaiting(c, o)
      PROVE  StoreOp
  <2>1. UserOf[c] \in Usernames /\ found[c] \in Conns
    BY <1>7 DEF PairWithWaiting, LocalTo, TypeInv, RelayTypeOK
  <2>2. UNCHANGED storeVars \/ (DeleteWaiting(UserOf[c]) /\ SetPeers(found[c], c))
    BY <1>7 DEF PairWithWaiting, Unless
  <2>. QED  BY <2>1, <2>2 DEF StoreOp
<1>8. ASSUME NEW c \in Conns, NEW o \in Outcome,
             RenewOwn(c, o) \/ RenewOther(c, o) \/ BreakPair(c, o)
      PROVE  StoreOp
  <2>1. UNCHANGED waitingKeys
    BY <1>8 DEF RenewOwn, RenewOther, BreakPair
  <2>2. \/ UNCHANGED peerKeys \/ RenewPeer(c) \/ RemovePair(c)
        \/ RenewPeer(found[c]) /\ found[c] \in Conns
    BY <1>8 DEF RenewOwn, RenewOther, BreakPair, Unless, Goto, TypeInv, Placed, Locking
  <2>. QED  BY <2>1, <2>2 DEF StoreOp, storeVars
<1>. QED  BY <1>1, <1>2, <1>3, <1>4, <1>5, <1>6, <1>7, <1>8 DEF Next, Step

\* What a step of a handler does to the mutex: a critical section that spans several
\* calls begins, goes on or ends; or nothing.
MutexStep(c, to) ==
  \/ UNCHANGED mu /\ (to \in Locking <=> pc[c] \in Locking)
  \/ Acquire(c) /\ to \in Locking
  \/ Release(c) /\ pc[c] \in Locking /\ to \notin Locking

\* A step of the handler of c, from one label to another.
Moves(c, to, f) ==
  /\ pc[c] # "idle" /\ to \in Label \ {"idle"}
  /\ pc' = [pc EXCEPT ![c] = to]
  /\ found' = [found EXCEPT ![c] = f]
  /\ f \in Conns \cup {NoConn}
  /\ to \in Locking \ {"unpair"} => f \in Conns
  /\ MutexStep(c, to)
  /\ home' = home

LEMMA MovesPlaced ==
  ASSUME TypeInv, NEW c \in Conns, NEW to, NEW f, Moves(c, to, f)
  PROVE  /\ pc' \in [Conns -> Label]
         /\ found' \in [Conns -> Conns \cup {NoConn}]
         /\ mu' \in [Relays -> Conns \cup {NoConn}]
         /\ Placed'
<1>. USE RelayTypesAssumption
<1>1. home[c] \in Relays
  BY DEF Moves, TypeInv, Placed
<1>2. /\ pc' \in [Conns -> Label] /\ found' \in [Conns -> Conns \cup {NoConn}]
      /\ mu' \in [Relays -> Conns \cup {NoConn}]
  BY <1>1 DEF Moves, MutexStep, Acquire, Release, TypeInv, RelayTypeOK
<1>3. /\ pc'[c] = to /\ found'[c] = f /\ home'[c] = home[c]
      /\ \A d \in Conns \ {c} : pc'[d] = pc[d] /\ found'[d] = found[d] /\ home'[d] = home[d]
  BY DEF Moves, TypeInv, RelayTypeOK
<1>4. to \in Locking => mu'[home[c]] = c
  BY <1>1 DEF Moves, MutexStep, Acquire, Release, TypeInv, RelayTypeOK, Placed
<1>5. ASSUME NEW d \in Conns \ {c}, pc[d] \in Locking
      PROVE  mu'[home[d]] = d
  <2>1. mu[home[d]] = d /\ home[d] \in Relays
    BY <1>5 DEF TypeInv, Placed, Locking
  <2>2. CASE home[d] = home[c]
    <3>1. mu[home[c]] # NoConn /\ mu[home[c]] # c
      BY <2>1, <2>2
    <3>2. UNCHANGED mu
      BY <3>1 DEF Moves, MutexStep, Acquire, TypeInv, Placed
    <3>. QED  BY <2>1, <3>2
  <2>3. CASE home[d] # home[c]
    BY <2>1, <2>3 DEF Moves, MutexStep, Acquire, Release, TypeInv, RelayTypeOK
  <2>. QED  BY <2>2, <2>3
<1>6. Placed'
  <2> SUFFICES ASSUME NEW d \in Conns
               PROVE  /\ pc'[d] # "idle" => home'[d] \in Relays
                      /\ pc'[d] \in Locking => mu'[home'[d]] = d
                      /\ pc'[d] \in Locking \ {"unpair"} => found'[d] \in Conns
    BY DEF Placed
  <2>1. CASE d = c
    BY <1>1, <1>3, <1>4, <2>1 DEF Moves
  <2>2. CASE d # c
    BY <1>3, <1>5, <2>2 DEF TypeInv, Placed
  <2>. QED  BY <2>1, <2>2
<1>. QED  BY <1>2, <1>6

\* Which handler steps there are: the labels between which they go.
LEMMA HandlerMoves ==
  ASSUME TypeInv, NEW c \in Conns, Step(c) \/ ReadFrame(c)
  PROVE  \E to \in Label, f \in Conns \cup {NoConn} : Moves(c, to, f)
<1>. USE RelayTypesAssumption
     DEF Goto, Moves, MutexStep, Locking, Label, Briefly, Forget
<1>1. found \in [Conns -> Conns \cup {NoConn}] /\ found = [found EXCEPT ![c] = found[c]]
      /\ found[c] \in Conns \cup {NoConn}
  BY DEF TypeInv, RelayTypeOK
<1>2. pc[c] \in Locking \ {"unpair"} => found[c] \in Conns
  BY DEF TypeInv, Placed
<1>3. CASE ReadError(c)
  <2>1. Moves(c, "close", found[c])
    BY <1>1, <1>3 DEF ReadError
  <2>. QED  BY <1>1, <2>1
<1>4. CASE ReadFrame(c)
  <2>1. Moves(c, "forward", found[c])
    BY <1>1, <1>4 DEF ReadFrame
  <2>. QED  BY <1>1, <2>1
<1>5. ASSUME NEW o \in Outcome, Publish(c, o)
      PROVE  Moves(c, "read", found[c])
  BY <1>1, <1>5 DEF Publish
<1>6. ASSUME NEW o \in Outcome, Find(c, o)
      PROVE  \E to \in Label, f \in Conns \cup {NoConn} : Moves(c, to, f)
  <2>. DEFINE server == IF o = "ok" THEN waiting[UserOf[c]] ELSE NoConn
  <2>1. server \in Conns \cup {NoConn}
    BY RedisRelayAssumption DEF TypeInv, StoreInv, StoreTypeOK
  <2>2. /\ found' = [found EXCEPT ![c] = server] /\ home' = home
        /\ Goto(c, "find", IF server = NoConn THEN "close" ELSE "renew")
        /\ IF server = NoConn THEN Briefly(c) ELSE Acquire(c)
    BY <1>6 DEF Find
  <2>. HIDE DEF server
  <2>3. CASE server = NoConn
    <3>1. Moves(c, "close", server)
      BY <2>1, <2>2, <2>3
    <3>. QED  BY <2>1, <3>1
  <2>4. CASE server # NoConn
    <3>1. Moves(c, "renew", server)
      BY <2>1, <2>2, <2>4
    <3>. QED  BY <2>1, <3>1
  <2>. QED  BY <2>3, <2>4
<1>7. ASSUME NEW o \in Outcome, Renew(c, o)
      PROVE  Moves(c, "join", found[c])
  BY <1>1, <1>2, <1>7 DEF Renew
<1>8. ASSUME NEW o \in Outcome, DropStaleServer(c, o)
      PROVE  Moves(c, "close", NoConn)
  BY <1>8 DEF DropStaleServer
<1>9. ASSUME NEW o \in Outcome, PairWithWaiting(c, o)
      PROVE  Moves(c, "read", NoConn)
  BY <1>9 DEF PairWithWaiting
<1>10. ASSUME NEW o \in Outcome, Forward(c, o)
       PROVE  \E to \in Label, f \in Conns \cup {NoConn} : Moves(c, to, f)
  <2>. DEFINE peer == IF o = "ok" THEN peers[c] ELSE NoConn
  <2>1. peer \in Conns \cup {NoConn}
    BY DEF TypeInv, StoreInv, StoreTypeOK
  <2>2. /\ found' = [found EXCEPT ![c] = peer] /\ home' = home
        /\ Goto(c, "forward", IF peer = NoConn THEN "read" ELSE "renewOwn")
        /\ IF peer = NoConn THEN Briefly(c) ELSE Acquire(c)
    BY <1>10 DEF Forward
  <2>. HIDE DEF peer
  <2>3. CASE peer = NoConn
    <3>1. Moves(c, "read", peer)
      BY <2>1, <2>2, <2>3
    <3>. QED  BY <2>1, <3>1
  <2>4. CASE peer # NoConn
    <3>1. Moves(c, "renewOwn", peer)
      BY <2>1, <2>2, <2>4
    <3>. QED  BY <2>1, <3>1
  <2>. QED  BY <2>3, <2>4
<1>11. ASSUME NEW o \in Outcome, RenewOwn(c, o)
       PROVE  Moves(c, "renewPeer", found[c])
  BY <1>1, <1>2, <1>11 DEF RenewOwn
<1>12. ASSUME NEW o \in Outcome, RenewOther(c, o)
       PROVE  Moves(c, "read", NoConn)
  BY <1>12 DEF RenewOther
<1>13. ASSUME NEW o \in Outcome, StopWaiting(c, o)
       PROVE  \E to \in Label, f \in Conns \cup {NoConn} : Moves(c, to, f)
  <2>. DEFINE waited == o = "ok" /\ waiting[UserOf[c]] = c
  <2>1. /\ found' = found /\ home' = home
        /\ Goto(c, "close", IF waited THEN "done" ELSE "unpair")
        /\ IF waited THEN Briefly(c) ELSE Acquire(c)
    BY <1>13 DEF StopWaiting
  <2>. HIDE DEF waited
  <2>2. CASE waited
    <3>1. Moves(c, "done", found[c])
      BY <1>1, <2>1, <2>2
    <3>. QED  BY <1>1, <3>1
  <2>3. CASE ~ waited
    <3>1. Moves(c, "unpair", found[c])
      BY <1>1, <2>1, <2>3
    <3>. QED  BY <1>1, <3>1
  <2>. QED  BY <2>2, <2>3
<1>14. ASSUME NEW o \in Outcome, BreakPair(c, o)
       PROVE  Moves(c, "done", found[c])
  BY <1>1, <1>14 DEF BreakPair
<1>. HIDE DEF Goto, Moves, MutexStep, Locking, Briefly, Forget
<1>. QED
  BY <1>1, <1>3, <1>4, <1>5, <1>6, <1>7, <1>8, <1>9, <1>10, <1>11, <1>12, <1>13, <1>14
     DEF Step

\* What a handler step does to the rest of the variables.
LEMMA HandlerTypes ==
  ASSUME TypeInv, NEW c \in Conns, Step(c) \/ ReadFrame(c)
  PROVE  /\ conns' \subseteq Conns
         /\ ws' \in [Conns -> {"open", "closing", "closed"}]
         /\ excused' \subseteq Conns
         /\ crashes' \in 0 .. MaxCrashes
         /\ faults' \in 0 .. MaxFaults
<1>1. RelayTypeOK
  BY DEF TypeInv
<1>2. CASE ReadError(c) \/ ReadFrame(c)
  BY <1>1, <1>2 DEF ReadError, ReadFrame, local, counters, RelayTypeOK
<1>3. ASSUME NEW o \in Outcome,
             \/ Publish(c, o) \/ Find(c, o) \/ Renew(c, o) \/ DropStaleServer(c, o)
             \/ PairWithWaiting(c, o) \/ Forward(c, o) \/ RenewOwn(c, o)
             \/ RenewOther(c, o) \/ StopWaiting(c, o) \/ BreakPair(c, o)
      PROVE  /\ conns' \subseteq Conns
             /\ ws' \in [Conns -> {"open", "closing", "closed"}]
             /\ excused' \subseteq Conns
             /\ crashes' \in 0 .. MaxCrashes
             /\ faults' \in 0 .. MaxFaults
  <2>1. Call(o)
    BY <1>3 DEF Publish, Find, Renew, DropStaleServer, PairWithWaiting, Forward, RenewOwn,
                RenewOther, StopWaiting, BreakPair
  <2>2. \A S : CloseOf(S) \in [Conns -> {"open", "closing", "closed"}]
    BY <1>1 DEF CloseOf, RelayTypeOK
  <2>3. ws' \in [Conns -> {"open", "closing", "closed"}]
    BY <1>1, <1>3, <2>2
       DEF Publish, Find, Renew, DropStaleServer, PairWithWaiting, Forward, RenewOwn,
           RenewOther, StopWaiting, BreakPair, local, RelayTypeOK
  <2>4. conns' \subseteq Conns /\ excused' \subseteq Conns
    BY <1>1, <1>3
       DEF Publish, Find, Renew, DropStaleServer, PairWithWaiting, Forward, RenewOwn,
           RenewOther, StopWaiting, BreakPair, local, Excuse, RelayTypeOK
  <2>. QED  BY <1>1, <2>1, <2>3, <2>4, CallType
<1>. QED  BY <1>2, <1>3 DEF Step

LEMMA TypeStep == TypeInv /\ [Next]_rvars => TypeInv'
<1> SUFFICES ASSUME TypeInv, [Next]_rvars
             PROVE  RelayTypeOK' /\ Placed'
  BY StepStore, StoreStep DEF TypeInv
<1>. USE RelayTypesAssumption, RedisRelayAssumption
<1>1. ASSUME NEW c \in Conns, Step(c) \/ ReadFrame(c)
      PROVE  RelayTypeOK' /\ Placed'
  <2>1. PICK to \in Label, f \in Conns \cup {NoConn} : Moves(c, to, f)
    BY <1>1, HandlerMoves
  <2>2. home' \in [Conns -> Relays \cup {NoRelay}]
    BY <2>1 DEF Moves, TypeInv, RelayTypeOK
  <2>. QED  BY <1>1, <2>1, <2>2, MovesPlaced, HandlerTypes DEF RelayTypeOK
<1>2. ASSUME NEW c \in Conns, NEW r \in Relays, Accept(c, r)
      PROVE  RelayTypeOK' /\ Placed'
  <2>1. /\ home' = [home EXCEPT ![c] = r] /\ ws' = [ws EXCEPT ![c] = "open"]
        /\ pc[c] = "idle"
        /\ pc' = [pc EXCEPT ![c] = IF c \in Servers THEN "publish" ELSE "find"]
        /\ UNCHANGED <<conns, found, mu, excused, crashes, faults>>
    BY <1>2 DEF Accept, Goto, counters
  <2>2. RelayTypeOK'
    BY <2>1 DEF TypeInv, RelayTypeOK, Label
  <2>3. Placed'
    BY <2>1 DEF TypeInv, RelayTypeOK, Placed, Locking
  <2>. QED  BY <2>2, <2>3
<1>3. ASSUME NEW r \in Relays, Crash(r)
      PROVE  RelayTypeOK' /\ Placed'
  <2>. DEFINE dead == {c \in Conns : home[c] = r /\ pc[c] # "idle"}
  <2>1. /\ crashes < MaxCrashes /\ crashes' = crashes + 1
        /\ pc' = [c \in Conns |-> IF c \in dead THEN "done" ELSE pc[c]]
        /\ ws' = [c \in Conns |-> IF c \in dead THEN "closed" ELSE ws[c]]
        /\ conns' = conns \ dead
        /\ found' = [c \in Conns |-> IF c \in dead THEN NoConn ELSE found[c]]
        /\ mu' = [mu EXCEPT ![r] = NoConn]
        /\ UNCHANGED <<home, excused, faults>>
    BY <1>3 DEF Crash
  <2>2. RelayTypeOK'
    <3>1. crashes' \in 0 .. MaxCrashes
      BY <2>1 DEF TypeInv, RelayTypeOK
    <3>2. pc' \in [Conns -> Label] /\ ws' \in [Conns -> {"open", "closing", "closed"}]
      BY <2>1 DEF TypeInv, RelayTypeOK, Label
    <3>. QED  BY <2>1, <3>1, <3>2 DEF TypeInv, RelayTypeOK
  <2>3. Placed'
    <3> SUFFICES ASSUME NEW c \in Conns
                 PROVE  /\ pc'[c] # "idle" => home[c] \in Relays
                        /\ pc'[c] \in Locking => mu'[home[c]] = c
                        /\ pc'[c] \in Locking \ {"unpair"} => found'[c] \in Conns
      BY <2>1 DEF Placed
    <3>1. CASE c \in dead
      BY <2>1, <3>1 DEF TypeInv, Placed, Locking
    <3>2. CASE c \notin dead
      <4>1. pc'[c] = pc[c] /\ found'[c] = found[c]
        BY <2>1, <3>2
      <4>2. pc[c] # "idle" => home[c] # r
        BY <3>2
      <4>. QED  BY <2>1, <4>1, <4>2 DEF TypeInv, RelayTypeOK, Placed, Locking
    <3>. QED  BY <3>1, <3>2
  <2>. QED  BY <2>2, <2>3
<1>4. CASE Tick
  BY <1>4 DEF Tick, Excuse, local, counters, TypeInv, RelayTypeOK, Placed
<1>5. ASSUME NEW c \in Conns, Disconnect(c)
      PROVE  RelayTypeOK' /\ Placed'
  BY <1>5 DEF Disconnect, counters, TypeInv, RelayTypeOK, Placed
<1>6. CASE UNCHANGED rvars
  BY <1>6 DEF rvars, local, counters, TypeInv, RelayTypeOK, Placed
<1>7. ASSUME NEW c \in Conns, NextClient(c)
      PROVE  RelayTypeOK' /\ Placed'
  <2>1. /\ home' = [home EXCEPT ![c] = NoRelay] /\ found' = [found EXCEPT ![c] = NoConn]
        /\ pc' = [pc EXCEPT ![c] = "idle"] /\ excused' = excused \ {c}
        /\ UNCHANGED <<conns, ws, mu, crashes, faults>>
    BY <1>7 DEF NextClient, Goto, local, counters
  <2>2. RelayTypeOK'
    BY <2>1 DEF TypeInv, RelayTypeOK, Label
  <2>3. Placed'
    BY <2>1 DEF TypeInv, RelayTypeOK, Placed, Locking
  <2>. QED  BY <2>2, <2>3
<1>. QED  BY <1>1, <1>2, <1>3, <1>4, <1>5, <1>6, <1>7 DEF Next

LEMMA TypeInvariant == Spec => []TypeInv
BY TypeInit, TypeStep, PTL DEF Spec

\* Every variable keeps its type, and a key of the store is there as long as it has time
\* to live: none stays for ever.
THEOREM TypeCorrect == Spec => []TypeOK
<1>1. TypeInv => TypeOK
  BY DEF TypeInv, StoreInv, KeysLive, RelayTypeOK, TypeOK
<1>. QED  BY <1>1, TypeInvariant, PTL

\* Whatever expires, fails or crashes, and whichever relays work on the store, each key
\* is listed in the set that Stats counts.
THEOREM IndexComplete == Spec => []IndexCovers
<1>1. TypeInv => IndexCovers
  BY DEF TypeInv, StoreInv
<1>. QED  BY <1>1, TypeInvariant, PTL

--------------------------------------------------------------------------------
(* Who is paired with whom.                                                  *)

Starting == {"idle", "publish", "find", "renew", "join"}

\* No key names c as a peer, or has it for its connection.
Unclaimed(c) == peers[c] = NoConn /\ \A d \in Conns : peers[d] # c

UnclaimedNext(c) == peers'[c] = NoConn /\ \A d \in Conns : peers'[d] # c

\* Only clients look for a server and only servers publish; until its handshake is done a
\* connection is nobody's peer.
Early ==
  \A c \in Conns :
    /\ c \in Servers => pc[c] \notin {"find", "renew", "join"}
    /\ c \notin Servers => pc[c] # "publish"
    /\ pc[c] \in Starting => Unclaimed(c) /\ c \notin conns

\* What is on offer is a server that is nobody's peer.
Offered ==
  \A u \in Usernames, c \in Conns :
    waiting[u] = c => c \in Servers /\ UserOf[c] = u /\ Unclaimed(c)

\* So is the server that a client has found, until the client lets go of the mutex of
\* the server's relay: no other client of that relay can take it in between.
Chosen ==
  \A c \in Conns :
    pc[c] \in {"renew", "join"} =>
      /\ found[c] \in Servers
      /\ UserOf[found[c]] = UserOf[c]
      /\ home[found[c]] = home[c] => Unclaimed(found[c])

\* A connection is the peer of one other, at most; of two peers one may have lost its key.
Mates ==
  \A c, d \in Conns :
    peers[c] = d => /\ peers[d] \in {c, NoConn}
                    /\ \A e \in Conns : peers[e] = d => e = c

PairInv == Early /\ Offered /\ Chosen /\ Mates /\ PairsLocal

LEMMA PairInit == Init => PairInv
BY RelayTypesAssumption, RedisRelayAssumption
   DEF Init, NewRedisStore, PairInv, Early, Offered, Chosen, Mates, PairsLocal, Starting,
       Unclaimed

\* Keys only go away.
Shrinks ==
  /\ \A u \in Usernames : waiting'[u] \in {waiting[u], NoConn}
  /\ \A c \in Conns : peers'[c] \in {peers[c], NoConn}

\* No handshake but that of c goes on, and it goes no further than to the mutex.
NoProgress ==
  /\ home' = home
  /\ conns' \subseteq conns
  /\ \A c \in Conns :
       /\ pc'[c] \in Starting =>
            \/ pc'[c] = pc[c]
            \/ pc[c] = "find" /\ pc'[c] = "renew"
            \/ pc[c] = "renew" /\ pc'[c] = "join"
       /\ pc'[c] \in {"renew", "join"} =>
            \/ pc[c] \in {"renew", "join"} /\ found'[c] = found[c]
            \/ pc[c] = "find" /\ found'[c] = waiting[UserOf[c]] /\ found'[c] # NoConn

LEMMA ShrinkStep ==
  ASSUME TypeInv, PairInv, Shrinks, NoProgress
  PROVE  PairInv'
<1>. USE RelayTypesAssumption, RedisRelayAssumption
<1>0. /\ waiting \in [Usernames -> Conns \cup {NoConn}]
      /\ peers \in [Conns -> Conns \cup {NoConn}]
      /\ found \in [Conns -> Conns \cup {NoConn}]
      /\ UserOf \in [Conns -> Usernames] /\ Servers \subseteq Conns
  BY DEF TypeInv, StoreInv, StoreTypeOK, RelayTypeOK
<1>1. \A c \in Conns : Unclaimed(c) => Unclaimed(c)'
  BY DEF Shrinks, Unclaimed
<1>2. Early'
  BY <1>1 DEF PairInv, Early, NoProgress, Starting
<1>3. Offered'
  BY <1>1 DEF PairInv, Offered, Shrinks
<1>4. Chosen'
  <2> SUFFICES ASSUME NEW c \in Conns, pc'[c] \in {"renew", "join"}
               PROVE  /\ found'[c] \in Servers
                      /\ UserOf[found'[c]] = UserOf[c]
                      /\ home[found'[c]] = home[c] => UnclaimedNext(found'[c])
    BY DEF Chosen, NoProgress, Unclaimed, UnclaimedNext
  <2>1. CASE pc[c] \in {"renew", "join"} /\ found'[c] = found[c]
    <3>1. /\ found[c] \in Servers /\ UserOf[found[c]] = UserOf[c]
          /\ home[found[c]] = home[c] => Unclaimed(found[c])
      BY <2>1 DEF PairInv, Chosen
    <3>. QED  BY <1>0, <1>1, <2>1, <3>1 DEF Unclaimed, UnclaimedNext
  <2>2. CASE pc[c] = "find" /\ found'[c] = waiting[UserOf[c]] /\ found'[c] # NoConn
    <3>1. waiting[UserOf[c]] \in Conns /\ UserOf[c] \in Usernames
      BY <1>0, <2>2
    <3>2. /\ waiting[UserOf[c]] \in Servers
          /\ UserOf[waiting[UserOf[c]]] = UserOf[c]
          /\ Unclaimed(waiting[UserOf[c]])
      BY <3>1 DEF PairInv, Offered
    <3>. QED  BY <1>1, <2>2, <3>1, <3>2 DEF Unclaimed, UnclaimedNext
  <2>. QED  BY <2>1, <2>2 DEF NoProgress
<1>5. Mates'
  BY DEF PairInv, Mates, Shrinks
<1>6. PairsLocal'
  BY DEF PairInv, PairsLocal, Shrinks, NoProgress
<1>. QED  BY <1>2, <1>3, <1>4, <1>5, <1>6 DEF PairInv

LEMMA AcceptPairs ==
  ASSUME TypeInv, PairInv, NEW c \in Conns, NEW r \in Relays, Accept(c, r)
  PROVE  PairInv'
<1>. USE RelayTypesAssumption, RedisRelayAssumption
<1>0. /\ pc \in [Conns -> Label] /\ home \in [Conns -> Relays \cup {NoRelay}]
      /\ found \in [Conns -> Conns \cup {NoConn}]
      /\ peers \in [Conns -> Conns \cup {NoConn}]
      /\ Servers \subseteq Conns
  BY DEF TypeInv, RelayTypeOK, StoreInv, StoreTypeOK
<1>1. /\ home' = [home EXCEPT ![c] = r] /\ pc[c] = "idle"
      /\ pc' = [pc EXCEPT ![c] = IF c \in Servers THEN "publish" ELSE "find"]
      /\ UNCHANGED <<waiting, peers, conns, found>>
  BY DEF Accept, Goto, storeVars, waitingKeys, peerKeys
<1>2. Unclaimed(c)
  BY <1>1 DEF PairInv, Early, Starting
<1>3. Early'
  BY <1>0, <1>1, <1>2 DEF PairInv, Early, Starting, Unclaimed
<1>4. Offered' /\ Mates'
  BY <1>1 DEF PairInv, Offered, Mates, Unclaimed
<1>5. Chosen'
  <2> SUFFICES ASSUME NEW d \in Conns, pc'[d] \in {"renew", "join"}
               PROVE  /\ found[d] \in Servers
                      /\ UserOf[found[d]] = UserOf[d]
                      /\ home'[found[d]] = home'[d] => Unclaimed(found[d])
    BY <1>1 DEF Chosen, Unclaimed
  <2>1. d # c /\ pc[d] \in {"renew", "join"} /\ home'[d] = home[d]
    BY <1>0, <1>1
  <2>2. found[d] = c \/ home'[found[d]] = home[found[d]]
    BY <1>0, <1>1
  <2>. QED  BY <1>2, <2>1, <2>2 DEF PairInv, Chosen
<1>6. PairsLocal'
  <2>1. \A d \in Conns : peers[d] # NoConn => d # c /\ peers[d] # c /\ peers[d] \in Conns
    BY <1>0, <1>2 DEF Unclaimed
  <2>. QED  BY <1>0, <1>1, <2>1 DEF PairInv, PairsLocal
<1>. QED  BY <1>3, <1>4, <1>5, <1>6 DEF PairInv

LEMMA NextClientPairs ==
  ASSUME TypeInv, PairInv, NEW c \in Conns, NextClient(c)
  PROVE  PairInv'
<1>. USE RelayTypesAssumption, RedisRelayAssumption
<1>0. /\ pc \in [Conns -> Label] /\ home \in [Conns -> Relays \cup {NoRelay}]
      /\ found \in [Conns -> Conns \cup {NoConn}]
      /\ peers \in [Conns -> Conns \cup {NoConn}]
      /\ Servers \subseteq Conns
  BY DEF TypeInv, RelayTypeOK, StoreInv, StoreTypeOK
<1>1. /\ home' = [home EXCEPT ![c] = NoRelay] /\ found' = [found EXCEPT ![c] = NoConn]
      /\ pc' = [pc EXCEPT ![c] = "idle"]
      /\ c \notin Servers /\ c \notin conns
      /\ UNCHANGED <<waiting, peers, conns>>
  BY DEF NextClient, Goto, storeVars, waitingKeys, peerKeys, local
<1>2. Unclaimed(c)
  BY DEF NextClient, Unclaimed
<1>3. Early'
  BY <1>0, <1>1, <1>2 DEF PairInv, Early, Starting, Unclaimed
<1>4. Offered' /\ Mates'
  BY <1>1 DEF PairInv, Offered, Mates, Unclaimed
<1>5. Chosen'
  <2> SUFFICES ASSUME NEW d \in Conns, pc'[d] \in {"renew", "join"}
               PROVE  /\ found'[d] \in Servers
                      /\ UserOf[found'[d]] = UserOf[d]
                      /\ home'[found'[d]] = home'[d] => Unclaimed(found'[d])
    BY <1>1 DEF Chosen, Unclaimed
  <2>1. /\ d # c /\ pc[d] \in {"renew", "join"}
        /\ home'[d] = home[d] /\ found'[d] = found[d]
    BY <1>0, <1>1
  <2>2. found[d] \in Servers
    BY <2>1 DEF PairInv, Chosen
  <2>3. home'[found[d]] = home[found[d]]
    BY <1>0, <1>1, <2>2
  <2>. QED  BY <2>1, <2>3 DEF PairInv, Chosen
<1>6. PairsLocal'
  <2>1. \A d \in Conns : peers[d] # NoConn => d # c /\ peers[d] # c /\ peers[d] \in Conns
    BY <1>0, <1>2 DEF Unclaimed
  <2>. QED  BY <1>0, <1>1, <2>1 DEF PairInv, PairsLocal
<1>. QED  BY <1>3, <1>4, <1>5, <1>6 DEF PairInv

LEMMA PublishPairs ==
  ASSUME TypeInv, PairInv, NEW c \in Conns, NEW o \in Outcome, Publish(c, o)
  PROVE  PairInv'
<1>. USE RelayTypesAssumption, RedisRelayAssumption
<1>0. /\ pc \in [Conns -> Label] /\ waiting \in [Usernames -> Conns \cup {NoConn}]
      /\ UserOf[c] \in Usernames
  BY DEF TypeInv, RelayTypeOK, StoreInv, StoreTypeOK
<1>1. /\ pc[c] = "publish" /\ pc' = [pc EXCEPT ![c] = "read"]
      /\ conns' \subseteq conns \cup {c}
      /\ UNCHANGED <<home, peers, found>>
  BY DEF Publish, Goto, peerKeys
<1>2. waiting' = waiting \/ waiting' = [waiting EXCEPT ![UserOf[c]] = c]
  BY DEF Publish, Unless, SetWaiting, waitingKeys
<1>3. c \in Servers /\ Unclaimed(c)
  BY <1>1 DEF PairInv, Early, Starting
<1>4. Early'
  BY <1>0, <1>1 DEF PairInv, Early, Starting, Unclaimed
<1>5. Offered'
  BY <1>0, <1>1, <1>2, <1>3 DEF PairInv, Offered, Unclaimed
<1>6. Chosen'
  BY <1>0, <1>1 DEF PairInv, Chosen, Unclaimed
<1>7. Mates' /\ PairsLocal'
  BY <1>1 DEF PairInv, Mates, PairsLocal
<1>. QED  BY <1>4, <1>5, <1>6, <1>7 DEF PairInv

LEMMA JoinPairs ==
  ASSUME TypeInv, PairInv, NEW c \in Conns, NEW o \in Outcome, PairWithWaiting(c, o)
  PROVE  PairInv'
<1>. USE RelayTypesAssumption, RedisRelayAssumption
<1>. DEFINE s == found[c]
            u == UserOf[c]
<1>0. /\ pc \in [Conns -> Label] /\ waiting \in [Usernames -> Conns \cup {NoConn}]
      /\ peers \in [Conns -> Conns \cup {NoConn}] /\ conns \subseteq Conns
      /\ found \in [Conns -> Conns \cup {NoConn}]
      /\ UserOf[c] \in Usernames /\ Servers \subseteq Conns
  BY DEF TypeInv, RelayTypeOK, StoreInv, StoreTypeOK
<1>1. /\ pc[c] = "join" /\ pc' = [pc EXCEPT ![c] = "read"]
      /\ s \in conns /\ home[s] = home[c]
      /\ conns' = conns \cup {c}
      /\ found' = [found EXCEPT ![c] = NoConn]
      /\ home' = home
  BY DEF PairWithWaiting, Goto, LocalTo, Forget
<1>2. /\ s \in Servers /\ UserOf[s] = u /\ Unclaimed(s)
      /\ c \notin Servers /\ Unclaimed(c)
  BY <1>1 DEF PairInv, Chosen, Early, Starting
<1>3. \/ UNCHANGED <<waiting, peers>>
      \/ /\ waiting' = [waiting EXCEPT ![u] = NoConn]
         /\ peers' = [peers EXCEPT ![s] = c, ![c] = s]
  BY DEF PairWithWaiting, Unless, DeleteWaiting, SetPeers, storeVars, waitingKeys, peerKeys
<1>4. s # c /\ s \in Conns
  BY <1>0, <1>2
<1>5. \A d \in Conns :
        d \notin {s, c} => /\ peers'[d] = peers[d]
                           /\ Unclaimed(d) => Unclaimed(d)'
  <2>1. \A d \in Conns : d \notin {s, c} => peers'[d] = peers[d]
    BY <1>0, <1>3, <1>4
  <2>2. peers'[s] \in {peers[s], c} /\ peers'[c] \in {peers[c], s}
    BY <1>0, <1>3, <1>4
  <2>. QED  BY <1>4, <2>1, <2>2 DEF Unclaimed
<1>6. Early'
  <2> SUFFICES ASSUME NEW d \in Conns
               PROVE  /\ d \in Servers => pc'[d] \notin {"find", "renew", "join"}
                      /\ d \notin Servers => pc'[d] # "publish"
                      /\ pc'[d] \in Starting => Unclaimed(d)' /\ d \notin conns'
    BY DEF Early
  <2>1. CASE d = c
    BY <1>0, <1>1, <2>1 DEF Starting
  <2>2. CASE d # c
    <3>1. pc'[d] = pc[d]
      BY <1>0, <1>1, <2>2
    <3>2. pc[d] \in Starting => d # s
      BY <1>1 DEF PairInv, Early
    <3>. QED  BY <1>1, <1>5, <2>2, <3>1, <3>2 DEF PairInv, Early
  <2>. QED  BY <2>1, <2>2
<1>7. Offered'
  <2>1. CASE UNCHANGED <<waiting, peers>>
    BY <2>1 DEF PairInv, Offered, Unclaimed
  <2>2. CASE waiting' = [waiting EXCEPT ![u] = NoConn]
    <3> SUFFICES ASSUME NEW v \in Usernames, NEW d \in Conns, waiting'[v] = d
                 PROVE  d \in Servers /\ UserOf[d] = v /\ Unclaimed(d)'
      BY DEF Offered
    <3>1. v # u /\ waiting[v] = d
      BY <1>0, <2>2
    <3>2. d \in Servers /\ UserOf[d] = v /\ Unclaimed(d)
      BY <3>1 DEF PairInv, Offered
    <3>3. d # s /\ d # c
      BY <1>2, <3>1, <3>2
    <3>. QED  BY <1>5, <3>2, <3>3
  <2>. QED  BY <1>3, <2>1, <2>2
<1>8. Chosen'
  <2> SUFFICES ASSUME NEW d \in Conns, pc'[d] \in {"renew", "join"}
               PROVE  /\ found'[d] \in Servers
                      /\ UserOf[found'[d]] = UserOf[d]
                      /\ home[found'[d]] = home[d] => UnclaimedNext(found'[d])
    BY <1>1 DEF Chosen, Unclaimed, UnclaimedNext
  <2>1. d # c /\ pc[d] \in {"renew", "join"} /\ found'[d] = found[d]
    BY <1>0, <1>1
  <2>2. /\ found[d] \in Servers /\ UserOf[found[d]] = UserOf[d]
        /\ home[found[d]] = home[d] => Unclaimed(found[d])
    BY <2>1 DEF PairInv, Chosen
  <2>3. home[d] # home[c]
    <3>1. mu[home[d]] = d /\ mu[home[c]] = c
      BY <1>1, <2>1 DEF TypeInv, Placed, Locking
    <3>. QED  BY <2>1, <3>1
  <2>4. home[found[d]] = home[d] => found[d] \notin {s, c}
    BY <1>1, <2>3
  <2>. QED  BY <1>0, <1>5, <2>1, <2>2, <2>4 DEF Unclaimed, UnclaimedNext
<1>9. CASE UNCHANGED <<waiting, peers>>
  <2>1. Mates' /\ PairsLocal'
    BY <1>1, <1>9 DEF PairInv, Mates, PairsLocal
  <2>. QED  BY <1>6, <1>7, <1>8, <2>1 DEF PairInv
<1>10. CASE peers' = [peers EXCEPT ![s] = c, ![c] = s]
  <2>1. peers'[s] = c /\ peers'[c] = s
    BY <1>0, <1>4, <1>10
  <2>2. \A d \in Conns : d \notin {s, c} => peers'[d] = peers[d] /\ peers'[d] \notin {s, c}
    BY <1>2, <1>5 DEF Unclaimed
  <2>3. Mates'
    <3> SUFFICES ASSUME NEW a \in Conns, NEW b \in Conns, peers'[a] = b
                 PROVE  /\ peers'[b] \in {a, NoConn}
                        /\ \A e \in Conns : peers'[e] = b => e = a
      BY DEF Mates
    <3>1. CASE a \in {s, c}
      BY <1>4, <2>1, <2>2, <3>1
    <3>2. CASE a \notin {s, c}
      <4>1. peers[a] = b /\ b \notin {s, c}
        BY <2>2, <3>2
      <4>2. /\ peers[b] \in {a, NoConn} /\ \A e \in Conns : peers[e] = b => e = a
        BY <4>1 DEF PairInv, Mates
      <4>. QED  BY <2>1, <2>2, <4>1, <4>2
    <3>. QED  BY <3>1, <3>2
  <2>4. PairsLocal'
    <3> SUFFICES ASSUME NEW d \in Conns, peers'[d] # NoConn
                 PROVE  /\ home[peers'[d]] = home[d]
                        /\ UserOf[peers'[d]] = UserOf[d]
                        /\ (peers'[d] \in Servers) # (d \in Servers)
      BY <1>1 DEF PairsLocal
    <3>1. CASE d \in {s, c}
      BY <1>1, <1>2, <2>1, <3>1
    <3>2. CASE d \notin {s, c}
      BY <2>2, <3>2 DEF PairInv, PairsLocal
    <3>. QED  BY <3>1, <3>2
  <2>. QED  BY <1>6, <1>7, <1>8, <2>3, <2>4 DEF PairInv
<1>. QED  BY <1>3, <1>9, <1>10

\* Every other step of a handler.
LEMMA HandlerShrinks ==
  ASSUME TypeInv, NEW c \in Conns, NEW o \in Outcome,
         \/ ReadError(c) \/ ReadFrame(c) \/ Find(c, o) \/ Renew(c, o)
         \/ DropStaleServer(c, o) \/ Forward(c, o) \/ RenewOwn(c, o) \/ RenewOther(c, o)
         \/ StopWaiting(c, o) \/ BreakPair(c, o)
  PROVE  Shrinks /\ NoProgress
<1>. USE RelayTypesAssumption, RedisRelayAssumption
<1>0. /\ pc \in [Conns -> Label] /\ found \in [Conns -> Conns \cup {NoConn}]
      /\ waiting \in [Usernames -> Conns \cup {NoConn}]
      /\ peers \in [Conns -> Conns \cup {NoConn}]
      /\ UserOf[c] \in Usernames
  BY DEF TypeInv, RelayTypeOK, StoreInv, StoreTypeOK
<1>1. Shrinks
  <2>1. CASE \/ ReadError(c) \/ ReadFrame(c) \/ Find(c, o) \/ Renew(c, o) \/ Forward(c, o)
             \/ RenewOwn(c, o) \/ RenewOther(c, o)
    <3>1. UNCHANGED <<waiting, peers>>
      BY <2>1 DEF ReadError, ReadFrame, Find, Renew, Forward, RenewOwn, RenewOther, Unless,
                  RenewWaiting, RenewPeer, storeVars, waitingKeys, peerKeys
    <3>. QED  BY <3>1 DEF Shrinks
  <2>2. CASE DropStaleServer(c, o) \/ StopWaiting(c, o)
    <3>1. /\ UNCHANGED peers
          /\ waiting' = waiting \/ waiting' = [waiting EXCEPT ![UserOf[c]] = NoConn]
      BY <2>2 DEF DropStaleServer, StopWaiting, Unless, RemoveWaiting, DeleteWaiting,
                  waitingKeys, peerKeys
    <3>. QED  BY <1>0, <3>1 DEF Shrinks
  <2>3. CASE BreakPair(c, o)
    BY <1>0, <2>3 DEF BreakPair, Unless, RemovePair, waitingKeys, peerKeys, Shrinks
  <2>. QED  BY <2>1, <2>2, <2>3
<1>2. NoProgress
  <2>1. CASE Find(c, o)
    <3>. DEFINE server == IF o = "ok" THEN waiting[UserOf[c]] ELSE NoConn
    <3>1. /\ home' = home /\ conns' = conns /\ pc[c] = "find"
          /\ pc' = [pc EXCEPT ![c] = IF server = NoConn THEN "close" ELSE "renew"]
          /\ found' = [found EXCEPT ![c] = server]
      BY <2>1 DEF Find, Goto
    <3>. QED  BY <1>0, <3>1 DEF NoProgress, Starting
  <2>2. CASE Renew(c, o)
    <3>1. /\ home' = home /\ conns' = conns /\ pc[c] = "renew" /\ found' = found
          /\ pc' = [pc EXCEPT ![c] = "join"]
      BY <2>2 DEF Renew, Goto, local
    <3>. QED  BY <1>0, <3>1 DEF NoProgress, Starting
  <2>3. CASE \/ ReadError(c) \/ ReadFrame(c) \/ DropStaleServer(c, o) \/ Forward(c, o)
             \/ RenewOwn(c, o) \/ RenewOther(c, o) \/ StopWaiting(c, o) \/ BreakPair(c, o)
    <3>1. home' = home /\ conns' \subseteq conns
      BY <2>3 DEF ReadError, ReadFrame, DropStaleServer, Forward, RenewOwn, RenewOther,
                  StopWaiting, BreakPair, local
    <3>2. \A d \in Conns \ {c} : pc'[d] = pc[d] /\ found'[d] = found[d]
      BY <1>0, <2>3
         DEF ReadError, ReadFrame, DropStaleServer, Forward, RenewOwn, RenewOther,
             StopWaiting, BreakPair, Goto, Forget
    <3>3. pc'[c] \notin Starting
      BY <1>0, <2>3
         DEF ReadError, ReadFrame, DropStaleServer, Forward, RenewOwn, RenewOther,
             StopWaiting, BreakPair, Goto, Starting
    <3>. QED  BY <3>1, <3>2, <3>3 DEF NoProgress, Starting
  <2>. QED  BY <2>1, <2>2, <2>3
<1>. QED  BY <1>1, <1>2

LEMMA PairStep == TypeInv /\ PairInv /\ [Next]_rvars => PairInv'
<1> SUFFICES ASSUME TypeInv, PairInv, [Next]_rvars
             PROVE  PairInv'
  OBVIOUS
<1>0. /\ pc \in [Conns -> Label] /\ waiting \in [Usernames -> Conns \cup {NoConn}]
      /\ peers \in [Conns -> Conns \cup {NoConn}]
  BY DEF TypeInv, RelayTypeOK, StoreInv, StoreTypeOK
<1>1. ASSUME NEW c \in Conns, Step(c) \/ ReadFrame(c)
      PROVE  PairInv'
  <2>1. "ok" \in Outcome
    BY DEF Outcome
  <2>. QED  BY <1>1, <2>1, HandlerShrinks, ShrinkStep, PublishPairs, JoinPairs DEF Step
<1>2. ASSUME NEW c \in Conns, NEW r \in Relays, Accept(c, r)
      PROVE  PairInv'
  BY <1>2, AcceptPairs
<1>3. ASSUME NEW r \in Relays, Crash(r)
      PROVE  PairInv'
  <2>1. Shrinks
    BY <1>3 DEF Crash, Shrinks, storeVars, waitingKeys, peerKeys
  <2>2. NoProgress
    BY <1>0, <1>3 DEF Crash, NoProgress, Starting
  <2>. QED  BY <2>1, <2>2, ShrinkStep
<1>4. CASE Tick
  <2>1. Shrinks
    BY <1>4 DEF Tick, Expire, Shrinks
  <2>2. NoProgress
    BY <1>0, <1>4 DEF Tick, local, NoProgress, Starting
  <2>. QED  BY <2>1, <2>2, ShrinkStep
<1>5. ASSUME NEW c \in Conns, Disconnect(c)
      PROVE  PairInv'
  <2>1. Shrinks
    BY <1>5 DEF Disconnect, Shrinks, storeVars, waitingKeys, peerKeys
  <2>2. NoProgress
    BY <1>0, <1>5 DEF Disconnect, NoProgress, Starting
  <2>. QED  BY <2>1, <2>2, ShrinkStep
<1>6. CASE UNCHANGED rvars
  <2>1. Shrinks
    BY <1>6 DEF rvars, Shrinks, storeVars, waitingKeys, peerKeys
  <2>2. NoProgress
    BY <1>0, <1>6 DEF rvars, local, NoProgress, Starting
  <2>. QED  BY <2>1, <2>2, ShrinkStep
<1>7. ASSUME NEW c \in Conns, NextClient(c)
      PROVE  PairInv'
  BY <1>7, NextClientPairs
<1>. QED  BY <1>1, <1>2, <1>3, <1>4, <1>5, <1>6, <1>7 DEF Next

LEMMA PairInvariant == Spec => []PairInv
BY PairInit, PairStep, TypeInvariant, PTL DEF Spec

\* Although all relays work on the same keys, and whatever they crash or fail in between,
\* a pair joins a server and a client of one username and of one relay.
THEOREM PairsStayLocal == Spec => []PairsLocal
<1>1. PairInv => PairsLocal
  BY DEF PairInv
<1>. QED  BY <1>1, PairInvariant, PTL

--------------------------------------------------------------------------------
(* What a connection that has completed its handshake can count on.          *)

Serving == {"read", "forward", "renewOwn", "renewPeer"}

Entitled(c) == pc[c] \in Serving /\ ws[c] = "open" /\ c \notin excused

\* LostOnlyWithExcuse, also in the middle of forwarding a frame.
Settled ==
  \A c \in Conns : Entitled(c) => c \in conns /\ (OnOffer(c) \/ Paired(c))

LEMMA SettledInit == Init => Settled
BY DEF Init, Settled, Entitled, Serving

\* Steps that leave the values of the keys alone.
LEMMA QuietStep ==
  ASSUME Settled, UNCHANGED <<waiting, peers>>, conns \subseteq conns',
         \A c \in Conns : Entitled(c)' => Entitled(c)
  PROVE  Settled'
BY DEF Settled, OnOffer, Paired

LEMMA HandlerQuiet ==
  ASSUME TypeInv, NEW c \in Conns, NEW o \in Outcome,
         \/ ReadError(c) \/ ReadFrame(c) \/ Find(c, o) \/ Renew(c, o) \/ Forward(c, o)
         \/ RenewOwn(c, o) \/ RenewOther(c, o)
  PROVE  /\ UNCHANGED <<waiting, peers>> /\ conns \subseteq conns'
         /\ \A d \in Conns : Entitled(d)' => Entitled(d)
<1>0. /\ pc \in [Conns -> Label] /\ ws \in [Conns -> {"open", "closing", "closed"}]
  BY DEF TypeInv, RelayTypeOK
<1>1. UNCHANGED <<waiting, peers, conns, excused>>
  BY DEF ReadError, ReadFrame, Find, Renew, Forward, RenewOwn, RenewOther, Unless,
         RenewWaiting, RenewPeer, storeVars, waitingKeys, peerKeys, local
<1>2. \A d \in Conns : ws'[d] = "open" => ws[d] = "open"
  BY <1>0 DEF ReadError, ReadFrame, Find, Renew, Forward, RenewOwn, RenewOther, local
<1>3. \A d \in Conns : pc'[d] \in Serving => pc[d] \in Serving
  BY <1>0 DEF ReadError, ReadFrame, Find, Renew, Forward, RenewOwn, RenewOther, Goto, Serving
<1>. QED  BY <1>1, <1>2, <1>3 DEF Entitled

LEMMA PublishSettled ==
  ASSUME TypeInv, PairInv, Settled, NEW c \in Conns, NEW o \in Outcome, Publish(c, o)
  PROVE  Settled'
<1>. USE RelayTypesAssumption, RedisRelayAssumption
<1>. DEFINE u == UserOf[c]
            evicted == IF o = "ok" THEN {Evicted(u, c)} \cap Conns ELSE {}
            dropped == IF o = "failed" THEN {c} ELSE {waiting[u]}
            closed == evicted \cap LocalTo(c)
<1>0. /\ pc \in [Conns -> Label] /\ waiting \in [Usernames -> Conns \cup {NoConn}]
      /\ ws \in [Conns -> {"open", "closing", "closed"}]
      /\ UserOf \in [Conns -> Usernames] /\ u \in Usernames
  BY DEF TypeInv, RelayTypeOK, StoreInv, StoreTypeOK
<1>1. /\ pc[c] = "publish" /\ pc' = [pc EXCEPT ![c] = "read"]
      /\ conns' = (conns \cup {c}) \ closed
      /\ ws' = CloseOf(closed)
      /\ excused' = excused \cup ((dropped \ closed) \cap Conns)
      /\ peers' = peers
  BY DEF Publish, Goto, Excuse, peerKeys
<1>2. IF o = "failed" THEN waiting' = waiting ELSE waiting' = [waiting EXCEPT ![u] = c]
  BY DEF Publish, Unless, SetWaiting, waitingKeys
<1>3. \A d \in closed : d = waiting[u] /\ d # c /\ ws'[d] # "open"
  BY <1>0, <1>1 DEF Evicted, CloseOf
<1>4. \A d \in closed : Unclaimed(d)
  BY <1>0, <1>3 DEF PairInv, Offered
<1> SUFFICES ASSUME NEW d \in Conns, Entitled(d)'
             PROVE  d \in conns' /\ (OnOffer(d)' \/ Paired(d)')
  BY DEF Settled
<1>. HIDE DEF closed, dropped
<1>5. d \notin closed /\ d \notin dropped
  BY <1>1, <1>3 DEF Entitled
<1>6. CASE d = c
  BY <1>0, <1>1, <1>2, <1>5, <1>6 DEF dropped, OnOffer
<1>7. CASE d # c
  <2>1. Entitled(d)
    BY <1>0, <1>1, <1>7 DEF Entitled, CloseOf
  <2>2. d \in conns /\ (OnOffer(d) \/ Paired(d))
    BY <2>1 DEF Settled
  <2>3. CASE OnOffer(d)
    <3>1. o = "failed" \/ UserOf[d] # u
      BY <1>5, <2>3 DEF dropped, OnOffer
    <3>. QED  BY <1>0, <1>1, <1>2, <1>5, <2>2, <2>3, <3>1 DEF OnOffer
  <2>4. CASE Paired(d)
    <3>1. peers[d] \notin closed
      BY <1>4 DEF Unclaimed
    <3>. QED  BY <1>1, <1>5, <2>2, <2>4, <3>1 DEF Paired
  <2>. QED  BY <2>2, <2>3, <2>4
<1>. QED  BY <1>6, <1>7

LEMMA DropSettled ==
  ASSUME TypeInv, Settled, NEW c \in Conns, NEW o \in Outcome, DropStaleServer(c, o)
  PROVE  Settled'
<1>. USE RelayTypesAssumption, RedisRelayAssumption
<1>0. /\ pc \in [Conns -> Label] /\ waiting \in [Usernames -> Conns \cup {NoConn}]
      /\ ws \in [Conns -> {"open", "closing", "closed"}]
      /\ UserOf \in [Conns -> Usernames]
  BY DEF TypeInv, RelayTypeOK, StoreInv, StoreTypeOK
<1>1. /\ pc' = [pc EXCEPT ![c] = "close"]
      /\ ws' = [ws EXCEPT ![c] = "closed"]
      /\ conns' = conns /\ peers' = peers
      /\ excused' = excused \cup ({found[c]} \cap Conns)
  BY DEF DropStaleServer, Goto, Excuse, peerKeys
<1>2. \/ waiting' = waiting
      \/ waiting' = [waiting EXCEPT ![UserOf[c]] = NoConn] /\ waiting[UserOf[c]] = found[c]
  BY DEF DropStaleServer, Unless, RemoveWaiting, DeleteWaiting, waitingKeys
<1> SUFFICES ASSUME NEW d \in Conns, Entitled(d)'
             PROVE  d \in conns' /\ (OnOffer(d)' \/ Paired(d)')
  BY DEF Settled
<1>3. Entitled(d) /\ d # found[c]
  BY <1>0, <1>1 DEF Entitled, Serving
<1>4. d \in conns /\ (OnOffer(d) \/ Paired(d))
  BY <1>3 DEF Settled
<1>5. OnOffer(d) => OnOffer(d)'
  BY <1>0, <1>2, <1>3 DEF OnOffer
<1>. QED  BY <1>1, <1>4, <1>5 DEF Paired

LEMMA JoinSettled ==
  ASSUME TypeInv, PairInv, Settled, NEW c \in Conns, NEW o \in Outcome,
         PairWithWaiting(c, o)
  PROVE  Settled'
<1>. USE RelayTypesAssumption, RedisRelayAssumption
<1>. DEFINE s == found[c]
            u == UserOf[c]
            lost == IF o = "failed" THEN {c} ELSE {waiting[u]} \ {s}
<1>0. /\ pc \in [Conns -> Label] /\ waiting \in [Usernames -> Conns \cup {NoConn}]
      /\ peers \in [Conns -> Conns \cup {NoConn}] /\ conns \subseteq Conns
      /\ UserOf \in [Conns -> Usernames] /\ u \in Usernames
  BY DEF TypeInv, RelayTypeOK, StoreInv, StoreTypeOK
<1>1. /\ pc[c] = "join" /\ pc' = [pc EXCEPT ![c] = "read"]
      /\ s \in conns /\ home[s] = home[c]
      /\ conns' = conns \cup {c} /\ ws' = ws
      /\ excused' = excused \cup (lost \cap Conns)
  BY DEF PairWithWaiting, Goto, LocalTo, Excuse
<1>2. Unclaimed(s) /\ Unclaimed(c) /\ s \in Servers /\ c \notin Servers /\ s \in Conns
  BY <1>0, <1>1 DEF PairInv, Chosen, Early, Starting
<1>3. IF o = "failed"
        THEN UNCHANGED <<waiting, peers>>
        ELSE /\ waiting' = [waiting EXCEPT ![u] = NoConn]
             /\ peers' = [peers EXCEPT ![s] = c, ![c] = s]
  BY DEF PairWithWaiting, Unless, DeleteWaiting, SetPeers, storeVars, waitingKeys, peerKeys
<1> SUFFICES ASSUME NEW d \in Conns, Entitled(d)'
             PROVE  d \in conns' /\ (OnOffer(d)' \/ Paired(d)')
  BY DEF Settled
<1>4. d \notin lost
  BY <1>1 DEF Entitled
<1>. HIDE DEF s
<1>5. CASE o = "failed"
  <2>1. d # c
    BY <1>4, <1>5
  <2>2. Entitled(d)
    BY <1>0, <1>1, <2>1 DEF Entitled
  <2>3. d \in conns /\ (OnOffer(d) \/ Paired(d))
    BY <2>2 DEF Settled
  <2>. QED  BY <1>1, <1>3, <1>5, <2>3 DEF OnOffer, Paired
<1>6. CASE o # "failed"
  <2>1. /\ peers'[s] = c /\ peers'[c] = s
        /\ \A e \in Conns \ {s, c} : peers'[e] = peers[e]
    BY <1>0, <1>2, <1>3, <1>6
  <2>2. CASE d \in {s, c}
    BY <1>1, <2>1, <2>2 DEF Paired
  <2>3. CASE d \notin {s, c}
    <3>1. Entitled(d)
      BY <1>0, <1>1, <2>3 DEF Entitled
    <3>2. d \in conns /\ (OnOffer(d) \/ Paired(d))
      BY <3>1 DEF Settled
    <3>3. CASE OnOffer(d)
      <4>1. UserOf[d] # u
        BY <1>4, <1>6, <2>3, <3>3 DEF OnOffer
      <4>. QED  BY <1>0, <1>1, <1>3, <1>6, <3>2, <3>3, <4>1 DEF OnOffer
    <3>4. CASE Paired(d)
      <4>1. peers[d] \in Conns \ {s, c}
        BY <1>0, <1>2, <3>4 DEF Paired, Unclaimed
      <4>. QED  BY <1>1, <2>1, <2>3, <3>2, <3>4, <4>1 DEF Paired
    <3>. QED  BY <3>2, <3>3, <3>4
  <2>. QED  BY <2>2, <2>3
<1>. QED  BY <1>5, <1>6

LEMMA StopSettled ==
  ASSUME TypeInv, PairInv, Settled, NEW c \in Conns, NEW o \in Outcome, StopWaiting(c, o)
  PROVE  Settled'
<1>. USE RelayTypesAssumption, RedisRelayAssumption
<1>0. /\ pc \in [Conns -> Label] /\ waiting \in [Usernames -> Conns \cup {NoConn}]
      /\ UserOf \in [Conns -> Usernames]
  BY DEF TypeInv, RelayTypeOK, StoreInv, StoreTypeOK
<1>1. /\ \A d \in Conns \ {c} : pc'[d] = pc[d]
      /\ pc'[c] \notin Serving
      /\ UNCHANGED <<ws, peers, excused>>
  BY <1>0 DEF StopWaiting, Goto, peerKeys, Serving
<1>2. \/ waiting' = waiting
      \/ waiting' = [waiting EXCEPT ![UserOf[c]] = NoConn] /\ waiting[UserOf[c]] = c
  BY DEF StopWaiting, Unless, RemoveWaiting, DeleteWaiting, waitingKeys
<1>3. \/ conns' = conns
      \/ conns' = conns \ {c} /\ Unclaimed(c)
  <2>1. waiting[UserOf[c]] = c => Unclaimed(c)
    BY <1>0 DEF PairInv, Offered
  <2>. QED  BY <2>1 DEF StopWaiting
<1> SUFFICES ASSUME NEW d \in Conns, Entitled(d)'
             PROVE  d \in conns' /\ (OnOffer(d)' \/ Paired(d)')
  BY DEF Settled
<1>4. Entitled(d) /\ d # c
  BY <1>1 DEF Entitled
<1>5. d \in conns /\ (OnOffer(d) \/ Paired(d))
  BY <1>4 DEF Settled
<1>6. OnOffer(d) => OnOffer(d)'
  BY <1>0, <1>2, <1>4 DEF OnOffer
<1>7. Paired(d) => Paired(d)'
  BY <1>1, <1>3 DEF Paired, Unclaimed
<1>. QED  BY <1>3, <1>4, <1>5, <1>6, <1>7

LEMMA BreakSettled ==
  ASSUME TypeInv, PairInv, Settled, NEW c \in Conns, NEW o \in Outcome, BreakPair(c, o)
  PROVE  Settled'
<1>. USE RelayTypesAssumption, RedisRelayAssumption
<1>. DEFINE peer == IF o = "ok" THEN {peers[c]} \cap LocalTo(c) ELSE {}
<1>0. /\ pc \in [Conns -> Label] /\ conns \subseteq Conns
      /\ peers \in [Conns -> Conns \cup {NoConn}]
      /\ ws \in [Conns -> {"open", "closing", "closed"}]
  BY DEF TypeInv, RelayTypeOK, StoreInv, StoreTypeOK
<1>1. /\ pc' = [pc EXCEPT ![c] = "done"] /\ waiting' = waiting
      /\ conns' = conns \ (peer \cup {c})
      /\ ws' = [CloseOf(peer) EXCEPT ![c] = "closed"]
      /\ excused' = excused \cup (({peers[c]} \ peer) \cap Conns)
  BY DEF BreakPair, Goto, Excuse, waitingKeys
<1>2. \A e \in Conns : e # c /\ e # peers[c] => peers'[e] = peers[e]
  BY DEF BreakPair, Unless, RemovePair, peerKeys
<1>3. peer \subseteq {peers[c]}
  OBVIOUS
<1> SUFFICES ASSUME NEW d \in Conns, Entitled(d)'
             PROVE  d \in conns' /\ (OnOffer(d)' \/ Paired(d)')
  BY DEF Settled
<1>. HIDE DEF peer
<1>4. d # c
  BY <1>0, <1>1 DEF Entitled, Serving
<1>5. d \notin peer
  BY <1>0, <1>1, <1>4 DEF Entitled, CloseOf
<1>6. d # peers[c]
  BY <1>1, <1>5 DEF Entitled
<1>7. Entitled(d)
  BY <1>0, <1>1, <1>4, <1>5 DEF Entitled, CloseOf
<1>8. d \in conns /\ (OnOffer(d) \/ Paired(d))
  BY <1>7 DEF Settled
<1>9. d \in conns'
  BY <1>1, <1>4, <1>5, <1>8
<1>10. CASE OnOffer(d)
  BY <1>1, <1>9, <1>10 DEF OnOffer
<1>11. CASE Paired(d)
  <2>1. peers[d] \in Conns /\ peers[d] # c /\ peers[d] # peers[c]
    BY <1>0, <1>4, <1>6, <1>11 DEF Paired, PairInv, Mates
  <2>. QED  BY <1>1, <1>2, <1>3, <1>4, <1>6, <1>9, <1>11, <2>1 DEF Paired
<1>. QED  BY <1>8, <1>10, <1>11

LEMMA CrashSettled ==
  ASSUME TypeInv, PairInv, Settled, NEW r \in Relays, Crash(r)
  PROVE  Settled'
<1>. USE RelayTypesAssumption, RedisRelayAssumption
<1>. DEFINE dead == {c \in Conns : home[c] = r /\ pc[c] # "idle"}
<1>1. /\ pc' = [c \in Conns |-> IF c \in dead THEN "done" ELSE pc[c]]
      /\ ws' = [c \in Conns |-> IF c \in dead THEN "closed" ELSE ws[c]]
      /\ conns' = conns \ dead
      /\ UNCHANGED <<waiting, peers, excused>>
  BY DEF Crash, storeVars, waitingKeys, peerKeys
<1> SUFFICES ASSUME NEW d \in Conns, Entitled(d)'
             PROVE  d \in conns' /\ (OnOffer(d)' \/ Paired(d)')
  BY DEF Settled
<1>2. d \notin dead /\ Entitled(d)
  BY <1>1 DEF Entitled, Serving
<1>3. d \in conns /\ (OnOffer(d) \/ Paired(d))
  BY <1>2 DEF Settled
<1>4. ASSUME Paired(d)
      PROVE  peers[d] \in conns'
  <2>1. peers[d] # NoConn
    BY <1>4 DEF Paired, TypeInv, RelayTypeOK
  <2>2. home[peers[d]] = home[d]
    BY <2>1 DEF PairInv, PairsLocal
  <2>3. home[d] # r
    BY <1>2 DEF Entitled, Serving
  <2>. QED  BY <1>1, <1>4, <2>2, <2>3 DEF Paired
<1>. QED  BY <1>1, <1>2, <1>3, <1>4 DEF OnOffer, Paired

LEMMA TickSettled ==
  ASSUME TypeInv, Settled, Tick
  PROVE  Settled'
<1>. USE RelayTypesAssumption, RedisRelayAssumption
<1>0. /\ UserOf \in [Conns -> Usernames] /\ conns \subseteq Conns
      /\ peers \in [Conns -> Conns \cup {NoConn}]
  BY DEF TypeInv, RelayTypeOK, StoreInv, StoreTypeOK
<1>1. /\ waiting' = [u \in Usernames |-> IF waitingTTL[u] = 1 THEN NoConn ELSE waiting[u]]
      /\ peers' = [c \in Conns |-> IF peersTTL[c] = 1 THEN NoConn ELSE peers[c]]
      /\ excused' = excused \cup ((Expiring \cup {peers[c] : c \in Expiring}) \cap Conns)
      /\ UNCHANGED <<conns, ws, pc>>
  BY DEF Tick, Expire, Excuse, local
<1> SUFFICES ASSUME NEW d \in Conns, Entitled(d)'
             PROVE  d \in conns' /\ (OnOffer(d)' \/ Paired(d)')
  BY DEF Settled
<1>2. /\ Entitled(d) /\ d \notin Expiring
      /\ \A c \in Expiring : peers[c] # d
  BY <1>1 DEF Entitled
<1>3. d \in conns /\ (OnOffer(d) \/ Paired(d))
  BY <1>2 DEF Settled
<1>4. OnOffer(d) => OnOffer(d)'
  BY <1>0, <1>1, <1>2 DEF OnOffer, Expiring
<1>5. Paired(d) => Paired(d)'
  BY <1>0, <1>1, <1>2 DEF Paired, Expiring
<1>. QED  BY <1>1, <1>3, <1>4, <1>5

LEMMA SettledStep == TypeInv /\ PairInv /\ Settled /\ [Next]_rvars => Settled'
<1> SUFFICES ASSUME TypeInv, PairInv, Settled, [Next]_rvars
             PROVE  Settled'
  OBVIOUS
<1>0. pc \in [Conns -> Label] /\ ws \in [Conns -> {"open", "closing", "closed"}]
  BY DEF TypeInv, RelayTypeOK
<1>1. ASSUME NEW c \in Conns, Step(c) \/ ReadFrame(c)
      PROVE  Settled'
  <2>1. "ok" \in Outcome
    BY DEF Outcome
  <2>2. CASE \/ ReadError(c) \/ ReadFrame(c)
             \/ \E o \in Outcome : \/ Find(c, o) \/ Renew(c, o) \/ Forward(c, o)
                                   \/ RenewOwn(c, o) \/ RenewOther(c, o)
    <3>1. /\ UNCHANGED <<waiting, peers>> /\ conns \subseteq conns'
          /\ \A d \in Conns : Entitled(d)' => Entitled(d)
      BY <2>1, <2>2, HandlerQuiet
    <3>. QED  BY <3>1, QuietStep
  <2>3. CASE \E o \in Outcome : \/ Publish(c, o) \/ DropStaleServer(c, o)
                                \/ PairWithWaiting(c, o) \/ StopWaiting(c, o)
                                \/ BreakPair(c, o)
    BY <2>3, PublishSettled, DropSettled, JoinSettled, StopSettled, BreakSettled
  <2>. QED  BY <1>1, <2>2, <2>3 DEF Step
<1>2. ASSUME NEW c \in Conns, NEW r \in Relays, Accept(c, r)
      PROVE  Settled'
  <2>1. /\ UNCHANGED <<waiting, peers, conns, excused>>
        /\ \A d \in Conns \ {c} : pc'[d] = pc[d] /\ ws'[d] = ws[d]
        /\ pc'[c] \notin Serving
    BY <1>0, <1>2 DEF Accept, Goto, storeVars, waitingKeys, peerKeys, Serving
  <2>2. \A d \in Conns : Entitled(d)' => Entitled(d)
    BY <2>1 DEF Entitled
  <2>. QED  BY <2>1, <2>2, QuietStep
<1>3. ASSUME NEW r \in Relays, Crash(r)
      PROVE  Settled'
  BY <1>3, CrashSettled
<1>4. CASE Tick
  BY <1>4, TickSettled
<1>5. ASSUME NEW c \in Conns, Disconnect(c)
      PROVE  Settled'
  <2>1. /\ UNCHANGED <<waiting, peers, conns, excused, pc>>
        /\ \A d \in Conns : ws'[d] = "open" => ws[d] = "open"
    BY <1>0, <1>5 DEF Disconnect, storeVars, waitingKeys, peerKeys
  <2>2. \A d \in Conns : Entitled(d)' => Entitled(d)
    BY <2>1 DEF Entitled
  <2>. QED  BY <2>1, <2>2, QuietStep
<1>6. CASE UNCHANGED rvars
  <2>1. UNCHANGED <<waiting, peers, conns, excused, pc, ws>>
    BY <1>6 DEF rvars, storeVars, waitingKeys, peerKeys, local
  <2>2. \A d \in Conns : Entitled(d)' => Entitled(d)
    BY <2>1 DEF Entitled
  <2>. QED  BY <2>1, <2>2, QuietStep
<1>7. ASSUME NEW c \in Conns, NextClient(c)
      PROVE  Settled'
  <2>1. /\ UNCHANGED <<waiting, peers, conns, ws>>
        /\ \A d \in Conns \ {c} : pc'[d] = pc[d] /\ (d \in excused' <=> d \in excused)
        /\ pc'[c] \notin Serving
    BY <1>0, <1>7
       DEF NextClient, Goto, storeVars, waitingKeys, peerKeys, local, Serving
  <2>2. \A d \in Conns : Entitled(d)' => Entitled(d)
    BY <2>1 DEF Entitled
  <2>. QED  BY <2>1, <2>2, QuietStep
<1>. QED  BY <1>1, <1>2, <1>3, <1>4, <1>5, <1>6, <1>7 DEF Next

\* A connection that stays open after its handshake is on offer or paired, unless a key
\* ran out of time, a call to Redis failed or another relay took its username: for any
\* number of relays, connections, crashes and failures.
THEOREM NothingLost == Spec => []LostOnlyWithExcuse
<1>1. Settled => LostOnlyWithExcuse
  BY DEF Settled, Entitled, Serving, LostOnlyWithExcuse
<1>2. Spec => []Settled
  BY SettledInit, SettledStep, TypeInvariant, PairInvariant, PTL DEF Spec
<1>. QED  BY <1>1, <1>2, PTL
================================================================================
