------------------------------- MODULE RedisStore -------------------------------
(***************************************************************************)
(* The Redis store (internal/connections/redisstore.go).  The maps of the  *)
(* in-memory store are keys with a time to live, which a few operations    *)
(* renew; two sets that do not expire list the usernames and connections   *)
(* for Stats.  Each operator is one script or transaction, which Redis     *)
(* runs alone, or one command.                                             *)
(*                                                                         *)
(* A call that fails has either had its effect ("lost": the reply is) or   *)
(* not ("failed"); the caller cannot tell.                                 *)
(***************************************************************************)
EXTENDS RelayTypes, Naturals

CONSTANT TTL   \* defaultRedisTTL in ticks of the clock

ASSUME TTLAssumption == TTL \in Nat \ {0}

VARIABLES
  waiting,     \* username -> value of the key waitingPrefix+username
  waitingTTL,  \* username -> what is left of its time to live
  peers,       \* connID -> value of the key peerPrefix+connID
  peersTTL,    \* connID -> what is left of its time to live
  waitingSet,  \* waitingSetKey
  pairedSet    \* pairedSetKey

waitingKeys == <<waiting, waitingTTL, waitingSet>>
peerKeys == <<peers, peersTTL, pairedSet>>
storeVars == <<waitingKeys, peerKeys>>

Outcome == {"ok", "lost", "failed"}

StoreTypeOK ==
  /\ waiting \in [Usernames -> Conns \cup {NoConn}]
  /\ waitingTTL \in [Usernames -> 0 .. TTL]
  /\ peers \in [Conns -> Conns \cup {NoConn}]
  /\ peersTTL \in [Conns -> 0 .. TTL]
  /\ waitingSet \subseteq Usernames
  /\ pairedSet \subseteq Conns

NewRedisStore ==
  /\ waiting = [u \in Usernames |-> NoConn]
  /\ waitingTTL = [u \in Usernames |-> 0]
  /\ peers = [c \in Conns |-> NoConn]
  /\ peersTTL = [c \in Conns |-> 0]
  /\ waitingSet = {}
  /\ pairedSet = {}

--------------------------------------------------------------------------------
(* Usernames and the servers that wait.                                      *)

\* What setWaitingScript returns.
Evicted(u, c) == IF waiting[u] = c THEN NoConn ELSE waiting[u]

\* A slip of SetWaiting: the key is set without "EX".
SetWaitingForever(u, c) ==
  /\ waiting' = [waiting EXCEPT ![u] = c]
  /\ waitingSet' = waitingSet \cup {u}
  /\ UNCHANGED waitingTTL

SetWaiting(u, c) ==
  /\ waiting' = [waiting EXCEPT ![u] = c]
  /\ waitingTTL' = [waitingTTL EXCEPT ![u] = TTL]
  /\ waitingSet' = waitingSet \cup {u}

\* GetWaiting renews the key; Expire of a key that is gone does nothing.
RenewWaiting(u) ==
  /\ waitingTTL' = [waitingTTL EXCEPT ![u] = IF waiting[u] = NoConn THEN 0 ELSE TTL]
  /\ UNCHANGED <<waiting, waitingSet>>

\* The username is no longer listed, whether or not its key was still there.
DeleteWaiting(u) ==
  /\ waiting' = [waiting EXCEPT ![u] = NoConn]
  /\ waitingTTL' = [waitingTTL EXCEPT ![u] = 0]
  /\ waitingSet' = waitingSet \ {u}

\* A slip of RemoveWaiting: the key is deleted whatever connection it names.
RemoveWaitingAny(u, c) == DeleteWaiting(u)

RemoveWaiting(u, c) == IF waiting[u] = c THEN DeleteWaiting(u) ELSE UNCHANGED waitingKeys

--------------------------------------------------------------------------------
(* Pairs.                                                                    *)

\* The transaction of CreatePair, without its first two commands: DeleteWaiting.
SetPeers(s, c) ==
  /\ peers' = [peers EXCEPT ![s] = c, ![c] = s]
  /\ peersTTL' = [peersTTL EXCEPT ![s] = TTL, ![c] = TTL]
  /\ pairedSet' = pairedSet \cup {s, c}

\* GetPeer's pipeline renews two keys with one command each.
RenewPeer(c) ==
  /\ peersTTL' = [peersTTL EXCEPT ![c] = IF peers[c] = NoConn THEN 0 ELSE TTL]
  /\ UNCHANGED <<peers, pairedSet>>

\* A slip of RemovePair: the members of the paired set are removed, the peer's key not.
RemovePairOneKey(c) ==
  /\ peers[c] # NoConn
  /\ peers' = [peers EXCEPT ![c] = NoConn]
  /\ peersTTL' = [peersTTL EXCEPT ![c] = 0]
  /\ pairedSet' = pairedSet \ {c, peers[c]}

RemovePair(c) ==
  /\ peers' = [d \in Conns |-> IF d = c \/ d = peers[c] THEN NoConn ELSE peers[d]]
  /\ peersTTL' = [d \in Conns |-> IF d = c \/ d = peers[c] THEN 0 ELSE peersTTL[d]]
  /\ pairedSet' = IF peers[c] = NoConn THEN pairedSet ELSE pairedSet \ {c, peers[c]}

--------------------------------------------------------------------------------
\* Time passes in Redis: keys whose time is up are gone, the sets stay as they are.
Expire ==
  /\ waitingTTL' = [u \in Usernames |-> IF waitingTTL[u] = 0 THEN 0 ELSE waitingTTL[u] - 1]
  /\ waiting' = [u \in Usernames |-> IF waitingTTL[u] = 1 THEN NoConn ELSE waiting[u]]
  /\ peersTTL' = [c \in Conns |-> IF peersTTL[c] = 0 THEN 0 ELSE peersTTL[c] - 1]
  /\ peers' = [c \in Conns |-> IF peersTTL[c] = 1 THEN NoConn ELSE peers[c]]
  /\ UNCHANGED <<waitingSet, pairedSet>>

\* The connections that lose a key when time passes.
Expiring ==
  {c \in Conns : peersTTL[c] = 1 \/ \E u \in Usernames : waiting[u] = c /\ waitingTTL[u] = 1}
================================================================================
