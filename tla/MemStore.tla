------------------------------- MODULE MemStore -------------------------------
(***************************************************************************)
(* The in-memory Store (internal/connections/memstore.go): which server    *)
(* connection waits for each username, and which connection is paired with *)
(* which.  Every method holds the store's mutex from its first to its last *)
(* statement, so each one is a single step; it is written here as a        *)
(* formula over waiting and peers that the Manager's critical sections     *)
(* conjoin.  A missing map key (Go's "") is NoConn.                        *)
(***************************************************************************)

EXTENDS RelayTypes

VARIABLES
  waiting,    \* username -> connID of the server waiting for a client
  peers       \* connID -> connID of its peer, entered in both directions

storeVars == <<waiting, peers>>

StoreTypeOK ==
  /\ waiting \in [Usernames -> Conns \cup {NoConn}]
  /\ peers \in [Conns -> Conns \cup {NoConn}]

NewMemStore ==
  /\ waiting = [u \in Usernames |-> NoConn]
  /\ peers = [c \in Conns |-> NoConn]

(***************************************************************************)
(* SetWaiting overwrites the entry and returns the connection it evicts,   *)
(* unless that is the connection itself.                                   *)
(***************************************************************************)
Evicted(u, c) == IF waiting[u] = c THEN NoConn ELSE waiting[u]

\* A slip of SetWaiting: the entry is not keyed by the username.
SetWaitingUnkeyed(u, c) ==
  /\ waiting' = [v \in Usernames |-> c]
  /\ UNCHANGED peers

SetWaiting(u, c) ==
  /\ waiting' = [waiting EXCEPT ![u] = c]
  /\ UNCHANGED peers

\* RemoveWaiting deletes the entry only if it still names this connection.
RemoveWaiting(u, c) ==
  waiting' = [waiting EXCEPT ![u] = IF @ = c THEN NoConn ELSE @]

\* A slip of CreatePair: the server is left waiting.
CreatePairStillWaiting(s, c, u) ==
  /\ UNCHANGED waiting
  /\ peers' = [peers EXCEPT ![s] = c, ![c] = s]

CreatePair(s, c, u) ==
  /\ waiting' = [waiting EXCEPT ![u] = NoConn]
  /\ peers' = [peers EXCEPT ![s] = c, ![c] = s]

\* A slip of RemovePair: the peer's entry is left.
RemovePairOneSided(c) == peers' = [peers EXCEPT ![c] = NoConn]

\* RemovePair deletes the entries of the connection and of the peer it names.
RemovePair(c) ==
  peers' = [d \in Conns |-> IF d = c \/ d = peers[c] THEN NoConn ELSE peers[d]]
===============================================================================
