------------------------------ MODULE RelayTypes ------------------------------
(***************************************************************************)
(* The identifiers that the components of the relay share.  They are       *)
(* opaque: the relay compares usernames, connection IDs and installation   *)
(* IDs for equality and does nothing else with them.                       *)
(***************************************************************************)

CONSTANTS
  Conns,           \* WebSocket connections: each gets a fresh UUID as its connID
  NoConn,          \* no connection: the "" or nil of a missing map entry
  Usernames,       \* usernames that messages can name
  ValidUsernames,  \* those that protocol.IsValidUsername's pattern accepts
  NoUser,          \* the "" of a Conn whose Username is not set
  Installs,        \* installation IDs
  NoInstall        \* a username without a row in the registry

ASSUME RelayTypesAssumption ==
  /\ NoConn \notin Conns
  /\ ValidUsernames \subseteq Usernames
  /\ NoUser \notin Usernames
  /\ NoInstall \notin Installs
===============================================================================
