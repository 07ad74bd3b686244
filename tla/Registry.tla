------------------------------- MODULE Registry -------------------------------
(***************************************************************************)
(* The username registry (internal/registry/registry.go): one row per      *)
(* username, naming the installation that owns it.  Every method holds the *)
(* registry's mutex for its whole body and is one step.  The timestamps of *)
(* a row and ReclaimInactive, which only runs before the server accepts    *)
(* connections, are left out of this module.                               *)
(***************************************************************************)

EXTENDS RelayTypes

VARIABLE usernames   \* username -> install_id of its row, or NoInstall

RegistryTypeOK == usernames \in [Usernames -> Installs \cup {NoInstall}]

NewRegistry == usernames = [u \in Usernames |-> NoInstall]

IsValidUsername(u) == u \in ValidUsernames

CanRegister(u, i) == IsValidUsername(u) /\ usernames[u] \in {NoInstall, i}

\* A slip of Register: trusting what CanRegister answered.
RegisterUnchecked(u, i) ==
  /\ IsValidUsername(u)
  /\ usernames' = [usernames EXCEPT ![u] = i]

\* Register looks the row up again under the mutex: CanRegister's answer may be old.
Register(u, i) ==
  /\ IsValidUsername(u)
  /\ usernames[u] \in {NoInstall, i}
  /\ usernames' = [usernames EXCEPT ![u] = i]

IsRegistered(u) == usernames[u] # NoInstall
===============================================================================
