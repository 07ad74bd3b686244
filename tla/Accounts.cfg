\* The clock stops at MaxTime.
SPECIFICATION Spec
CONSTANTS
  Conns = {}
  NoConn = NoConn
  Usernames = {u1}
  ValidUsernames = {u1}
  NoUser = NoUser
  Installs = {i1, i2}
  NoInstall = NoInstall
  Callers = {a, b}
  Keep = 6
  Expiry = 5
  MaxStall = 1
  MaxTime = 14
INVARIANTS TypeOK Provenance KeptWhileActive
CHECK_DEADLOCK FALSE
