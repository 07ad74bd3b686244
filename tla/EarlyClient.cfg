\* A finite set of connections is served and then the instance stops.
SPECIFICATION Spec
CONSTANTS
  s1 = s1
  s2 = s2
  c1 = c1
  c2 = c2
  c3 = c3
  u1 = u1
  u2 = u2
  i1 = i1
  i2 = i2
  Conns = {s1, c1}
  NoConn = NoConn
  Usernames = {u1}
  ValidUsernames = {u1}
  NoUser = NoUser
  Installs = {i1, i2}
  NoInstall = NoInstall
  Requests <- MultiRequests
  MaxHandshakes = 1
INVARIANT MultiNeverLegacy
CHECK_DEADLOCK FALSE
