SPECIFICATION Spec
CONSTANTS
  u1 = u1
  s1 = s1
  r1 = r1
  Conns = {s1, s2, c1}
  NoConn = NoConn
  Usernames = {u1}
  ValidUsernames = {u1}
  NoUser = NoUser
  Installs = {i1}
  NoInstall = NoInstall
  TTL = 2
  Relays = {r1, r2}
  NoRelay = NoRelay
  Servers = {s1, s2}
  UserOf <- OneUser
  RelaysOf <- OneRoams
  MaxCrashes = 1
  MaxFaults = 1
INVARIANTS TypeOK IndexCovers PairsLocal LostOnlyWithExcuse
PROPERTY StaleOffersEnd
