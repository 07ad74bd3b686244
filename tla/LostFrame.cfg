\* One legacy sender and one client.
SPECIFICATION MCSpec
CONSTANTS
  m1 = m1
  m2 = m2
  m3 = m3
  p1 = p1
  p2 = p2
  server = server
  end1 = end1
  end2 = end2
  Senders = {p1}
  LegacySenders = {p1}
  Targets = {end2}
  TargetOf <- OneTarget
  Clients = {a}
  Bytes = {0, 1, 2}
  UUIDLen = 2
  MaxData = 2
  MaxPending = 2
  MaxSize = 2
  MaxFrames = 3
INVARIANT NoLostFrame
CHECK_DEADLOCK FALSE
