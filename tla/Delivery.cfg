\* The legacy senders stop after MaxFrames frames.
SPECIFICATION MCSpec
CONSTANTS
  m1 = m1
  m2 = m2
  m3 = m3
  p1 = p1
  p2 = p2
  server = server
  end1 = end1
  end2 = end2
  Senders = {m1, m2, m3, p1, p2}
  LegacySenders = {p1, p2}
  Targets = {server, end1, end2}
  TargetOf <- AllTargets
  Clients = {a}
  Bytes = {0, 1, 2}
  UUIDLen = 2
  MaxData = 2
  MaxPending = 2
  MaxSize = 1
  MaxFrames = 3
INVARIANTS TypeOK PendingExact RingBound KeepsLatest HeaderExact
CHECK_DEADLOCK FALSE
