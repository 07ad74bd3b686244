\* The clock stops at MaxTime.
SPECIFICATION RSpec
CONSTANTS
  Callers = {a, b}
  Limit = 1
  Window = 2
  MaxStall = 2
  MaxTime = 5
  MaxFailures = 1
INVARIANTS RTypeOK WindowLimit RedisWindowLimit MembersBacked
PROPERTY NoFalseDenial
CHECK_DEADLOCK FALSE
