SPECIFICATION Spec
CONSTANTS
  b1 = b1  b2 = b2  u1 = u1  u2 = u2  s1 = s1  s2 = s2
  Broadcast = {b1, b2}
  Customer = {u1, u2}
  Sender = {s1, s2}
  Cap = 2
  MaxTrouble = 1
  MaxMutes = 1
  None = None
SYMMETRY Alike
CHECK_DEADLOCK FALSE
INVARIANTS
  NobodyTwice
  ShownIsRecorded
  CountersAddUp
  CapHolds
