SPECIFICATION Spec
CONSTANTS
  Contact = {0}
  w1 = w1
  w2 = w2
  r1 = r1
  Worker = {w1}
  Reader = {r1}
  QueueSize = 1
  MaxChanges = 1
  MaxAges = 1
  MaxPairings = 2
  MaxFaults = 1
  None = None
INVARIANT NoForeignAvatar
INVARIANT NothingLeaks
INVARIANT MarkedIsQueued
PROPERTY NoStaleWrite
CHECK_DEADLOCK FALSE
