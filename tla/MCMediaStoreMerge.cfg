\* A message is merged while its attachment is downloaded.
CONSTANTS
  a1 = a1  a2 = a2  u1 = u1  w1 = w1  w2 = w2  r1 = r1  r2 = r2  None = None
  Attachment = {a1, a2}
  Upload = {}
  Worker = {w1, w2}
  Reader = {}
  Twins <- Merged
  QueueCap = 1
  MaxTotal = 2
  MaxTemp = 1
  MaxTries = 2
  LateRefs = FALSE
  MaxFaults = 0
  MaxRestarts = 0
  MaxMoves = 0
SPECIFICATION Spec
PROPERTY StoredIsKept
CHECK_DEADLOCK FALSE
