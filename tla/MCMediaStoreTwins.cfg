\* Two copies of a message, downloaded by two workers and merged at any time;
\* one fault.
CONSTANTS
  a1 = a1  a2 = a2  u1 = u1  w1 = w1  w2 = w2  r1 = r1  r2 = r2  None = None
  Attachment = {a1, a2}
  Upload = {}
  Worker = {w1, w2}
  Reader = {}
  Twins <- Merged
  QueueCap = 1
  MaxTotal = 2
  MaxTemp = 2
  MaxTries = 1
  LateRefs = TRUE
  MaxFaults = 1
  MaxRestarts = 0
  MaxMoves = 0
SPECIFICATION FairSpec
INVARIANT ReadyHasObject
PROPERTY DownloadsEnd
CHECK_DEADLOCK FALSE
