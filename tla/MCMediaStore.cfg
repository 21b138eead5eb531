\* A download, an upload and two readers share a quota of one file; one fault,
\* one crash, one lost object, connection or replay, at most two of the three.
CONSTANTS
  a1 = a1  a2 = a2  u1 = u1  w1 = w1  w2 = w2  r1 = r1  r2 = r2  None = None
  Attachment = {a1}
  Upload = {u1}
  Worker = {w1}
  Reader = {r1, r2}
  Twins = {}
  QueueCap = 1
  MaxTotal = 1
  MaxTemp = 2
  MaxTries = 1
  LateRefs = FALSE
  MaxFaults = 1
  MaxRestarts = 1
  MaxMoves = 1
SPECIFICATION Spec
INVARIANTS TypeOK RoomIsKept UploadHasObject NothingLeaks
PROPERTY StoredIsKept
SYMMETRY Symmetry
CONSTRAINT TwoIncidents
CHECK_DEADLOCK FALSE
