\* Two calls that may share a key or an upload, one failing write, one crash.
CONSTANTS
  r1 = r1  r2 = r2  k1 = k1  k2 = k2  u1 = u1  u2 = u2  t1 = t1  w1 = w1  w2 = w2  None = None
  Request = {r1, r2}
  Key = {k1, k2}
  Upload = {u1}
  Text = {t1}
  Worker = {w1}
  QueueCap = 1
  MaxAttempts = 2
  MaxSession = 2
  MaxRestarts = 1
  MaxFaults = 1
SPECIFICATION Spec
INVARIANTS AtMostOnce OneMessagePerKey AnswerMatches
PROPERTY KeepsPromise
SYMMETRY Symmetry
CHECK_DEADLOCK FALSE
