\* Two media messages and one worker with a queue of one, and one crash.
CONSTANTS
  r1 = r1  r2 = r2  k1 = k1  k2 = k2  u1 = u1  u2 = u2  t1 = t1  w1 = w1  w2 = w2  None = None
  Request = {r1, r2}
  Key = {k1, k2}
  Upload = {u1, u2}
  Text = {}
  Worker = {w1}
  QueueCap = 1
  MaxAttempts = 2
  MaxSession = 1
  MaxRestarts = 1
  MaxFaults = 0
SPECIFICATION FairSpec
PROPERTY MediaSettles
CHECK_DEADLOCK FALSE
