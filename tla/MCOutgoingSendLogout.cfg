\* A logout between the check of the connection and the reservation.
CONSTANTS
  r1 = r1  r2 = r2  k1 = k1  k2 = k2  u1 = u1  u2 = u2  t1 = t1  w1 = w1  w2 = w2  None = None
  Request = {r1}
  Key = {k1}
  Upload = {u1}
  Text = {}
  Worker = {w1}
  QueueCap = 1
  MaxAttempts = 2
  MaxSession = 1
  MaxRestarts = 0
  MaxFaults = 0
SPECIFICATION FairSpec
PROPERTY PollingEnds
CHECK_DEADLOCK FALSE
