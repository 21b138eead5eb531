\* One browser, two sessions, two workers, one message; one failing write
\* and one crash.
CONSTANTS
  s1 = s1  s2 = s2  e1 = e1  m1 = m1  m2 = m2  w1 = w1  w2 = w2  None = None
  Session = {s1, s2}
  Endpoint = {e1}
  Message = {m1}
  Worker = {w1, w2}
  MaxTries = 2
  Lease = 3
  Timeout = 2
  Lifetime = 6
  RetryAfter = {0, 3}
  MaxId = 2
  LastSave = 0
  MaxTime = 7
  MaxRestarts = 1
  MaxFaults = 1
SPECIFICATION Spec
INVARIANTS AttemptsAreBounded RepeatsAreExcused SignedOutOwnsNothing JobsFollowOwner NoJobIsLeft
 
SYMMETRY Symmetry
CHECK_DEADLOCK FALSE
