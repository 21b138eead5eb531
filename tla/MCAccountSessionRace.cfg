\* A second login starts while the first one is ending.
CONSTANTS
  a1 = a1  a2 = a2  None = None
  Account = {a1}
  MaxAttempt = 2
  MaxEvents = 0
  MaxRestarts = 0
  MaxFaults = 0
SPECIFICATION FairSpec
PROPERTY PairedIsRefused
CHECK_DEADLOCK FALSE
