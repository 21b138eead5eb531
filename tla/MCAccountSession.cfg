\* Two accounts, two logins, one event, one failing call, one crash.
CONSTANTS
  a1 = a1  a2 = a2  None = None
  Account = {a1, a2}
  MaxAttempt = 2
  MaxEvents = 1
  MaxRestarts = 1
  MaxFaults = 1
SPECIFICATION Spec
INVARIANTS LoginInv MemoryMatchesDatabase ConnectedIsPaired SessionOwnsIdentity NobodyIsStuck
PROPERTY EventsAreCurrent
SYMMETRY Symmetry
CHECK_DEADLOCK FALSE
