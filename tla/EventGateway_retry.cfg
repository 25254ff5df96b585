SPECIFICATION Spec
CONSTANTS
  Calls = {c1, c2}
  Keys = {k1}
  NoKey = NoKey
  Modes <- StrictOnly
  MaxFaults = 2
  MaxRestarts = 0
INVARIANT
  RetryIsNotDropped
CHECK_DEADLOCK FALSE
