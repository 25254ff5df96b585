SPECIFICATION Spec
CONSTANTS
  Calls = {c1, c2}
  Keys = {k1}
  NoKey = NoKey
  Modes <- StrictOnly
  MaxFaults = 0
  MaxRestarts = 0
INVARIANT
  RejectedStaysOffBus
CHECK_DEADLOCK FALSE
