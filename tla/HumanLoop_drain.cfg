SPECIFICATION Spec
CONSTANTS
  Msgs = {m1, m2}
  Says = {"steer", "run_cases", "redo_cases", "classify", "scrambled"}
  MaxTurns = 2
  MaxCalls = 2
  MaxTicks = 1
  MaxFollowUps = 0
  MaxFaults = 0
INVARIANT
  DrainTakesAll
CHECK_DEADLOCK FALSE
