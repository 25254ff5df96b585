SPECIFICATION LiveSpec
CONSTANTS
  Msgs = {m1, m2}
  Says = {"run_cases", "redo_cases", "classify", "scrambled"}
  MaxTurns = 2
  MaxCalls = 2
  MaxTicks = 1
  MaxFollowUps = 1
  MaxFaults = 1
INVARIANTS
  TypeOK
  NoTurnWhileAsking
  OnlyTheUserApproves
  ActedOnOnce
PROPERTY
  RunEnds
CHECK_DEADLOCK FALSE
