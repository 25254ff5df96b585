SPECIFICATION LiveSpec
CONSTANTS
  Calls = {c1, c2}
  Keys = {k1}
  NoKey = NoKey
  Modes <- AllModes
  MaxFaults = 3
  MaxRestarts = 1
INVARIANTS
  TypeOK
  AcceptedIsDelivered
  OneVerdictPerKey
  NoSilentLoss
  EnforcedModeValidates
PROPERTIES
  HistoryIsAppendOnly
  ContractHolds
  EveryCallAnswered
  DegradedEnds
CHECK_DEADLOCK FALSE
