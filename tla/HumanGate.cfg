SPECIFICATION LiveSpec
CONSTANTS
  Deciders = {d1}
  AlertKeys = {"manualConfirm", "finalizePlan"}
  MaxDepth = 4
  MaxLosses = 1
  MaxFaults = 1
INVARIANTS
  TypeOK
  OneWaiterPerGate
  SuspendedHasWaiter
  CardWhileUndecided
PROPERTY
  ChainEnds
CHECK_DEADLOCK FALSE
