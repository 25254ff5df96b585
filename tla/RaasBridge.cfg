SPECIFICATION Spec
CONSTANTS
  MaxEvents = 8
  MaxReplays = 1
  Relayed <- RelayedEvents
  FetchLimit = 2
  SeedLimit = 3
  SeenCap = 6
  SeenKeep = 5
  MaxOutages = 1
  MaxRestarts = 1
INVARIANTS
  TypeOK
  PushedOnce
  HistoryNotRefired
PROPERTIES
  LoopGoesOn
  WindowIsRelayed
  RelayHolds
