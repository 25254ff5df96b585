SPECIFICATION Spec
CONSTANTS
  Clients = {b1, b2}
  MaxEvents = 2
  MaxBuffer = 8
  MaxFaults = 0
  MaxRestarts = 0
INVARIANT
  NobodyStranded
