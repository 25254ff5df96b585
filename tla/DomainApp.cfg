SPECIFICATION Spec
CONSTANTS
  Agents = {a1, a2}
  Keepalive = keepalive
  Requests = {r1, r2}
  MaxFaults = 2
INVARIANTS
  TypeOK
  InSync
  NeverRed
PROPERTY OfflineStaysOffline
