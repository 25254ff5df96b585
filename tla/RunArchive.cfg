SPECIFICATION LiveSpec
CONSTANT
  MaxFaults = 2
INVARIANT
  TypeOK
PROPERTIES
  DeletionSticks
  ArchiveCatchesUp
CHECK_DEADLOCK FALSE
