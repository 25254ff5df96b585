SPECIFICATION LiveSpec
CONSTANTS
  Clients = {b1, b2}
  MaxEvents = 2
  MaxBuffer = 2
  MaxFaults = 1
  MaxRestarts = 1
INVARIANTS
  TypeOK
  StopIsFinal
  HonestVerdict
  DoneOnce
  FramesInOrder
PROPERTIES
  TranscriptGrows
  SubscribersUnblock
  RowSettles
