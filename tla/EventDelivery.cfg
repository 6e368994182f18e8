SPECIFICATION FairSpec
CONSTANTS
  NumEvents = 4
  Kind <- MCKind
  Peers = {peer1, peer2}
  BufferCap = 2
  OutboxMax = 1
  MaxFaults = 3
INVARIANTS
  TypeOK
  IdPassesNothing
  DeliveredOnce
  QueuedIsKept
PROPERTY DoneArrives
CHECK_DEADLOCK FALSE
