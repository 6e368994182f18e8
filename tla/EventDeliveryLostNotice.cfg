SPECIFICATION Spec
CONSTANTS
  NumEvents = 4
  Kind <- MCKind
  Peers = {peer1}
  BufferCap = 4
  OutboxMax = 4
  MaxFaults = 2
INVARIANT UndeliveredIsQueued
CHECK_DEADLOCK FALSE
