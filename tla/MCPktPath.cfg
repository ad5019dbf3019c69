\* Safety, and the end of the round trips.
SPECIFICATION Spec
CONSTANTS
  Bufs = {b1, b2, b3}
  Null = null
  MaxPkts = 3
  PktCapacity = 2
  RcpCapacity = 1
  RcpQueueMayFail = TRUE
INVARIANTS
  BuffersOwned
  ExactlyOnce
  InOrder
PROPERTIES
  PacketsEnd
\* All packets may have been handled.
CHECK_DEADLOCK FALSE
