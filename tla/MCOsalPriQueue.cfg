\* Two producers that put twice each; a queue of two lists.
SPECIFICATION QueueSpec
CONSTANTS
  Producers = {p1, p2}
  Consumer = consumer
  NoThread = nothread
  PriNum = 2
  Depth = 2
  MaxPuts = 2
INVARIANTS
  GetFindsMessage
  DepthOvershootBounded
PROPERTIES
  ImplementsFairPriQueue
\* All puts may be done.
CHECK_DEADLOCK FALSE
