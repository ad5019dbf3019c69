SPECIFICATION Spec
CONSTANTS
  Ports = {1}
  Vlans = {1}
  PonPort = 9
  ClearLimit = 1
  GaveUp = 3
  Policies = {0, 1}
  VidSettings = {0}
  WakeSettings <- MCWake
  MaxRequests = 2
  MaxFrames = 1
  MaxOperator = 1
  MaxFaults = 1
INVARIANTS ShutIsRecorded AlarmHasMark EndsOnlyTheTask
PROPERTIES PacketsGoOn PortsWake
\* A cancelled task may take the semaphore with it, and requests and frames are bounded.
CHECK_DEADLOCK FALSE
