\* The channel and the way out with RCP_Read_32bit_Reg as well.
SPECIFICATION Spec
CONSTANTS
  Threads = {t1, t2}
  Rcp = rcp
  Null = null
  Ops = {"read16", "read32", "write"}
  Regs = {r1, r2}
  ListSize = 1
  NumSems = 3
  MaxOps = 2
  ChannelSlow = TRUE
  ReplySlow = TRUE
INVARIANTS
  ChannelWidth
PROPERTIES
  OperationsEnd
\* All operations may be over, and the model stops where a freed node is used.
CHECK_DEADLOCK FALSE
