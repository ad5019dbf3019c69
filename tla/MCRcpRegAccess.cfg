\* Safety of RCP_Read_Reg and RCP_Write_Reg.
SPECIFICATION SafeSpec
CONSTANTS
  Threads = {t1, t2, t3}
  Rcp = rcp
  Null = null
  Ops = {"read16", "write"}
  Regs = {r1, r2}
  ListSize = 2
  NumSems = 2
  MaxOps = 3
  ChannelSlow = TRUE
  ReplySlow = TRUE
SYMMETRY Symmetry
INVARIANTS
  RightRegister
  NodesAndSems
  NeverUndefined
\* All operations may be over, and the model stops where a freed node is used.
CHECK_DEADLOCK FALSE
