\* Two switches at two ports.  Discovery is 5 in the code.
SPECIFICATION Spec
CONSTANTS
  NumPorts = 2
  Macs = {m1, m2}
  NoMac = nomac
  Null = null
  KeepAlive = 2
  Discovery = 2
  MaxMoves = 4
  MaxUpsets = 1
  Registered = TRUE
PROPERTIES
  BackOnlyAfterOffline
  ToldCatchesUp
