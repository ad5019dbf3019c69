CONSTANTS
  s1 = s1
  s2 = s2
  Sessions <- SomeSessions
  NumPorts = 2
  Commands <- SomeCommands
  gusSwitchCfgRegAddrArray <- SavedRegisters
  EepromBytes = {0, 1}
  MaxInputs = 3
SPECIFICATION Spec
INVARIANTS SavedIsTrue
PROPERTIES SettingsKept LoopsAreCut
\* With no inputs left nothing may remain to be done.
CHECK_DEADLOCK FALSE
