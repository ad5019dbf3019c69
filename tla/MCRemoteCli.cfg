SPECIFICATION Spec
CONSTANTS
  MaxLine = 7
  MaxHistory = 2
  Tree <- MCTree
  Sessions = {s1, s2}
  Texts <- MCTexts
  Commands <- MCCommands
  QueueDepth = 2
  TimeOut = 2
  MaxInputs = 4
INVARIANTS
  LineIsWhatWasTyped
  FullNamesRun
  ConfigNeedsPrivilege
  ShellFollowsSession
PROPERTIES
  SessionsEnd

