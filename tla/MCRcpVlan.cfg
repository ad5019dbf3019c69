\* One session, a switch of two ports and a table that is never full.
SPECIFICATION Spec
CONSTANTS
  Sessions = {cli}
  NumPorts = 2
  MgtPort = 2
  MAX_RCP_VLAN_NUM = 3
  Vids = {2, 3}
  PortLists <- Lists
  MaxCommands = 3
  MaxFaults = 1
INVARIANTS
  PortsKeepVlan
  PvidIsMember
PROPERTIES
  CacheCatchesUp
