SPECIFICATION FairSpec
CONSTANTS
  Tasks = {"main", "other"}
  Scenarios <- MCScenarios
  Ids = {i1, i2, i3}
  NoId = NoId
  Devices = {d1, d2}
  Home = d1
  NoDev = NoDev
  MaxFatal = 2
CHECK_DEADLOCK FALSE
INVARIANTS GrantsSpentOnce
PROPERTIES KeeperKeepsDevice MasterKept Reconnects
