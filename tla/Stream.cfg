SPECIFICATION StreamSpec
CONSTANTS
  MaxPieces = 6
  Cap = 2
  Floor = 1
  FirstMin = 2
  MaxMessages = 3
  Attempts = 3
  MaxWait = 2
  Cooldown = 2
  MaxTicks = 4
  MaxDeaths = 2
  Scenarios <- MCScenarios
CHECK_DEADLOCK FALSE
INVARIANTS ReportedIsShown FrozenJoinUp RefusalsBounded
