SPECIFICATION FairSpec
CONSTANTS
  MaxHolds = 2
  Ids = {d1, d2, d3}
  NoId = NoId
  Expiry = 6
  RefreshEvery = 2
  LeaveDelay = 4
  RestartEvery = 1
  RetryAfter = 1
  RequestTime = 1
  Faults <- SomeFaults
CHECK_DEADLOCK FALSE
PROPERTIES WritersInOrder ChainsEndWithLeave ComesBack
