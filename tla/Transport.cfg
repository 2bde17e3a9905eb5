SPECIFICATION FairSpec
CONSTANTS
  c1 = c1  c2 = c2  c3 = c3
  Cmds = {c1, c2, c3}
  None = None
  Scenarios <- MCScenarios
  MaxAttempts = 2
  QueueCap = 2
  MaxClients = 2
CHECK_DEADLOCK FALSE
INVARIANTS ArriveInOrder OneClient
PROPERTIES KeepsPromise CallerTold
