SPECIFICATION RoomsSpec
CONSTANTS
  Rooms = {1, 2, 3}
  Scenarios <- MCScenarios
  MaxSends = 1
  MaxArrivals = 1
  MaxCycles = 1
CHECK_DEADLOCK FALSE
INVARIANTS PersonGetsNoGroup DirectOnlyPrivate NoSecondDm
PROPERTIES LeavesOnlyAbandoned
