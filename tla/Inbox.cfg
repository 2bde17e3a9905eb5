SPECIFICATION Spec
CONSTANTS
  e1 = e1  e2 = e2  e3 = e3  s1 = s1  s2 = s2
  Events <- MCEvents
  Ts <- MCTs
  MediaEvents <- MCMedia
  Sessions <- MCSessions
  Nobody = Nobody
  Policies <- MCPolicies
  DiskFaults <- FaultyPolicies
  MaxSeq = 3
  MaxClock = 2
  MaxRestarts = 1
SYMMETRY SessionSymmetry
CHECK_DEADLOCK FALSE
INVARIANTS OneEntryPerEvent CursorNeverReused NotNewOnceMarked ProcessedMarkKept
PROPERTIES NothingExpiredHandedOut ReofferedStaysEvicted
