SPECIFICATION Spec
CONSTANTS
  Ids = {scribe}
  Callers = {c1, c2}
  MaxBoxes = 3
  MaxDids = 3
  MaxSeconds = 2
  MaxVerbs = 4
  FaultSets <- MCFaultSets
CHECK_DEADLOCK FALSE
INVARIANTS SessionHasContainer ReportedDidIsOwn
