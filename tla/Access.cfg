SPECIFICATION Spec
CONSTANTS
  Scenarios <- MCScenarios
  Malformed = {}
  Self = "@bot"
  Events <- MCEvents
  Wanted = {"bob", "!team"}
  Mentioned = {"nobody", "@bob"}
  Ops = {"o1", "o2"}
  MaxEdits = 2
  MaxSeq = 1
  MaxMishaps = 2
CHECK_DEADLOCK FALSE
INVARIANTS InForceIsOnDisk ServedIsItsOwn
PROPERTIES GrantsFollowTheFile
