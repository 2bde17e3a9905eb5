SPECIFICATION GatingFairSpec
CONSTANTS
  Targets = {"ann", "bob"}
  Scenarios <- MCScenarios
  MaxAsked = 2
  MaxRuns = 2
  MaxCalls = 2
  MaxDms = 3
CHECK_DEADLOCK FALSE
INVARIANTS EntryHasAsker
PROPERTIES AnswerReachesItsAsker EveryCallAnswered
