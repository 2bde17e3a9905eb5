SPECIFICATION FairSpec
CONSTANTS
  s = s  t = t  ann = ann  bob = bob
  Sessions = {s, t}
  People = {ann, bob}
  Flaky = {bob}
  MaxCount = 1
  Window = 1
  MaxTime = 1
  MaxSends = 2
  MaxSeq = 2
CHECK_DEADLOCK FALSE
INVARIANTS BudgetKept RepliesFollowCursor
PROPERTIES AnswerEndsWait
