SPECIFICATION FramesSpec
CONSTANTS
  t1 = t1
  t2 = t2
  Threads <- MCThreads
  ModelNames = {"named", "unnamed"}
  MaxMention = 0
  MaxItems = 6
  MaxCalls = 1
  FrameIds = {"f1"}
  MaxTurns = 2
  TokenBudgets = {0, 2}
SYMMETRY MCSymmetry
INVARIANTS
  BudgetsHold
  UsageBacked
PROPERTY FirstCloseWins
