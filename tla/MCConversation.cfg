SPECIFICATION ConversationSpec
CONSTANTS
  t1 = t1
  t2 = t2
  t3 = t3
  Threads <- MCThreads
  ModelNames = {"named", "unnamed"}
  MaxMention = 1
  MaxItems = 7
  MaxCalls = 1
SYMMETRY MCSymmetry
INVARIANTS
  TurnsAnswered
  PromptIsLast
  HistoryInOrder
  TurnsConsecutive
