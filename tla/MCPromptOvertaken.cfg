SPECIFICATION ConversationSpec
CONSTANTS
  t1 = t1
  t2 = t2
  t3 = t3
  Threads <- MCThreads
  ModelNames = {"named", "unnamed"}
  MaxMention = 0
  MaxItems = 15
  MaxCalls = 0
SYMMETRY MCSymmetry
INVARIANT PromptAlwaysLast
