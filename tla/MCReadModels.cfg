SPECIFICATION ReadModelsSpec
CONSTANTS
  Order <- MCOrder
  Facts <- MCFacts
  BySupport <- MCBySupport
  KindOrder <- MCKindOrder
  Kind <- MCKind
  Authority <- MCAuthority
  Size <- MCSize
  Stale = {"e"}
  Late = {"m"}
  Edited = {"d"}
  Values = {"v1", "v2"}
  Requests <- MCRequests
INVARIANTS
  WhyIsComplete
  ImpactIsExplicit
  PathIsShortest
  ContextIsExplained
PROPERTIES
  DiffIsExact
CHECK_DEADLOCK FALSE
