SPECIFICATION GovSpec
CONSTANTS
  a = a
  c = c
  project = project
  i1 = i1
  i2 = i2
  p1 = p1
  p2 = p2
  NoSubject = NoSubject
  NoNode = NoNode
  Unset = Unset
  FreshId = FreshId
  Malformed = Malformed
  Subjects <- MCSubjects
  SddkSubjects <- MCSddk
  PropKeys <- MCPropKeys
  PropValues <- MCPropValues
  EventIds <- MCEventIds
  Events <- MCEvents
  Gestures <- MCGestures
  Evaluations <- MCEvaluations
  Patches <- MCPatches
  Intents <- MCIntents
  Proposals <- MCProposals
  Cycles <- MCCycles
  Project = project
  Status = "status"
  Cursor = "ledger_sequence"
  Sequence <- MCSequence
  MaxLedger = 2
  MaxReceipts = 2
  MaxLength = 5
  MaxLives = 2
INVARIANTS
  AppliedAsPreviewed
  ReceiptsRecorded
  PullUpsEarned
  SyncIdempotent
  SyncReflectsLedger
PROPERTY ResolvedOnce
CHECK_DEADLOCK FALSE
