SPECIFICATION ReactiveSpec
CONSTANTS
  a = a
  b = b
  w = w
  v1 = v1
  v2 = v2
  v3 = v3
  v4 = v4
  NoSubject = NoSubject
  NoNode = NoNode
  Unset = Unset
  FreshId = FreshId
  Subjects <- MCSubjects
  SddkSubjects <- MCSddk
  WorkItems <- MCSddk
  Advisories <- MCAdvisories
  PropKeys <- MCPropKeys
  PropValues <- MCPropValues
  EventIds <- MCEventIds
  Events <- MCEvents
  Patches <- MCPatches
  Clients = {c1}
  MaxLog = 20
  MaxPosts = 5
INVARIANTS
  AdvisoriesMatchTriggers
PROPERTIES
  BehaviorsOnlyAdvise
  EveryTriggerAnswered
