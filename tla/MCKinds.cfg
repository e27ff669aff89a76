SPECIFICATION Spec
CONSTANTS
  a = a
  b = b
  m = m
  w = w
  x1 = x1
  x2 = x2
  NoSubject = NoSubject
  NoNode = NoNode
  Unset = Unset
  FreshId = FreshId
  Subjects <- MCSubjects
  SddkSubjects <- MCSddk
  PropKeys <- MCPropKeys
  PropValues <- MCPropValues
  EventIds <- MCEventIds
  Events <- AllKinds
  Patches <- NoPatches
  Clients = {c1}
  MaxLog = 4
INVARIANTS
  EndpointsExist
  OnlyTheseTear
  GraphIsProjectionOfLog
