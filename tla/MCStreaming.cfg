SPECIFICATION StreamSpec
CONSTANTS
  r1 = r1
  r2 = r2
  Requests = {r1, r2}
  EventBound = 1
  DeltaBound = 1
  FrameBound = 1
  ToolRounds = 1
  MaxDeltas <- MCDeltas
PROPERTIES
  DeliversAnswerStream
  StreamsConclude
  SlowClientsBuffered
CHECK_DEADLOCK FALSE
