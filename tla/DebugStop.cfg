SPECIFICATION DebugSpec
CONSTANTS
  LoopLength = 6
  JobFrom = 1
  JobTo = 2
  SpanFrom = 3
  SpanAsked = 5
  SpanTo = 5
  SpanCount = 1
  YieldEvery = 2
  StopSlots = 2
  StopRequests <- MCRaceStops
  MaxCommands = 3
  MaxStopFrame = 1
INVARIANTS
  StopNotPassed
CHECK_DEADLOCK FALSE
