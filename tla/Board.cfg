SPECIFICATION MCSpec
CONSTANTS
  Steps = {2, 3}
  Quantum = 2
  MaxIdle = 3
  Durations = {5, 8}
  ApLatency = 4
  SectorPeriod = 7
  Never = 99
  CounterTop = 1
  Prescale = 3
  TimerQuantum = 2
  TimerIdle = 4
  Cycles = {4}
  Values = {1}
  Modes = {0, 3}
  RtcKey <- MCRtcKey
  RtcStarts <- MCRtcStarts
  RtcWrites <- MCRtcWrites
  RtcPhase = 1
  RtcTicks = 1
  AudioSectors <- MCAudioSectors
  RingFrames = 2
  IndexTop = 6
  Capacities = {1, 4}
  MaxSectors = 2
  MaxRows = 2
  Colours = {1, 2}
  Scales = 2
  MaxFields = 2
  MaxDraws = 2
  MaxFaults = 2
  Shades = {1, 2}
  SharePublished = 2
  Periods <- MCPeriods
  JobLimit = 4
  MaxPumps = 3
  MaxQuanta = 20
  TopLevel = 2
  Vectors = {1}
  MaxFrames = 2
  StuckLimit = 2
  LoopLength = 6
  JobFrom = 1
  JobTo = 2
  SpanFrom = 3
  SpanAsked = 5
  SpanTo = 5
  SpanCount = 1
  YieldEvery = 2
  StopSlots = 2
  StopRequests <- MCStops
  MaxCommands = 2
  MaxStopFrame = 1
  ApertureWords = 4
  Dmactl = 2
  RamEnd = 4
  DmaStarts = {0, 2}
  DmaCounts = {3, 4}
  DmaOffsets = {0, 3}
  MaxBursts = 2
  PageBytes = 2
  PagesPerBank = 2
  RamBank1Base = 6
  ResetSsp = 4
  CosimOps <- MCCosimOps
  Comparisons <- MCComparisons
  TraceRecords = 2
  StopSeq = 3
  QueriesWait = TRUE
  SpanWords <- MCSpanWords
  CrcStarts <- MCCrcStarts
  OldWords <- MCOldWords
  CountStarts = {0, 32, 33}
  YieldWords = 4
INVARIANTS
  SkipIsTicking
  BatteryImageWhole
  RingIsQueue
  ScreenIsCurrent
  CopyIsWhole
  JobIsTicking
  GuardMatchesStack
  DivergenceLocalized
  SpanIsFirmware
PROPERTIES
  ImplementsTimers
  ClockKeepsTime
  RequestIsServed
  StopsHold
  DmaBlockWhole
CHECK_DEADLOCK FALSE
