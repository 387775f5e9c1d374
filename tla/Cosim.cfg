INIT CosimInit
NEXT CosimNext
CONSTANTS
  PageBytes = 2
  PagesPerBank = 2
  RamBank1Base = 6
  ResetSsp = 4
  CosimOps <- MCCosimOps
  Comparisons <- MCComparisons
  TraceRecords = 2
  StopSeq = 3
  QueriesWait = FALSE
INVARIANTS
  CacheUndisturbed
CHECK_DEADLOCK FALSE
