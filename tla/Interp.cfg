SPECIFICATION MCSpec
CONSTANTS
  ByteBits = 4
  Ten = 3
  TopLevel = 3
  Guard = 1
  EntryPc = 80
  StopPc = 0
  Ram <- MCRam
  Handler <- MCHandler
  Instructions <- MCInstructions
  Entries <- MCEntries
  Known = {120}
  Operands <- MCOperands
  Plain <- MCPlain
  JobEntries <- MCJobEntries
  TableOffset = 4
  ErrorCode = 14
  Dma <- MCDma
  MaxEvents = 1
INVARIANTS
  ArithmeticExact
  FramesRestore
  TimeConserved
  JobIsFirmware
CHECK_DEADLOCK FALSE
