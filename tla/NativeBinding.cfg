SPECIFICATION Spec
CONSTANTS
  RamWords = 4
  Bank1 = 4
  Zero = Zero
  Sync = Sync
  H2 = H2
  H3 = H3
  Other2 = Other2
  Values = {Zero, Sync, H2, H3}
  SizeOf <- MCSizeOf
  Sealed = {H2, H3}
  MinSize = 2
  Modules <- MCModules
  NoModule = NoModule
  Capacity = 2
  ServiceHle = TRUE
  MaxEpoch = 2
  MaxResets = 1
  MaxTokens = 1
INVARIANTS
  BoundImageInRam
  TokensAreSafe
  CachesCurrent
PROPERTIES
  ResolveComplete
CHECK_DEADLOCK FALSE
