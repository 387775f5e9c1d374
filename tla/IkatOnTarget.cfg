SPECIFICATION FairSpec
CONSTANTS
  CommandBytes = 2
  ReplyBytes = 2
  DeferTicks = 2
  PointerTicks = 3
  MaxIdle = 2
  DiscCommands = {"E1", "B0", "B2"}
  Masks = {}
  SystemUsed = FALSE
  PointerUsed = FALSE
  MaxMedia = 0
PROPERTIES OnTargetFollowsBusy
