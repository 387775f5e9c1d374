SPECIFICATION HostSpec
CONSTANTS
  CommandBytes = 2
  ReplyBytes = 2
  DeferTicks = 2
  PointerTicks = 3
  MaxIdle = 2
  DiscCommands = {"E1", "B0", "B1", "C5", "other"}
  Masks <- BoardMasks
  SystemUsed = TRUE
  PointerUsed = TRUE
  MaxMedia = 2
INVARIANTS ReplyReachesHost NothingOverslept MediaSettles
PROPERTIES BusyBeforeOnTarget HandshakeCompletes
