SPECIFICATION HostsSpec
CONSTANTS
  NoDisc = NoDisc
  Discs <- MCDiscs
  SeekTargets = {0}
  Files = {0, 1, 256}
  Masks <- OneChannel
  AudioMasks <- OneChannel
  IerMasks <- MCIer
  BmanWrites <- MCBman
  Commands = {"RESET", "STARTQ", "STARTD", "DLOAD", "SEEK", "SEEK_AUDIO", "ASEL", "RESUME", "PAUSE", "ACK", "INTNOW", "MEMORY_PLAY", "AP_RESET", "PLAY", "ARM", "FINISH"}
  SectorTicks = 1
  AudioTicks = 2
  ApTicks = 2
INVARIANTS
  LineTellsEvents
  HandoffPlayedOnce
  RestIsQuiet
  NoSectorTwice
PROPERTIES
  OwnedBufferIntact
  StreamReachesHost
  PlaybackCompletes
