SPECIFICATION ArmSpec
CONSTANTS
  NoDisc = NoDisc
  Discs = {}
  SeekTargets = {}
  Files = {0}
  Masks = {}
  AudioMasks = {}
  IerMasks = {}
  BmanWrites <- HandOff
  Commands = {"ACK", "ARM"}
  SectorTicks = 1
  AudioTicks = 2
  ApTicks = 2
PROPERTIES
  ArmCompletes
