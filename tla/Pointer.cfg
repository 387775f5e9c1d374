SPECIFICATION Spec
CONSTANTS
  IntMin <- MCIntMin
  IntMax <- MCIntMax
  Deltas <- MCDeltas
  Half = 3
  Low = 3
  MaxSpeed = 1
  Capacity = 2
  Modulus = 4
  Masks <- MCMasks
  Pressable = {"BTN1"}
INVARIANTS
  MotionConserved
  ButtonsReachGuest
PROPERTIES
  PointerSettles
