\* A resize seen after a successful acquire.
SPECIFICATION Spec
CONSTANTS
  NLanes = 2
  NImages = 3
  Sizes <- MCSizes
  MaxFrames = 2
INVARIANT
  AvailClean
