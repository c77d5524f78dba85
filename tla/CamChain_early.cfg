\* The transition of the window image against the compositor's read.
SPECIFICATION Spec
CONSTANTS
  Scenes <- MCVk
  NBuf = 2
  NImages = 3
  NLanes = 2
  Looks <- MCPlain
  MaxFrames = 3
  MaxPics = 0
INVARIANT
  TransitionsInTurn
