\* All three scenes, with and without import; two lanes, three window images; three
\* frames, so that a lane is used twice.
SPECIFICATION Spec
CONSTANTS
  Scenes <- MCScenes
  NBuf = 2
  NImages = 3
  NLanes = 2
  Looks <- MCLooks
  MaxFrames = 3
  MaxPics = 2
INVARIANTS
  ShownIsChain
  LayoutsMatch
  DepthIsOwn
  BackWithCamera
