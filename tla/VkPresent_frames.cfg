\* Two lanes, as in the code, and three images; resizes and stale swapchains at
\* any time; five frames, so that each lane is used twice and reused.
SPECIFICATION FairSpec
CONSTANTS
  NLanes = 2
  NImages = 3
  Sizes <- MCSizes
  MaxFrames = 5
INVARIANTS
  SerialDoneExact
  LaneExclusive
  NoTear
  RenderDoneClean
PROPERTY
  FrameEnds
