\* The promise to the camera and the liveness of the loan, for the scenes whose
\* reads are fenced. Three buffers: the fewest camera_start accepts.
SPECIFICATION FairCameraSpec
CONSTANTS
  NBuf = 3
  MaxInFlight = 2
  Backends <- MCFenced
  SyncMayFail = FALSE
  StatMod = 2
INVARIANT
  NoScribble
PROPERTIES
  ImplementsLease
  DroppedNeverShown
  RetiringEnds
  LatestGetsShown
  DriverFed
  FramesKeepComing
