\* Bookkeeping: nothing is lost, leaked or counted twice, whatever fails.
\* Five buffers: more than the application can hold.
SPECIFICATION Spec
CONSTANTS
  NBuf = 5
  MaxInFlight = 2
  Backends <- MCBackends
  SyncMayFail = TRUE
  StatMod = 2
INVARIANTS
  OneHolder
  NoStaleFence
  SyncsAccounted
  FramesAccounted
