\* One kind of input at a time, up to eight events.
SPECIFICATION Spec
CONSTANTS
  Inputs <- MCInputs
  MaxWire = 2
  TimeMod = 4
  Period = 5
  SpeedLimit = 2
  ZoomLimit = 2
  SplitBatches = FALSE
INVARIANTS
  ControlsFollowUser
  WaitsIdle
PROPERTY
  ClockTrue
\* The program stops when the window is closed.
CHECK_DEADLOCK FALSE
