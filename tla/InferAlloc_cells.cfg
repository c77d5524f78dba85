\* The reference and two cells, of two iterations, on every set of drivers.
SPECIFICATION Spec
CONSTANTS
  BringUps <- MCBringUps
  GbmAccepts <- MCGbmAccepts
  EglLists <- MCEglLists
  VkLists <- MCVkLists
  MaxCells = 3
  MaxIters = 2
  MaxFd = 4
INVARIANTS
  MemoryIsLive
  NothingLeft
  PreferredLayout
