\* A GL allocation that fails before it has a descriptor.
SPECIFICATION Spec
CONSTANTS
  BringUps <- MCBringUps
  GbmAccepts <- MCGbmAccepts
  EglLists <- MCEglLists
  VkLists <- MCVkLists
  MaxCells = 2
  MaxIters = 1
  MaxFd = 4
INVARIANT
  OwnFdsOnly
