\* All fifty cells, three inputs, two outputs, with and without sync files; the
\* wait for a token may run out.
SPECIFICATION FairSpec
CONSTANTS
  NOut = 2
  Total = 3
  Setups <- MCSetups
  MayTimeOut = TRUE
  MayGiveUp = FALSE
  MayFail = FALSE
  MayRefuse = TRUE
INVARIANTS
  NoOverrun
  ReadyMeansDone
  FdsAccounted
PROPERTIES
  ImplementsPromise
  CellEnds
