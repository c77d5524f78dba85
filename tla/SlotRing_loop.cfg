\* The ring and the frame loop, both ways of learning about releases, both
\* kinds of compositor.
SPECIFICATION FairSpec
CONSTANTS
  NSlots = 2
  Sizes <- MCSizes
  DefaultSize = 1
  Modes <- MCModes
  Compositors <- MCCompositors
  MaxGens = 2
  MaxConfigures = 1
INVARIANTS
  FreeMeansReturned
  LoanEndsOnce
  DrawnWhenAcquired
  NoBufferLeak
  ContentMatchesAck
  OneCallback
PROPERTIES
  NeverDestroyHeld
  OrphansDie
  FramesGoOn
