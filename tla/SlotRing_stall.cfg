\* A compositor that asks for the next frame before it returns a buffer.
SPECIFICATION FairSpec
CONSTANTS
  NSlots = 2
  Sizes <- MCSizes
  DefaultSize = 1
  Modes <- MCListener
  Compositors <- MCSlow
  MaxGens = 2
  MaxConfigures = 1
PROPERTY
  SkipIsRetried
