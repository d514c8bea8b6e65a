\* Documents of two or three caches; 64-bit and int limits are scaled down.
\* Setting up stops when it is done or has failed.
SPECIFICATION SetupSpec
CONSTANTS
  Documents <- SmallDocuments
  MaxUint64 = 8388607
  MaxInt = 32767
  Malformed = Malformed
CHECK_DEADLOCK FALSE
INVARIANTS
  SetupTypeOK
  InheritsFromPlain
  RejectsTheUnsoundOnly
  SizesAreExact
  ShadowFitsItsL1
