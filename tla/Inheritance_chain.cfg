\* Documents in which an entry may be like one that is like another.
SPECIFICATION SetupSpec
CONSTANTS
  Documents <- SmallDocuments
  MaxUint64 = 8388607
  MaxInt = 32767
  Malformed = Malformed
CHECK_DEADLOCK FALSE
INVARIANTS
  InheritsSettings
