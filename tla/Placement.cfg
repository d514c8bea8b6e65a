\* Three objects each, lines of 1 to 32 bytes.  The program stops when all events
\* are mapped, or something has thrown.
SPECIFICATION PlacementSpec
CONSTANTS
  Documents <- PlainDocuments
  Malformed = Malformed
  Depth <- SmallDepth
  Deepest = 6
  Ids <- SmallIds
  Hierarchies <- SmallHierarchies
  AddressSpace = 256
CHECK_DEADLOCK FALSE
INVARIANTS
  AccessesResolve
  OffsetIsElement
  OwnLines
  LinesAreFilled
