\* An array of structures before another object.
SPECIFICATION PlacementSpec
CONSTANTS
  Documents <- StructArrayDocuments
  Malformed = Malformed
  Depth <- SmallDepth
  Deepest = 6
  Ids <- SmallIds
  Hierarchies <- SmallHierarchies
  AddressSpace = 256
CHECK_DEADLOCK FALSE
INVARIANTS
  ObjectsGetTheirBytes
