SPECIFICATION Spec
CONSTANTS
  Lines = {0, 1, 2, 3, 4}
  Geometries <- SmallGeometries
INVARIANTS
  HoldsMostRecent
  OrderedByUse
PROPERTIES
  EvictedIsReported
