SPECIFICATION Spec
CONSTANTS
  Lines = {0, 1, 2, 3, 4}
  Capacities <- SmallCapacities
INVARIANTS
  ClassifierTypeOK
  MapMatchesList
  ShadowIsLru
PROPERTIES
  ImplementsReuseDistance
