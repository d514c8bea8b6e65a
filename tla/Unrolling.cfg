\* Documents of three functions with loops of up to two iterations.  The program
\* stops when the builder has returned, or something has thrown.
SPECIFICATION LoaderSpec
CONSTANTS
  Documents <- SmallDocuments
  Malformed = Malformed
  Depth <- SmallDepth
  Deepest = 8
CHECK_DEADLOCK FALSE
INVARIANTS
  LoopsNest
  EventsAsWritten
PROPERTIES
  Terminates
