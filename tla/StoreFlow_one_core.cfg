\* One core, an L1 and an L2 of two lines each, all policies.
SPECIFICATION FlowSpec
CONSTANTS
  Cores = {0}
  Lines = {0, 1, 2, 3}
  Configs <- OneCoreConfigs
INVARIANTS
  FlowTypeOK
  SetsWellFormed
  WriteThroughStaysClean
  StoresNotLost
  DirtyMeansPending
PROPERTIES
  StoreMissNeverFills
  DirtyLossReported
