\* Two one-line L1s of differing policies, sharing a two-way L2.
SPECIFICATION FlowSpec
CONSTANTS
  Cores = {0, 1}
  Lines = {0, 1, 2}
  Configs <- TwoCoreConfigs
INVARIANTS
  StoresNotLost
  DirtyMeansPending
