\* One core with an L1 of a single line, all policies.
SPECIFICATION SimSpec
CONSTANTS
  Cores = {0}
  Lines = {0, 1, 2}
  Configs <- OneLineConfigs
  Events <- ProgramEvents
  MaxEvents = 4
  ObjectNames <- SmallNames
  LogLimit = 2
  PlotLimit = 2
CHECK_DEADLOCK FALSE
INVARIANTS
  ConflictIsPlacement
