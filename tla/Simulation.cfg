\* One core, L1s of one or two lines, programs of up to four events.  The
\* simulation stops after the last event.
SPECIFICATION SimSpec
CONSTANTS
  Cores = {0}
  Lines = {0, 1, 2}
  Configs <- SmallConfigs
  Events <- ProgramEvents
  MaxEvents = 4
  ObjectNames <- SmallNames
  LogLimit = 2
  PlotLimit = 2
CHECK_DEADLOCK FALSE
INVARIANTS
  ReportsAgree
  RegionsNest
  ColdIsFootprint
  CyclesAddUp
  ShadowMirrorsL1
  FullyAssociativeHasNoConflict
  HintsAreDetermined
  ReportsRoundTrip
  TopsAgree
