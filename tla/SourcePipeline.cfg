\* Two invocations with up to two sources each.  There may be nothing left to do.
SPECIFICATION WrapperSpec
CONSTANTS
  Sources <- SmallSources
  Arguments <- SmallArguments
  CommandLines <- SmallCommandLines
  PluginWrites = {"ape", "lat", "nothing"}
  MaxInvocations = 2
  MaxVersion = 2
CHECK_DEADLOCK FALSE
INVARIANTS
  CommandsUnderstood
  PairsMixAfterFailureOnly
  EverySourceAccounted
