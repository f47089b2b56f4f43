\* setlevels against its comment in factory.hpp.
SPECIFICATION Spec
CONSTANTS
  console = console
  gsmake = gsmake
  consoleSink = consoleSink
  fileSink = fileSink
  Source = {console}
  Level = {error, debug}
  Sink = {fileSink}
  Applies <- AppliesToOne
  NoLogger = none
  MaxMessages = 1
  MaxChanges = 1
INVARIANT SetLevelsSets
CHECK_DEADLOCK FALSE
