\* Two sources, one level and none enabled, three messages, one change.
SPECIFICATION FairSpec
CONSTANTS
  console = console
  gsmake = gsmake
  consoleSink = consoleSink
  fileSink = fileSink
  Source = {console, gsmake}
  Level = {info}
  Sink = {consoleSink, fileSink}
  Applies <- AppliesTo
  NoLogger = none
  MaxMessages = 3
  MaxChanges = 1
INVARIANTS NothingLost SinksGetTheirs CloseFlushes
PROPERTIES ImplementsLog MessagesAreWritten CloseReturns
CHECK_DEADLOCK FALSE
