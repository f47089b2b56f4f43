\* A runner that is run up to twice.  Once a run has returned for the last
\* time, or has thrown, nothing is left to do.
SPECIFICATION FairSpec
CONSTANTS
  a = a
  b = b
  c = c
  lua = lua
  Name = {a, b, c}
  Plugin = {lua}
  Package = Package
  NoPrev = NoPrev
  Absent = Absent
  NoName = NoName
  Declarations <- EveryPackage
  MaxRuns = 2
INVARIANTS StackIsGray CycleReportIsReal ScheduleIsExact PrerequisitesFirst ArgumentsReachRequested CallsMatchRegistrations
PROPERTIES ImplementsSchedule RunEnds
CHECK_DEADLOCK FALSE
