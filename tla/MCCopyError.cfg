\* One program, three bytes through a buffer of two, one failure.
SPECIFICATION CpSpec
CONSTANTS
  CpProgram = {first}
  SourceSize = 3
  BuffSize = 2
  CpMaxFaults = 1
INVARIANTS ErrorIsReported
CHECK_DEADLOCK FALSE
