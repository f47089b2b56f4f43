\* Removing: every file system of four nodes, one directory that cannot be read.
\* Copying: two programs, three bytes through a buffer of two, one failure.
\* Making: two programs, seven paths, one directory that is removed by others.
\* Copying trees: all trees of eight paths, three sources, five targets, all flags, one
\* failure that nobody is told of.
\* Logging: two programs, two runs, three lines each, two days.  Names: up to five parts.
SPECIFICATION Spec
CONSTANTS
  s = s
  t = t
  a = a
  b = b
  first = first
  second = second
  Node <- nodes
  Root <- root
  RmLayouts <- trees
  RmProgram = {first}
  MaxLinks = 2
  RmMaxFaults = 1
  CpProgram = {first, second}
  SourceSize = 3
  BuffSize = 2
  CpMaxFaults = 1
  MkProgram = {first, second}
  MkCwd <- cwd
  Paths <- wanted
  MkLayouts <- places
  MaxCalls = 1
  MaxLosses = 1
  TreeName = {s, t, a, b}
  TreeLayouts <- copied
  MaxPath = 5
  TreeMaxFaults = 1
  SinkProgram = {first, second}
  MaxSize = 1
  Days = 2
  MaxRuns = 2
  MaxLines = 3
  LawsName = {"a"}
  MaxFirst = 5
  MaxSecond = 3
INVARIANTS OutsideIsKept FilesAreNotMixed AnswerIsTrue AllIsCopied RunsAreInOrder CleanKeepsPlace
PROPERTIES OperationsEnd
CHECK_DEADLOCK FALSE
