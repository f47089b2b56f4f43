\* Two processes start up and share plugins, two share the repository while one may be
\* killed, two use the cache command; three sandboxes; templates of three items.
SPECIFICATION StartSpec
CONSTANTS
  first = first
  second = second
  v1 = v1
  v2 = v2
  here = here
  there = there
  modA = modA
  modB = modB
  x = x
  Proc = {first, second}
  Package = {"root", "lua"}
  Root = "root"
  Version = {v1, v2}
  Default = v1
  Plugins <- single
  Reloads = {FALSE, TRUE}
  MaxDepth = 3
  MaxRuns = 3
  MaxFaults = 1
  BootProc = {first, second}
  ShippedPlugins = {"lua"}
  ShippedCommands = {"commands"}
  ShippedDownloaders = {"git"}
  Others = {"boost"}
  Git = "git"
  BootPlugins <- declared
  RootPlugins = {"lua", "boost"}
  BootMaxDepth = 4
  BootMaxRuns = 3
  BootMaxFaults = 1
  CacheProc = {first, second}
  Local = {here, there}
  Tree = Tree
  CacheNone = CacheNone
  CacheMaxFaults = 1
  MaxLosses = 1
  Env = {BoxMain, e1, e2}
  BoxMain = BoxMain
  Module = {modA, modB, Ctor}
  Ctor = Ctor
  Std = Std
  Uses <- uses
  Scripts <- scripts
  BoxNone = BoxNone
  BoxMaxDepth = 5
  GenMain = GenMain
  Sub = Sub
  Sources <- sources
  Char = {x}
  Newline = Newline
  Ending = Ending
  Value = Value
  KeyLike = KeyLike
  If = If
  GenEnd = GenEnd
  Include = Include
  Open = Open
  GenMaxDepth = 3
  MaxLen = 3
INVARIANTS RunsWhatItAsked ReloadCures CachedNeedsNoNetwork CodeStaysInItsSandbox OnlyTheseAreLost
PROPERTY CachedStays
CHECK_DEADLOCK FALSE
