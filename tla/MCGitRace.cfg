\* Two processes, git downloader.
SPECIFICATION Spec
CONSTANTS
  Proc = {p1, p2}
  Version = {v1, v2}
  Mirror = mirror
  Nobody = nobody
  Downloader = "git"
  MaxFaults = 0
  MaxLosses = 0
SYMMETRY Interchangeable
INVARIANTS PathIsReady DatabaseErrorsNeedSharing
