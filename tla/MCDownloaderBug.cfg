\* Two processes that sync the same version, git downloader.
SPECIFICATION Spec
CONSTANTS
  Proc = {p1, p2}
  Version = {v1}
  Mirror = mirror
  Nobody = nobody
  Downloader = "git"
  MaxFaults = 0
  MaxLosses = 0
SYMMETRY Interchangeable
INVARIANT NoDownloaderBug
