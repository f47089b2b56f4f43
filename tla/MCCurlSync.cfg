\* One process after the other, curl downloader, crashes, failing commands and
\* a lost directory.
SPECIFICATION Spec
CONSTANTS
  Proc = {p1}
  Version = {v1, v2}
  Mirror = mirror
  Nobody = nobody
  Downloader = "curl"
  MaxFaults = 2
  MaxLosses = 1
INVARIANTS RowMeansReady

