\* One process after the other, git downloader: crashes, failing commands and
\* lost directories.
SPECIFICATION FairSpec
CONSTANTS
  Proc = {p1}
  Version = {v1, v2}
  Mirror = mirror
  Nobody = nobody
  Downloader = "git"
  MaxFaults = 2
  MaxLosses = 2
INVARIANTS TypeOK PathIsReady
PROPERTY Recovers
