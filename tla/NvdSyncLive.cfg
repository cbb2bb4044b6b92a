SPECIFICATION FairSpec
CONSTANTS
  CVE <- MCCVE
  Malformed = {}
  Proc = {p1}
  NoProc = NoProc
  PageSize = 2
  WindowSpan = 2
  BulkSpan = 1
  MaxWindows = 1
  MaxPages = 2
  MaxTime = 2
  MaxRev = 2
  MaxFailures = 1
  StableFeed = TRUE
PROPERTIES EventuallyStored
