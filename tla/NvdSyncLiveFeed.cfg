SPECIFICATION Spec
CONSTANTS
  CVE <- MCCVE
  Malformed = {}
  Proc = {p1}
  NoProc = NoProc
  PageSize = 2
  WindowSpan = 2
  BulkSpan = 1
  MaxWindows = 2
  MaxPages = 2
  MaxTime = 3
  MaxRev = 2
  MaxFailures = 1
  StableFeed = FALSE
INVARIANT WatermarkCovers
