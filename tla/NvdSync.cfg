SPECIFICATION Spec
CONSTANTS
  CVE <- MCCVE
  Malformed <- MCMalformed
  Proc = {p1, p2}
  NoProc = NoProc
  PageSize = 1
  WindowSpan = 2
  BulkSpan = 1
  MaxWindows = 2
  MaxPages = 2
  MaxTime = 3
  MaxRev = 2
  MaxFailures = 1
  StableFeed = TRUE
INVARIANTS TypeOK WatermarkCovers OkMeansCaughtUp
PROPERTIES OnlyAdvances MirrorSpec
SYMMETRY MCSymmetry
