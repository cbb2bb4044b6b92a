\* Three CVEs.  EPSS lists any of them, the two malformed ones first; NVD,
\* KEV, EPSS and the findings name the third, in any order.  Pages of one
\* record meet the page cap before it, pages of two do not.
SPECIFICATION Spec
CONSTANTS
  CVE <- MCCVE
  Malformed = {1, 2}
  Catalogued = {3}
  Named = {3}
  PageSize = 2
  MaxPages = 2
  MaxRev = 2
  MaxEdition = 1
  MaxDay = 2
  MaxFailures = 1
  LiveListing = FALSE
INVARIANTS TypeOK RunIsComplete RowsFit
PROPERTIES NoDowngrade
