SPECIFICATION FairSpec
CONSTANTS
  Scan = {s1}
  Hosts = 2
  Findings = 1
  Ports = 1
  Page <- MCPages
  Malformed <- MCMalformed
  Failure = {"disk", "timeout", "kill"}
  Sync = Sync
  Free = Free
INVARIANTS GoodIsWhole NoTornDetection FinalReportIsExact
PROPERTIES FinalIsFinal ScanEnds
