SPECIFICATION Spec
CONSTANTS
  Scan = {s1}
  Hosts = 1
  Findings = 1
  Ports = 1
  Page <- MCPage
  Malformed <- MCMalformed
  Failure = {}
  Sync = Sync
  Free = Free
INVARIANT SyncDoesNotFailScan
