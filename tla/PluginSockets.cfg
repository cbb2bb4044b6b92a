SPECIFICATION FairSpec
CONSTANTS
  Worker = {w1, w2}
  NoConn = NoConn
  FdCount = 2
  InitialSlots = 1
  MaxOpens = 3
  MaxOom = 2
INVARIANTS ClosesOwnOnly NoLeak
PROPERTIES EventuallyClosed
