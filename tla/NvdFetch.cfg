SPECIFICATION FairSpec
CONSTANTS
  MaxRetries = 2
  BackoffInitial = 4
  BackoffMax = 6
  RetryAfterMax = 2
  HardCap = 5
  FirstAlloc = 2
  Second = 5
  Chunk = {0, 1, 3}
  RetryAfter = {1, 4}
INVARIANTS BodyIsSound CallIsBounded KeyStaysPrivate
PROPERTIES CallReturns
