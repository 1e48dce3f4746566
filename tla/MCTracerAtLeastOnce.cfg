SPECIFICATION FairSpec
CONSTANTS
  None = None
  Wallets = {w1, w2}
  Kinds <- TraceOnly
  BatchSize = 2
  MaxRequests = 1
  MaxErrors = 0
  MaxRestarts = 1
PROPERTY AtLeastOnce
CHECK_DEADLOCK FALSE
