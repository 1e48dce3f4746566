SPECIFICATION FairSpec
CONSTANTS
  Markets = {m1}
  Gated = {}
  DedupSize = 3
  TapeLimit = 3
  Id <- SharedIds
  Ignored <- NoTrade
  Unparsable <- ThirdTrade
  Untimed <- FirstTrade
  MaxTrades = 3
  MaxMinute = 2
  MaxFailures = 2
  MaxRestarts = 0
  MaxRows = 9
PROPERTIES PastBarsWritten TapeIngested
CHECK_DEADLOCK FALSE
