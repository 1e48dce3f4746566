SPECIFICATION Spec
CONSTANTS
  Markets = {m1, m2}
  Gated = {m2}
  DedupSize = 2
  TapeLimit = 2
  Id <- OwnIds
  Ignored <- FirstTrade
  Unparsable <- NoTrade
  Untimed <- NoTrade
  MaxTrades = 3
  MaxMinute = 1
  MaxFailures = 1
  MaxRestarts = 1
  MaxRows = 4
INVARIANTS TypeOK OneRowPerBar BarsCountWrittenTrades TradeWrittenOnce CurrentBarComplete
CHECK_DEADLOCK FALSE
