SPECIFICATION FairSpec
CONSTANTS
  Markets = {k1}
  Ignored <- NoTrade
  Unparsable <- SecondTrade
  Untimed <- NoTrade
  MaxBuffer = 2
  MaxTrades = 2
  MaxMinute = 1
  MaxFailures = 1
  MaxRestarts = 1
  MaxRows = 2
INVARIANTS TypeOK BarAfterItsTrades
PROPERTIES RowsFlushed
CHECK_DEADLOCK FALSE
