SPECIFICATION Spec
CONSTANTS
  Exchanges = {x}
  Aggregators = {a}
  Others = {o}
  None = None
  Unknown = Unknown
  WalletCap = 20
  HourCap = 3
  Hour = 3
  MaxClock = 7
INVARIANTS TypeOK SlidingBound WindowCounted ProfileJustified
CHECK_DEADLOCK FALSE
