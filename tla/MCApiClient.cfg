SPECIFICATION FairSpec
CONSTANTS
  Callers = {c1, c2, c3}
  Intervals = {1, 2}
  MaxRetries = 2
  MaxBackoff = 3
  RetryAfters = {2}
INVARIANTS TypeOK ThrottleExclusive
PROPERTIES Spaced CallsEnd
CHECK_DEADLOCK FALSE
