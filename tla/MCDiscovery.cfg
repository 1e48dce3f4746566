SPECIFICATION FairSpec
CONSTANTS
  fed = fed
  sport = sport
  tokenless = tokenless
  broken = broken
  Markets <- MCMarkets
  Info <- MCInfo
  Priority <- MCPriority
  Listed <- MCListed
  Allowed = {"fed_rate"}
  PageSize = 2
  StaleAfter = 2
  MaxChurn = 2
  MaxFailures = 1
  MaxRestarts = 1
INVARIANTS TypeOK BackfillExact
PROPERTIES StaleDeserved ListedIsTracked
CHECK_DEADLOCK FALSE
