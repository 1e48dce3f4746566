SPECIFICATION FairSpec
CONSTANTS
  None = None
  Wallets = {w1}
  Kinds <- AllKinds
  BatchSize = 2
  MaxRequests = 3
  MaxErrors = 1
  MaxRestarts = 1
INVARIANTS TypeOK NothingSwallowed AnsweredInOrder AnswerHasProfile
PROPERTY RequestsDelivered
CHECK_DEADLOCK FALSE
