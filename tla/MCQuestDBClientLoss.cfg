SPECIFICATION Spec
CONSTANTS
  MaxBuffer = 3
  MaxRows = 3
  MaxStored = 4
  MaxRestarts = 0
  Malformed <- NoRow
  Rejected <- NoRow
INVARIANT NoRowLost
