SPECIFICATION Spec
CONSTANTS
  MaxBuffer = 3
  MaxRows = 6
  MaxStored = 7
  MaxRestarts = 1
  Malformed <- FifthRow
  Rejected <- FourthRow
INVARIANTS TypeOK OneQueue HeldInOrder FirstStoredInOrder OnlyReplayDuplicates
PROPERTIES BufferedRowsKept IsRowChannel
