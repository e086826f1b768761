\* Four choices of a source, one rejected list.
SPECIFICATION FairSpec
CONSTANTS
  MaxSequence = 4
  MaxRejected = 1
INVARIANTS OneSourceOperation
PROPERTIES NewestWins ScanSettles
CHECK_DEADLOCK FALSE
