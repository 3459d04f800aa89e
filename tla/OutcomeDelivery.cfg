SPECIFICATION FairSpec
CONSTANTS
  MaxRows = 3
  OutcomeRows <- MCOutcomeRows
  MaxQueued = 2
  MaxTrouble = 2
INVARIANTS
  TypeOK
  OutcomeKept
  RecordedOnce
  FirstSentInOrder
PROPERTIES
  OneCleanStartIsEnough
CHECK_DEADLOCK FALSE
