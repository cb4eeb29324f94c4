SPECIFICATION SyncSpec
CONSTANTS
  Proc = {1}
  MaxCases = 2
  MaxStarts = 2
  MaxRounds = 2
INVARIANTS TriedOnce
PROPERTY SyncTriesAll
CHECK_DEADLOCK FALSE
