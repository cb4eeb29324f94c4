SPECIFICATION SyncSpec
CONSTANTS
  Proc = {1, 2}
  MaxCases = 3
  MaxStarts = 3
  MaxRounds = 0
INVARIANTS ResumeFindsAll CrashesAreKept QueueIsOnDisk
CHECK_DEADLOCK FALSE
