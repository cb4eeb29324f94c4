SPECIFICATION FairSpec
CONSTANTS
  NEdges = 3
  Hits = {1, 2}
  Input <- Inputs
  Length <- Lengths
  Outcomes <- Steady
  Speeds = {1, 2}
  Options <- Commands
  CAL_CYCLES = 2
  CAL_CHANCES = 2
  TrimFrom = 3
  SkipAbove = 1
  MaxQueue = 3
INVARIANTS ReferencesCounted PendingCounted FavoredCover BestIsBest
PROPERTY FavoredGetTheirTurn
CHECK_DEADLOCK FALSE
