SPECIFICATION FairSpec
CONSTANTS
  Program <- MCProgram
  AllEvents <- MCEvents
  Located <- MCLocated
  Input = {1, 2}
  Tails <- MCTails
  Seed <- MCSeed
  Target = {t1, t2}
  Subjects <- MCSubjects
  Budget = 1
INVARIANTS PathsHavePrefixes RersFollowsPath CounterexampleIsReal
PROPERTY CampaignEnds
CHECK_DEADLOCK FALSE
