SPECIFICATION FairSpec
CONSTANTS
  Pid <- Pids
  Options <- Usual
  max_cnt = 2
  MaxRuns = 3
INVARIANTS FaultIsReal NoStray PipeInStep
PROPERTY RunReturns
CHECK_DEADLOCK FALSE
