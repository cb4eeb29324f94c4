SPECIFICATION FairSpec
CONSTANTS
  Property <- QuotaAutomaton
  Cap = 1
  Worker = {w1, w2}
  Input <- SomeInputs
  MaxTests = 2
  Again = FALSE
INVARIANTS NothingIsLost LoadedIsLogged
PROPERTY StopReturns
CHECK_DEADLOCK FALSE
