SPECIFICATION RacesSpec
CONSTANTS
  Thread = {t1, t2}
  Uuid = {u1, u2}
  Stranger = stranger
  State <- MCState
  AutomatonOf <- MCAutomatonOf
  Requests <- Pairs
  Traces <- Traces2
  MaxRequests = 3
INVARIANTS ObjectExclusion SessionIsWhole OnlyRacesMislead
PROPERTY EveryRequestIsAnswered
