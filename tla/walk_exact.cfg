SPECIFICATION FeedSpec
CONSTANTS
  Letter <- MCEvent
  FeedState <- MCState
  Automata <- MCAutomata
INVARIANTS WalkIsSound WalkIsExact
