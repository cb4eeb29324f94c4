SPECIFICATION Spec
CONSTANTS
  Subjects <- MCSubjects
  Outcomes <- MCOutcomes
  Zero = 0
  TRIM_START_STEPS = 2
  TMIN_SET_STEPS = 4
  TMIN_SET_MIN_SIZE = 2
INVARIANTS KeptIsFaithful OneMinimal
PROPERTY MinimizeEnds
CHECK_DEADLOCK FALSE
