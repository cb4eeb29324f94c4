SPECIFICATION FuzzSpec
CONSTANTS
  Subjects <- Inputs
  ARITH_MAX = 35
  EFF_MAP_SCALE2 = 1
  EFF_MIN_LEN = 5
  EFF_MAX_PERC = 90
  HAVOC_MAX_MULT = 2
  HAVOC_BLK_SMALL = 1
  HAVOC_BLK_MEDIUM = 2
  HAVOC_BLK_LARGE = 3
  HAVOC_BLK_XL = 4
  MAX_FILE = 20
  MIN_AUTO_EXTRA = 2
  MAX_AUTO_EXTRA = 3
  USE_AUTO_EXTRAS = 2
  MAX_AUTO_EXTRAS = 4
  HAVOC_CYCLES = 2
  HAVOC_CYCLES_INIT = 3
  HAVOC_MIN = 2
  HAVOC_STACK_POW2 = 2
  SPLICE_HAVOC = 1
  SPLICE_CYCLES = 2
INVARIANT OutBufRestored
INVARIANT BufferFits
INVARIANT AutoAreTokens
PROPERTY DetDoneIsEarned
PROPERTY UsefulTokensStay
CHECK_DEADLOCK FALSE
