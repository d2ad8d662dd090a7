SPECIFICATION IndexSpec
CONSTANTS
  Dir <- MCDir
  Tracked <- MCTracked
  Trees <- MCTrees
  Splits <- MCSplits
  WordBits = 2
  Radix = 2
  MaxWrites = 2
  Failed = Failed
  None = None
INVARIANTS AnswersAsTracked ErrsForCause
CHECK_DEADLOCK FALSE
