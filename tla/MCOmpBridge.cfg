SPECIFICATION Spec
CONSTANTS
  Contexts <- MCContexts
  MatchSets <- MCMatchSets
  None = None
INVARIANTS TranslatesTheAnswer FailsOpenLoudly ChildGone
PROPERTY CallEnds
CHECK_DEADLOCK FALSE
