SPECIFICATION Spec
CONSTANTS
  Names = {a}
  BeforeLocal = {a}
  MaxEdits = 1
INVARIANTS PrecedenceHolds ReplacesOne RepositoryGated NothingLostSilently
CHECK_DEADLOCK FALSE
