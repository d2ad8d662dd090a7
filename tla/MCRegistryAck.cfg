SPECIFICATION Spec
CONSTANTS
  home = home
  joined = joined
  odd = odd
  Roots <- OneRoot
  Pieces <- MCPieces
  Path <- OnePath
  Machine = Machine
  Terminals = {t1}
  InSession = {}
  Lockable = {}
  MaxWrites = 3
  Tear = TRUE
  None = None
INVARIANTS AcknowledgedHolds
CHECK_DEADLOCK FALSE
