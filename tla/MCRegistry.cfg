SPECIFICATION Spec
CONSTANTS
  home = home
  joined = joined
  odd = odd
  Roots <- MCRoots
  Pieces <- MCPieces
  Path <- MCPath
  Machine = Machine
  Terminals = {t1, t2}
  InSession = {t2}
  Lockable = {"trusted"}
  MaxWrites = 2
  Tear = TRUE
  None = None
INVARIANTS ReadsAsPromised
PROPERTIES KeepsPromise
CHECK_DEADLOCK FALSE
