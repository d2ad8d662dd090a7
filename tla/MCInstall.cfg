SPECIFICATION Spec
CONSTANTS
  s1 = s1
  s2 = s2
  old = old
  new = new
  Syncs = {s1, s2}
  Bins = {old, new}
  Harnesses <- MCHarnesses
  Events <- MCEvents
  Starts <- MCStarts
  Rounded <- MCRounded
  Edits <- MCEdits
  Excludes <- MCExcludes
  MaxEdits = 1
  MaxFailures = 1
SYMMETRY Symmetry
INVARIANT EveryTargetTried
PROPERTY SyncedIsCurrent
PROPERTY GuestInTheFile
PROPERTY SettledIsLeftAlone
PROPERTY ExcludedAlone
CHECK_DEADLOCK FALSE
