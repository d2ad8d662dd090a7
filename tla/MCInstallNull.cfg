SPECIFICATION Spec
CONSTANTS
  s1 = s1
  s2 = s2
  old = old
  new = new
  Syncs = {s1}
  Bins = {old, new}
  Harnesses <- MCHarnesses
  Events <- MCEvents
  Starts <- NullStarts
  Rounded <- MCRounded
  Edits <- MCEdits
  Excludes <- MCExcludes
  MaxEdits = 0
  MaxFailures = 0
INVARIANT OthersStillSynced
CHECK_DEADLOCK FALSE
