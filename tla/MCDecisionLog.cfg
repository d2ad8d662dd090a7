SPECIFICATION FairSpec
CONSTANTS
  Writers = {w1, w2}
  Readers = {r1}
  Limit = 1
  MaxBatch = 2
  MaxEvents = 3
  Tear = TRUE
  Nobody = Nobody
INVARIANTS TypeOK Retention ReadOnce AckedIsKept EventTogether
PROPERTIES LeavesByAge AppendEnds
