SPECIFICATION Spec
CONSTANTS
  Writers = {w1}
  Readers = {r1}
  Limit = 1
  MaxBatch = 2
  MaxEvents = 3
  Tear = FALSE
  Nobody = Nobody
INVARIANTS ReadComplete
