\* A cancellation overlaps the enqueue.
SPECIFICATION Spec
CONSTANTS
  N = 2
  Chunk = 1
  Admin = {a1}
  Scheduler = {s1}
  Alone = {}
  MaxEdits = 0
  MaxRetries = 0
  MaxCrashes = 0
  MaxMoves = 0
PROPERTY CancelStops
CHECK_DEADLOCK FALSE
