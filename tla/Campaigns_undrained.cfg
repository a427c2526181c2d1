\* Two enqueues overlap, and somebody joins.
SPECIFICATION Spec
CONSTANTS
  N = 2
  Chunk = 1
  Admin = {a1}
  Scheduler = {s1, s2}
  Alone = {a1}
  MaxEdits = 0
  MaxRetries = 0
  MaxCrashes = 0
  MaxMoves = 1
PROPERTY ClosedWhenDrained
CHECK_DEADLOCK FALSE
