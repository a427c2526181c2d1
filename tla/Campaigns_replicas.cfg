\* Two schedulers over three subscribers in chunks of two.
SPECIFICATION Spec
CONSTANTS
  N = 3
  Chunk = 2
  Admin = {a1}
  Scheduler = {s1, s2}
  Alone = {a1}
  MaxEdits = 0
  MaxRetries = 0
  MaxCrashes = 1
  MaxMoves = 1
SYMMETRY MCSymmetry
INVARIANTS ToldOnce EnqueueComplete
CHECK_DEADLOCK FALSE
