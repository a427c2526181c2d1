\* An edit overlaps the start.
SPECIFICATION Spec
CONSTANTS
  N = 1
  Chunk = 1
  Admin = {a1, a2}
  Scheduler = {s1}
  Alone = {}
  MaxEdits = 1
  MaxRetries = 0
  MaxCrashes = 0
  MaxMoves = 0
INVARIANT SentAsConfirmed
CHECK_DEADLOCK FALSE
