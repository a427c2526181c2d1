\* An administrator and a scheduler overlap, and the timers go on.
SPECIFICATION FairSpec
CONSTANTS
  N = 2
  Chunk = 1
  Admin = {a1}
  Scheduler = {s1}
  Alone = {}
  MaxEdits = 0
  MaxRetries = 0
  MaxCrashes = 1
  MaxMoves = 1
INVARIANT IInv
PROPERTIES OnlyMissingAdded SendingEnds
CHECK_DEADLOCK FALSE
