\* Somebody leaves between two chunks.
SPECIFICATION Spec
CONSTANTS
  N = 3
  Chunk = 1
  Admin = {a1}
  Scheduler = {s1}
  Alone = {a1, s1}
  MaxEdits = 0
  MaxRetries = 0
  MaxCrashes = 0
  MaxMoves = 1
INVARIANT EveryRecipientQueued
CHECK_DEADLOCK FALSE
