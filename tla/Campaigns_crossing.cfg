\* Two administrators and a scheduler overlap.
SPECIFICATION Spec
CONSTANTS
  N = 1
  Chunk = 1
  Admin = {a1, a2}
  Scheduler = {s1}
  Alone = {}
  MaxEdits = 1
  MaxRetries = 1
  MaxCrashes = 1
  MaxMoves = 0
SYMMETRY MCSymmetry
INVARIANTS RecordKept ConfirmedIsSent
PROPERTY Lifecycle
CHECK_DEADLOCK FALSE
