\* Two requests overlap.
SPECIFICATION Spec
CONSTANTS
  Address = {alice}
  Request = {r1, r2}
  NoAddress = NoAddress
  MaxRows = 2
  MaxTokens = 2
SYMMETRY MCSymmetry
INVARIANTS IInv ErasedForgotten
PROPERTIES SingleUse StatusOrder
CHECK_DEADLOCK FALSE
