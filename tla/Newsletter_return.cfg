\* A confirmation overlaps a departure.
SPECIFICATION Spec
CONSTANTS
  Address = {alice}
  Request = {r1, r2}
  NoAddress = NoAddress
  MaxRows = 1
  MaxTokens = 1
PROPERTY NoDirectReturn
CHECK_DEADLOCK FALSE
