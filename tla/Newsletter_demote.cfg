\* A confirmation overlaps a second subscription.
SPECIFICATION Spec
CONSTANTS
  Address = {alice}
  Request = {r1, r2}
  NoAddress = NoAddress
  MaxRows = 1
  MaxTokens = 2
PROPERTY ActiveNotDemoted
CHECK_DEADLOCK FALSE
