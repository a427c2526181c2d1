\* Two workers share two rows, one of them an acknowledgement that can expire.
SPECIFICATION Spec
CONSTANTS
  Message = {m1, m2}
  SubscriberRow = {}
  AckRow = {m2}
  CampaignRow = {}
  Worker = {w1, w2}
  Admin = {a1}
  NoMessage = NoMessage
  MaxAttempts = 1
  BatchSize = 2
  SlowBatches = FALSE
  MaxRetries = 1
  MaxFaults = 1
SYMMETRY MCSymmetry
INVARIANT IInv
