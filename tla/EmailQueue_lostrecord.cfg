\* One worker: a send whose record is lost goes out again.
SPECIFICATION Spec
CONSTANTS
  Message = {m1}
  SubscriberRow = {}
  AckRow = {}
  CampaignRow = {}
  Worker = {w1}
  Admin = {}
  NoMessage = NoMessage
  MaxAttempts = 2
  BatchSize = 1
  SlowBatches = FALSE
  MaxRetries = 0
  MaxFaults = 1
INVARIANT NoUnaskedCopy
