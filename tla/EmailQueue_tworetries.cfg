\* Two retry requests of the same row overlap.
SPECIFICATION Spec
CONSTANTS
  Message = {m1}
  SubscriberRow = {}
  AckRow = {}
  CampaignRow = {}
  Worker = {w1}
  Admin = {a1, a2}
  NoMessage = NoMessage
  MaxAttempts = 1
  BatchSize = 1
  SlowBatches = FALSE
  MaxRetries = 1
  MaxFaults = 0
PROPERTY OnlyFinishedIsRetried
