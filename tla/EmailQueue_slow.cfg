\* A batch that outlives the stale window.
SPECIFICATION Spec
CONSTANTS
  Message = {m1}
  SubscriberRow = {}
  AckRow = {}
  CampaignRow = {}
  Worker = {w1, w2}
  Admin = {}
  NoMessage = NoMessage
  MaxAttempts = 1
  BatchSize = 1
  SlowBatches = TRUE
  MaxRetries = 0
  MaxFaults = 0
PROPERTY AdministratorDecides
