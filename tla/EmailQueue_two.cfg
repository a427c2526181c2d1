\* Two workers compete for a campaign's copy to one subscriber.
SPECIFICATION FairSpec
CONSTANTS
  Message = {m1}
  SubscriberRow = {m1}
  AckRow = {}
  CampaignRow = {m1}
  Worker = {w1, w2}
  Admin = {a1}
  NoMessage = NoMessage
  MaxAttempts = 2
  BatchSize = 1
  SlowBatches = FALSE
  MaxRetries = 1
  MaxFaults = 2
INVARIANTS CopiesAccounted AtMostOneLateCopy
PROPERTIES AdministratorDecides ImplementsOutbox EverythingSettles
