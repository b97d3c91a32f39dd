SPECIFICATION FairSpec
CONSTANTS
  p1 = p1  p2 = p2  r1 = r1  r2 = r2  w1 = w1  w2 = w2
  Publishes = {p1}
  Requests = {r1}
  Target <- MCTarget
  Subs <- OneDevice
  PageSize = 2
  Estimates = {1}
  FastThreshold = 1
  ShardSize = 1
  BatchSize = 1
  Outcomes = {"invalid", "retryable"}
  MaxAttempts = 2
  Workers = {w1, w2}
  Owner <- OwnOwner
  Deadlines = {"delivery"}
  Stamp <- MCStamp
  RepairBatch = 1
  MaxFaults = 1
INVARIANT DuplicatesBounded
PROPERTY EveryPublishSettled
CHECK_DEADLOCK FALSE
