SPECIFICATION Spec
CONSTANTS
  p1 = p1  p2 = p2  r1 = r1  r2 = r2  w1 = w1  w2 = w2
  Publishes = {p1}
  Requests = {r1}
  Target <- MCTarget
  Subs <- TwoDevices
  PageSize = 2
  Estimates = {2}
  FastThreshold = 3
  ShardSize = 1
  BatchSize = 1
  Outcomes = {"accepted", "retryable"}
  MaxAttempts = 2
  Workers = {w1, w2}
  Owner <- OwnOwner
  Deadlines = {}
  Stamp <- MCStamp
  RepairBatch = 1
  MaxFaults = 1
INVARIANT WorkNotLost
CHECK_DEADLOCK FALSE
