SPECIFICATION Spec
CONSTANTS
  p1 = p1  p2 = p2  r1 = r1  r2 = r2  w1 = w1  w2 = w2
  Publishes = {p1}
  Requests = {r1}
  Target <- MCTarget
  Subs <- ClientFirst
  PageSize = 2
  Estimates = {3}
  FastThreshold = 3
  ShardSize = 2
  BatchSize = 1
  Outcomes = {"accepted", "retryable"}
  MaxAttempts = 1
  Workers = {w1, w2}
  Owner <- OwnOwner
  Deadlines = {}
  Stamp <- MCStamp
  RepairBatch = 1
  MaxFaults = 0
INVARIANT WorkNotLost
CHECK_DEADLOCK FALSE
