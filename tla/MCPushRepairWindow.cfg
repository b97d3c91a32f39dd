SPECIFICATION FairSpec
CONSTANTS
  p1 = p1  p2 = p2  r1 = r1  r2 = r2  w1 = w1  w2 = w2
  Publishes = {p1, p2}
  Requests = {r1, r2}
  Target <- MCTarget
  Subs <- OneDevice
  PageSize = 2
  Estimates = {1}
  FastThreshold = 3
  ShardSize = 1
  BatchSize = 1
  Outcomes = {"accepted"}
  MaxAttempts = 1
  Workers = {w1}
  Owner <- OwnOwner
  Deadlines = {}
  Stamp <- MCStamp
  RepairBatch = 1
  MaxFaults = 1
PROPERTY LostWorkRecreated
CHECK_DEADLOCK FALSE
