SPECIFICATION FairSpec
CONSTANTS
  a = a
  b = b
  k1 = k1
  b1 = b1
  n1 = n1
  n2 = n2
  None = None
  Ids = {a, b}
  Keys = {k1}
  Bodies = {b1}
  Batches = {}
  Generated <- OneFrame
  Nodes = {n1, n2}
  MaxAttempts = 2
  CompletedRetention = 1
  FailedRetention = 1
  Prefetch = 1
  EnqueueAttempts = 2
  RetryDelays = {TRUE}
  MaxReplays = 0
  MaxFaults = 1
  MaxHeld = 2
PROPERTY EveryJobSettled
CHECK_DEADLOCK FALSE
