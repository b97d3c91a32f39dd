SPECIFICATION Spec
CONSTANTS
  a = a
  b = b
  k1 = k1
  b1 = b1
  n1 = n1
  n2 = n2
  None = None
  Ids = {a, b}
  Keys = {k1}
  Bodies = {b1}
  Batches <- SharedKey
  Generated = {}
  Nodes = {n1, n2}
  MaxAttempts = 2
  CompletedRetention = 1
  FailedRetention = 1
  Prefetch = 2
  EnqueueAttempts = 2
  RetryDelays = {FALSE}
  MaxReplays = 1
  MaxFaults = 1
  MaxHeld = 2
INVARIANTS TypeOK OnePlace DeliveriesRenewed NoOrphanLease
PROPERTY ImplementsJobQueue
SYMMETRY NodeSymmetry
CHECK_DEADLOCK FALSE
