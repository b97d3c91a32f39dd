SPECIFICATION Spec
CONSTANTS
  c1 = c1
  c2 = c2
  c3 = c3
  room = room
  lobby = lobby
  ann = ann
  t1 = t1
  t2 = t2
  None = None
  Threads = {t1, t2}
  Conns = {c1, c2}
  Channels = {room, lobby}
  Clients = {ann}
  Keepers = {c1, c3}
  ConnShard <- OwnShard
  CapShard <- ByChannel
  Shards = {1, 2}
  MaxMembers = 2
  Batch = 2
  MaxCached = 1
  ReleaseIdle = FALSE
  Ops = {"register", "enter", "leave", "detach", "unregister", "supersede"}
INVARIANT NoDeadlock
CHECK_DEADLOCK FALSE
