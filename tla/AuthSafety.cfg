SPECIFICATION WaitSpec
CONSTANTS
  Threads = {t1, t2, t3}
  Peers = {p1, p2, p3}
  Server = server
  Nobody = nobody
  Cooldown = 2
  PruneInterval = 1
  MaxPending = 3
  WaitTimeout = 1
  MaxFailures = 1
  MaxPeers = 2
  MaxActive = 2
  PerPeerPending = 2
  MaxTime = 3
  Takers = {g1, g2}
  Callers = {worker, callback}
  Limit = 1
SYMMETRY Symmetry
INVARIANTS TableSound LockoutBound QueueServed
PROPERTY DecisionsLast
