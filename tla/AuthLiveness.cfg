SPECIFICATION FairWaitSpec
CONSTANTS
  Threads = {t1, t2, t3}
  Peers = {p1}
  Server = server
  Nobody = nobody
  Cooldown = 2
  PruneInterval = 1
  MaxPending = 3
  WaitTimeout = 1
  MaxFailures = 1
  MaxPeers = 1
  MaxActive = 1
  PerPeerPending = 3
  MaxTime = 1
  Takers = {g1, g2, g3}
  Callers = {worker, callback}
  Limit = 2
INVARIANT GateSound
PROPERTIES AcquireReturns GateReturns
