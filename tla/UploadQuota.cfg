SPECIFICATION Spec
CONSTANTS
  NoThread = NoThread
  Threads = {t1, t2}
  Names = {n1, n2}
  Parts = {p1}
  Sizes = {0, 1, 2}
  Policies <- TwoPolicies
INVARIANT QuotaSound
