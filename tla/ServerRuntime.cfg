SPECIFICATION Spec
CONSTANTS
  Conns = {c1, c2}
  Sizes = {0, 2}
  Configs <- Stoppable
CHECK_DEADLOCK FALSE
INVARIANTS ResourcesReturned JoinUnblocked
PROPERTY StopTerminates
