SPECIFICATION Spec
CONSTANTS
  Conns = {c1}
  Sizes = {0, 1}
  Configs <- Terminated
PROPERTIES StopTerminates
CHECK_DEADLOCK FALSE
