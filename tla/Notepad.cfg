SPECIFICATION Spec
CONSTANTS
  None = None
  Threads = {t1, t2}
  Ids = {n1, n2}
  Sizes = {1, 2}
  MaxNoteCount = 2
  MaxTotalBytes = 2
  MaxListed = 1
  MaxSaves = 3
  MaxKills = 1
SYMMETRY Symmetric
CHECK_DEADLOCK FALSE
INVARIANT NotesSound
PROPERTY UpdatesNeverRevive
