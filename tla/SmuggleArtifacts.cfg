SPECIFICATION Spec
CONSTANTS
  NoThread = NoThread
  Threads = {t1, t2}
  a = a
  b = b
  c = c
  Names = {a, b, c}
  Policies <- Supported
INVARIANTS OneShot RegistrySound
