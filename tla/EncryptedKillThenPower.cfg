SPECIFICATION UploadsSpec
CONSTANTS
  Blank = Blank
  Torn = Torn
  Ids = {f}
  Chunks = {c1}
  Values = {v1}
  Routes = {"file"}
  Faults <- KillThenPower
  FileIds = {x}
  Passwords = {p, q}
  Readers = {r}
  ChunkSize = 2
  TagSize = 1
  FileSizes = {0, 3}
  SizeLimit = 8
  MaxFree = 12
  MaxUploads = 2
  MaxDamage = 1
  PieceSize = 3
  MaxPieces = 3
  TagBytes = 2
  MaxMetadata = 4
  SaltBytes = 2
  PrefixBytes = 1
  OperatorLimits = {0, 3, 20}
  StateDirs = {d1, d2}
  Folders = {f1, f2}
  Files = {f, g}
  Processes = {p1}
  NoFolder = NoFolder
  MaxRuns = 3
  Uploads = {f, g}
  MaxChanges = 2
  Accounts = {root, ann}
  Root = root
  Shells = {f, g}
  FolderPaths <- FoldersOfHost
  HostPaths <- PathsOfHost
  Leads <- DirectoryAt
  Free = Free
  MaxIssued = 3
  Scopes = {"storage"}
CHECK_DEADLOCK FALSE
PROPERTY CompletedRemain
