SPECIFICATION DeploymentsSpec
CONSTANTS
  Absent = Absent
  Commands = {a, b}
  Versions = {1, 2, 3}
  Folders = {inside, outside}
  Inside = inside
  Passwords = {1, 2}
  Mixes <- Supported
  Operators = {a, b}
  Nobody = Nobody
  Nothing = Nothing
  Images = {1, 2}
  Configs = {1, 2}
  Secrets = {1, 2}
  PastMax = 1
  MaxCommands = 3
  FirewallPorts = {"https"}
  Editors = {a, b}
  IniFiles <- Profiles
  Environments <- Variables
  MaxEdits = 2
  MaxPages = 1
  NoEditor = NoEditor
  Assets = {"executable", "signature"}
  MaxAttempts = 3
  MaxMeddling = 2
  Anchor = root
  Directories = {d1, d2}
  Leaves = {l1}
  Strangers = {s1}
  Missing = Missing
  Ladder <- SemanticOrder
  SupportedVersions <- SupportedLine
  Platforms = {"x86_64", "aarch64"}
  Host = "x86_64"
  SigningKeys = {"k1", "k2"}
  Updaters = {a, b}
  MaxUpdates = 2
  Other = Other
  Unsigned = Unsigned
  HandBuilt = HandBuilt
  ImageManifest <- BuildOutput
  Layouts <- RootIndexes
SYMMETRY Interchangeable
CHECK_DEADLOCK FALSE
INVARIANTS NativeSound ComposeSound SetupAllOrNothing PublicationSound PulledIsAttested StaysAsInspected
PROPERTIES StoppedStaysStopped EditsSound UpdatesSound
