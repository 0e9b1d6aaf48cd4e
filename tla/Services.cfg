SPECIFICATION Spec
CONSTANTS
  Threads = {a, b}
  Tokens = {x, y}
  Users = {u1, u2}
  NoUser = NoUser
  MaxSessions = 1
  AbsoluteLifetime = 3
  IdleTimeout = 2
  MaxClock = 3
  MaxCreations = 2
  Clients = {a, b}
  SessionIds = {x, y, z}
  NoKey = NoKey
  MaxKeys = 2
  Ttl = 2
  MaxNow = 3
  Servers = {a, b}
  NoServer = NoServer
  Lifetime = 2
  Window = 1
  BaseDelay = 1
  MaxDelay = 2
  RetryAfter = 2
  MaxTime = 3
  MaxCerts = 3
  MaxStarts = 2
  Routes = {"read", "download", "mutate", "upload", "encrypted", "control", "session", "ws"}
  MaxBody = 2
  KeepAliveMax = 2
  MaxRequests = 2
  FrameTimeout = 1
  SessionIdleTimeout = 2
  MaxFrames = 3
  MaxSeconds = 6
  DecodedLimit = 3
  Words = {"a", "uploads"}
  RandomSuffixes = {"1", "2"}
  MaxTokens = 3
  MaxBasic = 2
  MaxAttempts = 64
  HttpClients = {c}
  MaxContent = 2
  KeepAliveAnswers = 2
  Streams <- CompressedStreams
SYMMETRY Symmetric
CHECK_DEADLOCK FALSE
INVARIANTS RequestsGuarded ExchangesSound HalfFramesExpire PayloadSound AckedReadable EndedStayEnded ServedWithinLag OneOrderPerRenewal
PROPERTY RenewalSound
