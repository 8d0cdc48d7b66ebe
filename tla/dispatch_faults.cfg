SPECIFICATION Spec
CONSTANTS
  authorized = authorized
  mine = mine
  UserCommands = {authorized}
  AuthHandles <- TwoHandles
  UserSessions = {mine}
  Offered = {"AllowErrors", "GetCpHash"}
  SessionLists <- MineOnly
  h1 = h1
  h2 = h2
  h3 = h3
  Handles = {h1, h2}
  NoHandle = NoHandle
  NoCommand = NoCommand
  Errors = {"Auth"}
  TpmHashes = {"Sha256"}
  NeedsHMAC = TRUE
  Unreliable = {"StartAuthSession", "FlushContext"}
  MaxCancels = 2
  MaxAttempts = 1
  MaxNvRetries = 1
  RateLimited = {"StartAuthSession", "FlushContext"}
  MaxDepth = 3
  MaxPermanent = 1
INVARIANTS TypeOK TrueMeansDone NoDeadSession
PROPERTIES CallReturns
