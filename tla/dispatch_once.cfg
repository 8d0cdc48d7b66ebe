SPECIFICATION Spec
CONSTANTS
  authorized = authorized
  mine = mine
  UserCommands = {authorized}
  AuthHandles <- OneHandle
  UserSessions = {mine}
  Offered = {"SetSessions", "AllowErrors", "ExpectResponses", "ExpectMoreResponses", "DisableExceptions", "EnableExceptions", "AssertPhysicalPresence", "GetCpHash", "DoNotDispatchCommand", "SetWarningHandler", "SetErrorHandler"}
  SessionLists <- MineSecond
  h1 = h1
  h2 = h2
  h3 = h3
  Handles = {h1, h2, h3}
  NoHandle = NoHandle
  NoCommand = NoCommand
  Errors = {"Auth"}
  TpmHashes = {"Sha384", "Sha256"}
  NeedsHMAC = TRUE
  Unreliable = {"ReadPublic", "GetCapability"}
  MaxCancels = 2
  MaxAttempts = 2
  MaxNvRetries = 2
  RateLimited = {authorized}
  MaxDepth = 1
  MaxPermanent = 1
INVARIANTS TemporarySessionsAreFlushed
PROPERTIES ModifiersAreOneShot
SYMMETRY Symmetry
