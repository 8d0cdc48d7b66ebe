SPECIFICATION Spec
CONSTANTS
  s1 = s1
  s2 = s2
  a0 = a0
  a1 = a1
  e1 = e1
  e2 = e2
  PW = PW
  NoSession = NoSession
  NoError = NoError
  NoAuth = a0
  AuthValues = {a0, a1}
  HmacSessions = {s1}
  Crypt <- BothWays
  SessionLists <- OneList
  Offered = {"Sessions"}
  Commands = {"Plain", "UseHierarchy"}
  Errors = {e1}
  DeviceFails = FALSE
  MaxSessionNum = 1
  MaxRetries = 1
  MaxAudits = 0
INVARIANTS ResponsesAreDecrypted
