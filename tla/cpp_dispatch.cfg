SPECIFICATION Spec
CONSTANTS
  s1 = s1
  s2 = s2
  a0 = a0
  a1 = a1
  e1 = e1
  e2 = e2
  PW = PW
  NoSession = NoSession
  NoError = NoError
  NoAuth = a0
  AuthValues = {a0, a1}
  HmacSessions = {s1, s2}
  Crypt <- NoCrypt
  SessionLists <- OneOrTwo
  Offered = {"Sessions", "AllowErrors", "DemandError", "ExpectError", "CpHash", "Audit"}
  Commands = {"Plain", "UseHierarchy", "HierarchyChangeAuth", "Clear",
              "NvReadPublic", "NvRead", "NvChangeAuth"}
  Errors = {e1}
  DeviceFails = TRUE
  MaxSessionNum = 2
  MaxRetries = 1
  MaxAudits = 1
INVARIANTS TypeOK LibraryAgrees AuthorizationHolds
PROPERTIES InvocationSpec
