SPECIFICATION Spec
CONSTANTS
  Clients = {c1, c2}
  o1 = o1
  o2 = o2
  o3 = o3
  s1 = s1
  s2 = s2
  s3 = s3
  s4 = s4
  ObjHandles = {o1, o2}
  SessHandles = {s1, s2, s3}
  VObjHandles = {o1, o2}
  VSessHandles = {s1, s2, s3}
  MaxLoadedSessions = 2
  ContextGap = 9
  Perm = Perm
  RhNull = RhNull
  NoHandle = NoHandle
  NoClient = NoClient
  Ops <- SharedWork
  MaxEntities = 3
  MaxUse = 6
  MaxSaves = 2
  MaxResets = 0
  MaxRefs = 2
SYMMETRY Symmetry
INVARIANTS CheckConsistency NothingLost BufferHandlesStayValid
PROPERTIES SpaceFailsOnlyIfAllPinned
