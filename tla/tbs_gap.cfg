SPECIFICATION FairSpec
CONSTANTS
  Clients = {c1}
  o1 = o1
  o2 = o2
  o3 = o3
  s1 = s1
  s2 = s2
  s3 = s3
  s4 = s4
  ObjHandles = {o1}
  SessHandles = {s1, s2, s3}
  VObjHandles = {o1}
  VSessHandles = {s1, s2, s3, s4}
  MaxLoadedSessions = 2
  ContextGap = 2
  Perm = Perm
  RhNull = RhNull
  NoHandle = NoHandle
  NoClient = NoClient
  Ops <- GapWork
  MaxEntities = 4
  MaxUse = 6
  MaxSaves = 4
  MaxResets = 0
  MaxRefs = 2
INVARIANTS NothingLost
PROPERTIES DispatchEnds
