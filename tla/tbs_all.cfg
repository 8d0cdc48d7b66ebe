SPECIFICATION FairSpec
CONSTANTS
  Clients = {c1, c2}
  o1 = o1
  o2 = o2
  o3 = o3
  s1 = s1
  s2 = s2
  s3 = s3
  s4 = s4
  ObjHandles = {o1}
  SessHandles = {s1}
  VObjHandles = {o1, o2}
  VSessHandles = {s1}
  MaxLoadedSessions = 1
  ContextGap = 2
  Perm = Perm
  RhNull = RhNull
  NoHandle = NoHandle
  NoClient = NoClient
  Ops <- AllOps
  MaxEntities = 2
  MaxUse = 5
  MaxSaves = 2
  MaxResets = 1
  MaxRefs = 2
INVARIANTS TypeOK DistinctNames
PROPERTIES DispatchEnds
