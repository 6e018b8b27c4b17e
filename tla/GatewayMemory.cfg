CONSTANTS
  f1 = f1  f2 = f2  f3 = f3  f4 = f4  u1 = u1  u2 = u2  s1 = s1  s2 = s2
  b1 = b1  b2 = b2  r1 = r1
  NoReference = NoReference
  NoSubject = NoSubject
  NoSecret = NoSecret
  NoBinding = NoBinding
  References = {f1, f2, f3}
  Subjects = {u1, u2}
  Secrets = {s1, s2}
  Credentials = {s1}
  Bindings = {b1, b2}
  Requests = {r1}
  IdleTtl = 2
  MaxTtl = 3
  MaxRecords = 2
  MaxPerSubject = 2
  MaxTime = 4
  Jobs = {f1, f2, f3, f4}
  MaxTotal = 4
  MaxPerSource = 3
  MaxPerService = 3
  PoolWorkers = 2
  QueueMax = 2
  SubjectActiveMax = 1
  SubjectQueueMax = 1
  MaxFailures = 1
  FlowStates = {1, 2}
  Providers = {1, 2}
  SoleProvider = 1
  FlowTtl = 1
  CacheTtl = 1
  Timeout = 1
  MaxFlows = 1
  MaxInflight = 2
  MaxPerProvider = 1
  MaxCacheRecords = 1
  MaxKey = 2
  LastMoment = 2
  MaxRestarts = 1
SYMMETRY Symmetric
SPECIFICATION MemorySpec
CHECK_DEADLOCK FALSE
INVARIANT CapacityKept
PROPERTIES TableKept 
