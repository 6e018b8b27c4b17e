\* Two handlers on one credential, with one fault and repeated and late
\* requests, or two faults and neither; two rotations and three
\* crashes; two locators; two restores and two stops; four events.
CONSTANTS
  c1 = c1  v1 = v1  v2 = v2  k1 = k1  k2 = k2
  w1 = w1  w2 = w2  l1 = l1  l2 = l2
  NoLocator = NoLocator  NoValue = NoValue  NoKey = NoKey  NoCredential = NoCredential
  Credentials = {c1}
  Values = {v1, v2}
  Keys = {k1, k2}
  Workers = {w1, w2}
  Locators = {l1, l2}
  MaxVersion = 5
  MaxFaults = 2
  LateDelivery = FALSE
  Retries = FALSE
  q1 = q1  q2 = q2  Legacy = Legacy  NoVersion = NoVersion
  Requests = {q1, q2}
  RecordCount = 3
  BatchSize = 2
  Targets = {"vault", "identity"}
  MaxCrashes = 3
  Bodies = {"x", "y"}
  MaxGeneration = 2
  MaxStoppages = 2
  MaxCommits = 2
  MaxStops = 2
  LegacyEvents <- OneOfEach
  MaxEvents = 4
  Hour = 2
  Retention = 2
  Periods = {0, 1}
  BatchLimit = 1
  MaxTicks = 5
  MaxUpdates = 2
SPECIFICATION StoresSpec
CHECK_DEADLOCK FALSE
INVARIANTS
  RowsMatchVault
  
  ActivityCountedOnce
  IntentIffPending
  
  ApprovalsAreCurrent
PROPERTIES
  AuthorizationMovesForward
  RotationSafe
  ImplementsRecords
  RestoreIsAtomic
  InterruptedWorkEnds
  BacklogDrains
