\* The limits are small enough to be met: one export at a time, one transfer, two
\* stages.
CONSTANTS
  ServiceIds = {"s1", "s2"}
  DestIds = {"d1", "d2", "d3"}
  ServiceAdmins = {"a1", "a2"}
  Bodies = {"x", "y"}
  Profiles = {1, 2}
  MaxDestinations = 2
  MaxRevisions = 2
  MaxChanges = 4
  Superadmins = {"r1", "r2"}
  Admins = {"a"}
  Members = {"u"}
  Invitees = {"n"}
  ActingKeys = {"service"}
  RequestSlots = {1, 2}
  IdempotencyKeys = {"k1"}
  MaxRequests = 2
  KeyIds = {1, 2, 3}
  Clients = {1, 2}
  KeyServices = {"s"}
  Managers = {"root", "adm"}
  PoolSize = 1
  PerWindow = 1
  KeyWindow = 1
  MaxEntries = 3
  MaxKeyTime = 1
  MaxKeyWork = 3
  ListedRecords = {1, 2, 3, 4}
  Issued = {1, 2, 4}
  Connections = {1, 2, 3}
  FirstUsers = {1, 2, 4}
  Svcs = {"s1", "s2"}
  PageSize = 1
  RevocationLimit = 2
  Retention = 1
  MaxListTime = 1
  MaxListWork = 3
  ExportRequests = {1, 2, 3}
  MaxConcurrent = 1
  Attempts = 1
  RateWindow = 1
  AuthorizationTTL = 1
  MaxGen = 2
  MaxExportTime = 1
  ExportCalls = {"e1"}
  ImportCalls = {"i1"}
  Chunks = 2
  Skew = 1
  CapabilityTTL = 2
  TransferTTL = 1
  MaxTransfers = 1
  MaxActive = 2
  ReplayCapacity = 2
  MaxClock = 2
  MaxEvents = 2
  StorageKeys = {1, 2}
  StagingActors = {"a"}
  PreviewIds = {1, 2}
  StagingRequests = {1, 2}
  MaxStages = 2
  StageTTL = 1
  MaxHours = 1
  MaxConfig = 2
SPECIFICATION AdministrationSpec
CHECK_DEADLOCK FALSE
INVARIANTS
  ExportsCoherent
  TransfersOnceAndWhole
  
PROPERTIES
  
  
  KeysKept
  
