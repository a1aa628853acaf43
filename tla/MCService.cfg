CONSTANTS
  Subjects = {"ann", "bob", "_admin"}
  Namespaces = {"n", "default", "_admin", "_purged"}
  ItemIds = {1, 2}
  Bodies = {"b"}
  BodySize <- MCBodySize
  Tags = {}
  Metas = {"m"}
  AuditMetas <- AuditColumns
  Buckets <- MCBuckets
  BucketOf <- MCBucketOf
  Keys = {}
  Budgets = {"unbounded"}
  Unbounded = "unbounded"
  Transactions = {}
  Streams <- MCStreams
  Recalls = {}
  Ceilings = {}
  Purges = {}
  MaxAudit = 10
  MaxAccess = 0
  Stored <- MCStored
  Logged <- MCLogged
  Home = "t"
  Tenants = {"t", "u"}
  Processes = {"http", "stdio", "cli"}
  TransportOf <- MCTransportOf
  FirstUp = {"http"}
  Operator = "bob"
  Directories = {"_admin", "_purged"}
  FirstKeys <- MCFirstKeys
  NewKeys <- MCNewKeys
  Presented <- MCPresented
  Requests <- MCRequests
  Resources <- MCResources
  FirstProfile = "balanced"
  Configs = {"strict", "unreachable"}
  ConfigOf <- MCConfigOf
  ProfilesPut = {"forensic", "balanced"}
  Callers = {c1, c2}
  MaxCalls = 2
  MaxStarts = 2
  MaxEdits = 1

SYMMETRY MCSymmetry

SPECIFICATION ServiceSpec
INVARIANTS
  ScopesAreKept
  SettingsFollowTheAudit
  ExportsAreAudited
  ChangesAreCounted
PROPERTIES
  KeysStay
  ChangesAreAuthorised
  PurgeHonoursRetention
\* the bounds on calls, starts and edits
CHECK_DEADLOCK FALSE
