CONSTANTS
  Subjects = {"s"}
  Namespaces = {"n"}
  ItemIds = {1, 2, 3, 4, 5}
  Bodies = {"b"}
  BodySize <- MCBodySize
  Tags = {}
  Metas <- MCMetas
  AuditMetas <- MCAuditMetas
  Buckets <- MCBuckets
  BucketOf <- MCBucketOf
  Keys = {}
  Budgets = {"unbounded"}
  Unbounded = "unbounded"
  Transactions <- MCTransactions
  Streams <- MCStreams
  Recalls = {}
  Ceilings = {}
  Purges <- MCPurges
  MaxAudit = 20
  MaxAccess = 0
  Words <- MCWords
  Embedders = {"e"}
  EmbedderOf <- MCEmbedderOf
  DayLength = 1
  MaxPageLimit = 5
  Stored <- MCStored
  Logged <- MCLogged
  Walked <- MCWalked
  Filters <- MCFilters
  Requested = {0, 1, 15}
  MaxAuditLimit = 2
  Batch = 2
  UsizeMax = 15
  MaxRewrites = 1
  MaxWrites = 2

SPECIFICATION PagingSpec
INVARIANTS
  ItemWalksAreExact
PROPERTIES
  AuditWalkIsExact
  WalksEnd
\* a walk ends
CHECK_DEADLOCK FALSE
