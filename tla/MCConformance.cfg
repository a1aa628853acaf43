CONSTANTS
  Subjects = {"s", "other-s", "bystander"}
  Namespaces = {"n", "other-n"}
  ItemIds = {1, 2, 3, 4, 5, 6, 7, 8, 9, 90}
  Bodies = {"note", "short", "long", "mat", "rug", "revenue", "zstandard", "record",
            "public", "personal", "alpha", "beta", "gamma", "cats", "marker",
            "other model"}
  BodySize <- MCBodySize
  Tags = {"work", "home"}
  Metas <- MCMetas
  AuditMetas <- MCAuditMetas
  Buckets <- MCBuckets
  BucketOf <- MCBucketOf
  Keys = {"k"}
  Budgets = {"100 items", "unbounded"}
  Unbounded = "unbounded"
  Transactions = {}
  Streams = {}
  Recalls = {}
  Ceilings = {}
  Purges = {}
  MaxAudit = 0
  MaxAccess = 0
  Words <- MCWords
  Embedders = {"deterministic", "other"}
  EmbedderOf <- MCEmbedderOf
  DayLength = 100
  MaxPageLimit = 1000
  MaxBystander = 2

SPECIFICATION ConformanceSpec
INVARIANTS
  Conforms
  SuiteIsNotVacuous
\* a case ends
CHECK_DEADLOCK FALSE
