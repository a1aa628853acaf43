\* Two admissions that both read an empty scope.
CONSTANTS
  s1 = s1  n1 = n1  i1 = i1  i2 = i2  i3 = i3  i4 = i4  i5 = i5  f1 = f1  f2 = f2  k1 = k1  admin = admin
  c1 = c1  c2 = c2  none = none
  Subjects = {s1, admin}
  Namespaces = {n1}
  ItemIds = {i1, i2, i3}
  Bodies <- MCBodies
  BodySize <- MCBodySize
  Tags = {}
  Metas <- MCMetas
  AuditMetas = {none}
  Buckets = {none}
  BucketOf <- MCBucketOf
  Keys = {k1}
  Budgets <- MCBudgets
  Unbounded <- MCUnbounded
  Transactions = {}
  Streams <- NoStreams
  Recalls = {}
  Ceilings = {}
  Purges = {}
  MaxAudit = 12
  MaxAccess = 3
  Callers = {c1, c2}
  Requests <- AdmitRequests
  MaxCalls = 2
  MaxNow = 0
  Embeds = {TRUE}
  NoLimit = none
  AdminScope <- Admin
  Detected <- NoneDetected
  Seeds <- NoRows
  SeedBudgets <- UpToOne
SPECIFICATION EngineSpec
PROPERTIES
  BudgetKept
CHECK_DEADLOCK FALSE
