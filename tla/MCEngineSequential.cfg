\* One caller, three calls of any kind, with dropped calls and failing embeds.
CONSTANTS
  s1 = s1  n1 = n1  i1 = i1  i2 = i2  i3 = i3  i4 = i4  i5 = i5  f1 = f1  f2 = f2  k1 = k1  admin = admin
  c1 = c1  c2 = c2  none = none
  Subjects = {s1, admin}
  Namespaces = {n1}
  ItemIds = {i1, i2, i3, i4}
  Bodies <- MCBodies
  BodySize <- MCBodySize
  Tags = {}
  Metas <- MCMetas
  AuditMetas = {none}
  Buckets = {none}
  BucketOf <- MCBucketOf
  Keys = {k1}
  Budgets <- MCBudgets
  Unbounded <- MCUnbounded
  Transactions = {}
  Streams <- SequentialStreams
  Recalls = {}
  Ceilings = {}
  Purges = {}
  MaxAudit = 12
  MaxAccess = 3
  Callers = {c1}
  Requests <- SequentialRequests
  MaxCalls = 3
  MaxNow = 1
  Embeds = {TRUE, FALSE}
  NoLimit = none
  AdminScope <- Admin
  Detected <- LongDetected
  Seeds <- SequentialSeeds
  SeedBudgets <- SequentialBudgets
SPECIFICATION EngineSpec
INVARIANTS
  EngineInv
  ErasedStaysErased
PROPERTIES
  PinnedSurvive
  BudgetKept
  ProtectionIsExplicit
  ConsolidationKeepsContent
  MaintenanceReclaims
CHECK_DEADLOCK FALSE
