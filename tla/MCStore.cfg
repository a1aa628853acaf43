\* A subject with two namespaces and another one, two items, three audited operations.
CONSTANTS
  s1 = s1  s2 = s2  n1 = n1  n2 = n2  i1 = i1  i2 = i2
  b1 = b1  b2 = b2  k1 = k1  m1 = m1  t1 = t1  a1 = a1  a2 = a2  d1 = d1  d2 = d2
  unbounded = unbounded  bounded = bounded
  Subjects = {s1, s2}
  Namespaces = {n1, n2}
  ItemIds = {i1, i2}
  Bodies = {b1, b2}
  BodySize <- MCBodySize
  Tags = {t1}
  Metas = {m1}
  AuditMetas = {a1, a2}
  Buckets = {d1, d2}
  BucketOf <- MCBucketOf
  Keys = {k1}
  Budgets = {unbounded, bounded}
  Unbounded = unbounded
  Transactions <- MCTransactions
  Streams <- MCStreams
  Recalls <- MCRecalls
  Ceilings <- MCCeilings
  Purges <- MCPurges
  MaxAudit = 3
  MaxAccess = 1
SPECIFICATION Spec
INVARIANTS
  SchemaHolds
  VectorsFollowItems
  CapacityCounted
  ReplaysAreAudited
  AggregatesCoverAudit
PROPERTIES
  HistoryIsPermanent
  HonoursTheContract
CHECK_DEADLOCK FALSE
