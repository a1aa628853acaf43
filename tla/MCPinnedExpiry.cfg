\* A pinned row whose ttl has elapsed.
CONSTANTS
  w1 = w1  w2 = w2
  NoLimit = NoLimit
  Batches <- MCBatches
  Capacities <- MCCapacities
  Candidates <- MCCandidates
  Configs <- MCConfigs
  DuplicateThreshold = 98
  MergeThreshold = 50
  NearDuplicateFloor = 30
SPECIFICATION DecisionsSpec
INVARIANTS
  ExpiryDominatesProtection
CHECK_DEADLOCK FALSE
