\* Two tenants, a pool of one connection, three calls, two faults.
CONSTANTS
  t1 = t1  t2 = t2  k1 = k1
  Tenants = {t1, t2}
  Keys = {k1}
  MaxCalls = 3
  Ops <- MCOps
  MaxOpen = 1
  MaxFaults = 2
SPECIFICATION PoolSpec
INVARIANTS
  PoolInv
  WritesAreSerial
  KeysApplyOnce
  NoStandstill
CHECK_DEADLOCK FALSE
