CONSTANTS
  Clients = {c1, c2}
  SLOT_COUNT = 3
  VERSIONS = 4
SPECIFICATION FairSpec
INVARIANTS PoolSafe
PROPERTIES LockFree
