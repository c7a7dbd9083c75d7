SPECIFICATION FairSpec
CONSTANTS
  Clients = {c1, c2}
  MaxConnections = 1
  MaxPublished = 2
  Nobody = Nobody
INVARIANTS SlotsExact NoLeak InOrder
PROPERTIES PoolSpec NoZombie NoStarvation
