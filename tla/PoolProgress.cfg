\* No recycling, so nobody is overtaken; the reaper still evicts.
\* Four clients for two connections: two can wait and a third arrive.
SPECIFICATION FairSpec
CONSTANTS
  Clients = {k1, k2, k3, k4}
  Conns = {c1, c2, c3, c4}
  Drains = {d1}
  Max = 2
  MaxQueue = 2
  MaxUseCount = 0
  AgeLimited = FALSE
  ReapEnabled = TRUE
  NoConn = NoConn
PROPERTIES ImplementsAllocator EveryWaiterSettles DrainEnds
CHECK_DEADLOCK FALSE
