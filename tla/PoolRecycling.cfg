\* Two connections at most, recycled after two uses or by age, reaped when stale,
\* with two drains in flight. Four identities bound the connections created.
SPECIFICATION Spec
CONSTANTS
  Clients = {k1, k2, k3}
  Conns = {c1, c2, c3, c4}
  Drains = {d1, d2}
  Max = 2
  MaxQueue = 1
  MaxUseCount = 2
  AgeLimited = TRUE
  ReapEnabled = TRUE
  NoConn = NoConn
SYMMETRY Symmetry
INVARIANTS TypeOK NoSharing PoolBound Accounted NoIdleWhileWaiting
CHECK_DEADLOCK FALSE
