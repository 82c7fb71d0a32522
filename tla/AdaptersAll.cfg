\* Two callers on every adapter; the pool may be closed.
SPECIFICATION Spec
CONSTANTS
  c1 = c1
  c2 = c2
  x1 = x1
  x2 = x2
  None = None
  Callers <- MCCallers
  Conns <- MCConns
  Dialects <- AllDialects
  Batchers <- MCBatchers
  MaxOps <- MCMaxOps
  MaxMarks = 2
  Rows = 2
CONSTRAINT NotFoul
INVARIANTS
  TypeOK
  WorkHonest
  ConnectionsKept
  BatchPrefix
CHECK_DEADLOCK FALSE
