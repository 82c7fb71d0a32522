\* MySQL only: what follows a COMMIT that fails.
SPECIFICATION Spec
CONSTANTS
  c1 = c1
  c2 = c2
  x1 = x1
  x2 = x2
  None = None
  Callers <- MCCallers
  Conns <- MCConns
  Dialects <- OnlyMysql
  Batchers = {}
  MaxOps <- MCMaxOps
  MaxMarks = 0
  Rows = 0
INVARIANT Pinned
CHECK_DEADLOCK FALSE
