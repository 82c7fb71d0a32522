\* Every kind of scan of one table, with a write at any moment.
SPECIFICATION Spec
CONSTANTS
  r1 = r1
  r2 = r2
  None = None
  Readers <- MCReaders
  Rows <- MCRows
  Key <- MCKey
  Sizes = {0, 2}
  MaxPage = 2
  MaxWrites = 1
INVARIANTS
  CursorOnce
  KeysetComplete
  OffsetHonest
CHECK_DEADLOCK FALSE
