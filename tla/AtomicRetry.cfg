\* Three calls, one connection or two, one retry each, callbacks that nest;
\* one call asks for an isolation level, another swallows errors.
SPECIFICATION FairSpec
CONSTANTS
  Blocks = {b1, b2, b3}
  PoolSizes = {1, 2}
  Attempts = 2
  Isolated = {b1}
  Swallowing = {b2}
  Nested = TRUE
  Top = Top
INVARIANTS TypeOK AllOrNothing NothingLeftOpen
PROPERTIES RetryFromCleanSlate ImplementsPromise EveryBlockSettles
CHECK_DEADLOCK FALSE
