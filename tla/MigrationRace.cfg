\* Two migrations; two runners of two releases and two rollbacks.
SPECIFICATION FairSpec
CONSTANTS
  Runners = {r1, r2}
  Undoers = {u1, u2}
  N = 2
  Older = {r2}
  Length <- Releases
  Reversible = {1, 2}
  Locking = {1}
INVARIANTS TypeOK RecordMatchesSchema InOrder ReportHonest
PROPERTIES EveryCallSettles
CHECK_DEADLOCK FALSE
