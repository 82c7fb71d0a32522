\* Two tasks of one callback, up to six calls, a connection that may be lost.
SPECIFICATION Spec
CONSTANTS
  Tasks = {t1, t2}
  Wrapper = Wrapper
  MaxCalls = 6
  Marks = {"TIMED_OUT"}
INVARIANTS TypeOK SavepointExact NothingEscapes EndsReleased StateHonest
SYMMETRY TaskSymmetry
CHECK_DEADLOCK FALSE
