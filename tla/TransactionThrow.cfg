\* Two tasks; one throws while the other runs on.
SPECIFICATION Spec
CONSTANTS
  Tasks = {t1, t2}
  Wrapper = Wrapper
  MaxCalls = 2
  Marks = {}
INVARIANTS ThrowLeavesNothing
CHECK_DEADLOCK FALSE
