CONSTANTS
  Threads = {t1, t2}
  Samples = {s1, s2}
  MaxWaiting = 3
SPECIFICATION Spec
INVARIANT NoneInsideWhenDeleted
SYMMETRY Symmetry
CHECK_DEADLOCK FALSE
