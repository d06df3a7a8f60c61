SPECIFICATION Spec
CONSTANTS
  Cookie = {c1, c2}
  Timer = {t1, t2}
  NULL = NULL
INVARIANT StoppedHasNoAdvise
SYMMETRY Symmetry
