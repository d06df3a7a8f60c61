SPECIFICATION FairSpec
CONSTANTS
  Cookie = {c1, c2}
  Timer = {t1, t2}
  NULL = NULL
INVARIANTS CompleteOnce SampleHandled IntermediateIsPending
PROPERTIES ControlReturns EndIsReported
