SPECIFICATION CBSpec
CONSTANTS
  Caller = {c1, c2, c3, c4}
  FailureThreshold = 2
  SuccessThreshold = 2
  MaxHalfOpenRequests = 0
  Timeout = 2
  Window = 2
  CounterMod = 1
INVARIANT ProbesCapped
SYMMETRY Symmetry
