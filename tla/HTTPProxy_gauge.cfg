SPECIFICATION Spec
CONSTANTS
  Request = {q1, q2}
  Timeout = 1
  Burst = 1
  FillRates = {1}
  MaxTicks = 1
INVARIANT GaugeTrue
CHECK_DEADLOCK FALSE
