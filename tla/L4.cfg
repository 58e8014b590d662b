SPECIFICATION L4Spec
CONSTANTS
  Client = {c1, c2}
  Stopper = {s1, s2}
  Addr = {a1}
  None = None
  WithBreakers = TRUE
  Caller = {r1, r2, r3}
  FailureThreshold = 2
  SuccessThreshold = 3
  MaxHalfOpenRequests = 1
  Timeout = 2
  Window = 2
  CounterMod = 2
INVARIANT DrainedIsIdle
INVARIANT CountersExact
INVARIANT OneBreaker
INVARIANT NoOrphanSlot
INVARIANT TotalsBalance
PROPERTY NoAddDuringWait
PROPERTY StopReturns
PROPERTY OpensOnlyOnBurst
PROPERTY ImplementsGate
PROPERTY Recovers
CHECK_DEADLOCK FALSE
