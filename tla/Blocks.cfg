SPECIFICATION BlocksSpec
CONSTANTS
  Capacity = 4
  Rates = {1, 3}
  Costs = {0, 1, 2, 5}
  Request = {q1, q2}
  Timeout = 1
  Burst = 1
  FillRates = {1}
  MaxTicks = 1
  Backend = {"b1", "b2", "b3"}
  Caller = {c1, c2}
  None = None
  Weight <- BackendWeight
  Lists <- BackendLists
  CounterMod = 5
  MaxChanges = 2
  Symbol = {"/", "a", "b", "h", "g", "80"}
  Templates <- RouteTemplates
  Requests <- RoutedRequests
  MaxAdds = 4
  Tokens <- OtherTokens
  Claims <- TokenClaims
  Configs <- AccessConfigs
  Origins = {"", "o1", "o2"}
  Headers <- AuthHeaders
  MaxClock = 4
  Segment = {"a", "b", "g1", "heartbeat"}
  Bodies <- PostBodies
  Paths <- AskedPaths
  Fresh <- GeneratedIDs
  MaxServices = 2
  Files <- ConfigFiles
  Default <- Defaults
  Grace = 1
  MaxInFlight = 1
INVARIANT ReportsOwed
INVARIANT CountersSound
INVARIANT WithinBudget
INVARIANT NoFalseAlarm
INVARIANT BestRoute
INVARIANT ValidIffGenuine
INVARIANT MiddlewareSound
INVARIANT EndpointsTrue
INVARIANT LoadedIsServable
INVARIANT ShutdownClean
PROPERTY ImplementsBudget
PROPERTY Terminates
INVARIANT SplitByWeight
INVARIANT MetricsTrue
PROPERTY FairChoice
CHECK_DEADLOCK FALSE
