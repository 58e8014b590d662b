SPECIFICATION BackendsSpec
CONSTANTS
  ID = {i1}
  Addr = {a1}
  None = None
  TTL = {0}
  DefaultTTL = 0
  MaxTTL = 0
  MaxServices = 0
  Sub = {w}
  Buffer = 1
  Cfg = {c1, c2}
  Startup = c1
  Reload = {r1}
  Build = {b1, b2, b3, b4}
  NoConn = NoConn
  User = {u1, u2}
  Conn = {k1, k2}
  MaxIdle = 1
  IdleTimeout = 1
  MaxLifetime = 1
  PoolEnabled = TRUE
  MaxDials = 3
INVARIANT ServicesInUse
INVARIANT UpdatesPaired
INVARIANT PoolClean
INVARIANT ActiveTracksUse
INVARIANT NoSocketLeak
INVARIANT DroppedExact
INVARIANT L4NeverPooled
SYMMETRY Symmetry
CHECK_DEADLOCK FALSE
