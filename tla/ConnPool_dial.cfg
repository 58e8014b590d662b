SPECIFICATION PoolSpec
CONSTANTS
  NoConn = NoConn
  User = {u1, u2}
  Conn = {k1, k2}
  MaxIdle = 1
  IdleTimeout = 1
  MaxLifetime = 1
  PoolEnabled = TRUE
  MaxDials = 3
INVARIANT CountedWhileDialing
CHECK_DEADLOCK FALSE
