SPECIFICATION DSpec
CONSTANTS
  ID = {i1}
  Addr = {a1}
  None = None
  TTL = {0}
  DefaultTTL = 0
  MaxTTL = 0
  MaxServices = 0
  Sub = {w}
  Buffer = 1
  Cfg = {c1, c2}
  Startup = c1
  Reload = {r1}
  Build = {b1, b2, b3, b4}
INVARIANT ClosedOnce
SYMMETRY Symmetry
