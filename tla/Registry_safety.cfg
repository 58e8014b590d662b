SPECIFICATION FairSpec
CONSTANTS
  ID = {i1, i2, i3}
  Addr = {a1}
  None = None
  TTL = {0, 1}
  DefaultTTL = 0
  MaxTTL = 1
  MaxServices = 2
  Sub = {s1}
  Buffer = 1
INVARIANT SendsOnOpen
INVARIANT EventsComplete
PROPERTY ExpiredIsRemoved
