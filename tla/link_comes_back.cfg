SPECIFICATION FairSpec
CONSTANTS
  t1 = t1
  n1 = n1
  n2 = n2
  n3 = n3
  k1 = k1
  k2 = k2
  Conns = {n1, n2, n3}
  Keys = {k1}
  Tunnels = {}
  None = None
  Doublings = 1
  MaxViews = 1
  MaxChunk = 1
PROPERTIES WaitsEnd
