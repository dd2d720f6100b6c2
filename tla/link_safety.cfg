SPECIFICATION Spec
CONSTANTS
  t1 = t1
  n1 = n1
  n2 = n2
  n3 = n3
  k1 = k1
  k2 = k2
  Conns = {n1, n2, n3}
  Keys = {k1, k2}
  Tunnels = {t1}
  None = None
  Doublings = 1
  MaxViews = 2
  MaxChunk = 2
SYMMETRY Symmetry
INVARIANTS TypeOK OneLink TimersFitTheState OneKeyUntilForgotten WatchesAgree ShowsTheLatest LadderClimbs
PROPERTY KeepsTrust
