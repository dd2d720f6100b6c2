SPECIFICATION Spec
CONSTANTS
  p1 = p1
  p2 = p2
  t1 = t1
  t2 = t2
  Processes = {p1, p2}
  Tunnels = {t1, t2}
  MaxRuns = 5
  MaxEdits = 1
SYMMETRY Symmetry
INVARIANTS TypeOK ListedIsWritten ReportsAreTrue
PROPERTIES KeysAreKept
CHECK_DEADLOCK FALSE
