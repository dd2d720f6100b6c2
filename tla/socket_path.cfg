SPECIFICATION Spec
CONSTANTS
  p1 = p1
  p2 = p2
  Processes = {p1, p2}
  Nobody = Nobody
  MaxBinds = 3
INVARIANTS TypeOK NothingLeftBehind TakerIsReachable
