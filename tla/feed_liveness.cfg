SPECIFICATION FairConnectedSpec
CONSTANTS
  c1 = c1
  c2 = c2
  t1 = t1
  t2 = t2
  l1 = l1
  l2 = l2
  Acceptor = Acceptor
  Stopper = Stopper
  None = None
  Clients = {c1}
  Served = {c1}
  Tunnels = {t1}
  Publishers = {"p1"}
  Loops = {l1}
  Script <- TwoViews
  MaxClients = 2
  MaxWatch = 1
  SendQueue = 1
  Lines <- Watching
PROPERTIES PublishReturns ServeStops NothingLeaks
