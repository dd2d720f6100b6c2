SPECIFICATION Spec
CONSTANTS
    N = 2
    All <- OneTwo
    Needed <- One
    Keys = {"enter"}
    Requests = {}
    MaxRequests = 0
    MaxBatches = 2
    MaxReads = 3
    HasFeed = FALSE
    OutsideChanges = FALSE
    ReadsFail = FALSE
INVARIANTS OneRunPerTunnel
