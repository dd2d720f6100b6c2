SPECIFICATION FairSpec
CONSTANTS
    N = 1
    All <- One
    Needed <- One
    Keys = {"p", "enter"}
    Requests = {"refresh", "ping"}
    MaxRequests = 1
    MaxBatches = 1
    MaxReads = 2
    HasFeed = TRUE
    OutsideChanges = TRUE
    ReadsFail = TRUE
PROPERTIES TableCatchesUp WorkEnds
