\* Two worker threads and the scheduler; three requests, two runs.
SPECIFICATION CampSpec
CONSTANTS
    Clients = {c1, c2}
    Scheduler = Scheduler
    NoRow = NoRow
    Size = 1
    Interval = TRUE
    MaxRepeat = 2
    MaxRequests = 3
    MaxRuns = 2
SYMMETRY ClientSymmetry
CHECK_DEADLOCK FALSE
INVARIANTS
    CampTypeOK
    EveryRunAccounted
    StoredRunsArePrefix
