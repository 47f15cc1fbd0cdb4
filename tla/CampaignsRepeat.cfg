\* The same, for the repeats.
SPECIFICATION CampSpec
CONSTANTS
    Clients = {c1, c2}
    Scheduler = Scheduler
    NoRow = NoRow
    Size = 1
    Interval = TRUE
    MaxRepeat = 2
    MaxRequests = 2
    MaxRuns = 3
SYMMETRY ClientSymmetry
CHECK_DEADLOCK FALSE
INVARIANTS
    RepeatsAreRequeued
