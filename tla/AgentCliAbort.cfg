\* run-local after its [ABORT].
SPECIFICATION CliSpec
CONSTANTS
    MaxFailures = 1
    NoTask = NoTask
    Plans <- MCSmallPlans
    NoPlan = NoPlan
CHECK_DEADLOCK FALSE
PROPERTIES
    AbortStopsTheRun
