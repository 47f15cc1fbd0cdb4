\* Both commands; run-local over every scenario of up to three steps.
SPECIFICATION CliSpec
CONSTANTS
    MaxFailures = 3
    NoTask = NoTask
    Plans <- MCPlans
    NoPlan = NoPlan
CHECK_DEADLOCK FALSE
INVARIANTS
    BeaconTypeOK
    AtMostOneLateTask
    RejectedIffIllFormed
    ExecutedInDagOrder
PROPERTIES
    RunObeysStop
    RunGivesUp
