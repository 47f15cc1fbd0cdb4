\* One run of each shape of scenario, two agents of one platform, two retries.
SPECIFICATION SafetySpec
CONSTANTS
    a1 = a1
    a2 = a2
    Agents = {a1, a2}
    NoAgent = NoAgent
    NoTask = NoTask
    Scenarios = {"fork", "pair", "empty", "cycle"}
    Plan <- MCPlan
    PlatformOf <- LinuxOnly
    MaxRuns = 1
    MaxRetries = 2
SYMMETRY AgentSymmetry
CHECK_DEADLOCK FALSE
INVARIANTS
    TypeOK
    RunStatusMatchesSteps
    AbortCascadeComplete
    OpenRunHasNoAbortedStep
    DispatchedStepHasOwner
    DoubleExecutionOnlyAfterAbort
    StuckOnlyBehindToleratedFailure
PROPERTIES
    DispatchAfterSuccess
    SettledUnlessCutShort
