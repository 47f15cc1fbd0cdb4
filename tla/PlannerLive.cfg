\* Two runs of which the first must not starve the second.
SPECIFICATION Spec
CONSTANTS
    a1 = a1
    a2 = a2
    Agents = {a1, a2}
    NoAgent = NoAgent
    NoTask = NoTask
    Scenarios = {"pair", "solo", "empty"}
    Plan <- MCPlan
    PlatformOf <- MixedPlatforms
    MaxRuns = 2
    MaxRetries = 1
CHECK_DEADLOCK FALSE
PROPERTIES
    RunningRunIsServed
