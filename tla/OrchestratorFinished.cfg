\* A result for a paused run stores it as finished.
SPECIFICATION OrchSafetySpec
CONSTANTS
    a1 = a1
    a2 = a2
    Agents = {a1, a2}
    Operators = {op}
    Admin = Admin
    NoAgent = NoAgent
    NoTask = NoTask
    NoRow = NoRow
    Scenarios = {"guard"}
    Plan <- MCPlan
    PlatformOf <- LinuxOnly
    MaxRuns = 1
    MaxRetries = 1
    MaxEngage = 1
SYMMETRY AgentSymmetry
CHECK_DEADLOCK FALSE
INVARIANT StoredFinishedIsTerminal
