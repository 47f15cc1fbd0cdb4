\* The killswitch drains running runs.
SPECIFICATION OrchSpec
CONSTANTS
    a1 = a1
    a2 = a2
    Agents = {a1, a2}
    Operators = {op}
    Admin = Admin
    NoAgent = NoAgent
    NoTask = NoTask
    NoRow = NoRow
    Scenarios = {"solo"}
    Plan <- MCPlan
    PlatformOf <- LinuxOnly
    MaxRuns = 1
    MaxRetries = 0
    MaxEngage = 1
CHECK_DEADLOCK FALSE
PROPERTY KillswitchDrains
