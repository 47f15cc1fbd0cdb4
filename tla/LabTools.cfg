\* Each tool by itself, on an instance that has the cases its properties turn on.
SPECIFICATION LabSpec
CONSTANTS
    Stamps = {1, 2}
    Platforms = {"windows", "linux", "darwin"}
    Dirs = {"sim_markers", "named"}
    MaxCalls = 2
    Files = {1, 2}
    Bodies <- MCBodies
    MaxChanges = 3
    Registered <- MCRegistered
    ActorPacks <- MCActorPacks
    Difficulties <- MCDifficulties
    PlatformPool <- MCPlatformPool
    MaxSteps = 4
    MaxSeed = 1
    MaxCount = 2
    Strides = {1, 3, 24}
    PackAxes <- MCPackAxes
    PackBases = 5
    PackCount = 14
    Drafts <- MCDrafts
    MaxGrowth = 2
    win = win
    linux = linux
    mac = mac
    beacon = beacon
    LabAgents <- MCLabAgents
    RealAgents <- MCRealAgents
    SmokeRun = "smoke"
    MaxMeddling = 5
    Agents <- MCAgents
    NoAgent = NoAgent
    NoTask = NoTask
    Scenarios = {"smoke", "pair"}
    Plan <- MCPlan
    PlatformOf <- MCPlatformOf
    MaxRuns = 2
    MaxRetries = 1
CHECK_DEADLOCK FALSE
INVARIANTS
    LabTypeOK
    LeftoversAreOfUncleanedRuns
    RunIsDetected
    LoadIsFresh
    GeneratedLoadsInFull
    SmokeVerdict
PROPERTIES
    OnlyOwnMarkersRemoved
    MaturityNeverDrops
