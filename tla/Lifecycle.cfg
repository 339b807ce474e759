SPECIFICATION Spec
CONSTANTS
    Cmd = {c1, c2}
    NoCmd = NoCmd
    Data = {d1}
    NoData = NoData
    MaxVersion = 0
    MaxSession = 3
    MaxFailures = 2
    Capacity = 1
    TelemetryBound = 1
    CriticalCapacity = 1
    Kinds = {"enable", "disable", "restart", "close"}
SYMMETRY CmdSymmetry
INVARIANTS
    SupervisorIsTruthful
    PublishedIsCurrent
PROPERTIES
    LaunchOnlyWhenWanted
CHECK_DEADLOCK FALSE
