SPECIFICATION FairSpec
CONSTANTS
    Cmd = {c1, c2}
    NoCmd = NoCmd
    Data = {d1}
    NoData = NoData
    MaxVersion = 1
    MaxSession = 2
    MaxFailures = 1
    Capacity = 1
    TelemetryBound = 0
    CriticalCapacity = 1
    Kinds = {"restart", "close", "config", "active"}
INVARIANTS
    ExactlyOneReply
    SessionToldControl
PROPERTIES
    ControlNeverRegresses
    LifecycleAnswered
CHECK_DEADLOCK FALSE
