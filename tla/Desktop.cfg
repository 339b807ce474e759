SPECIFICATION FairSpec
CONSTANTS
    k1 = k1
    k2 = k2
    c1 = c1
    c2 = c2
    p1 = p1
    p2 = p2
    s1 = s1
    None = None
    Scenario <- Scenarios
    Closer = {k1, k2}
    Plugin = {p1}
    Cmd = {c1, c2}
    Saver = {s1}
    MaxConfig = 2
INVARIANTS NothingLeftRunning CommandsBeforeClose InterfaceFollows ShutdownIsComplete
PROPERTIES LifecycleSettles
CHECK_DEADLOCK FALSE
