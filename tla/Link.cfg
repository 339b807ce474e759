SPECIFICATION FairSpec
CONSTANTS
    c1 = c1
    c2 = c2
    Call = {c1, c2}
    Request <- Generations
    Startup <- Base
    ControlCapacity = 1
    PipeCapacity = 1
    EventCapacity = 1
    HelloValue = {"good", "mismatch"}
    MaxPublish = 1
    MaxActivity = 2
INVARIANTS PublicationsFlow NoMissedUpdate HandshakeIsFair EndIsAccounted
PROPERTIES ImplementsContract StopEnds
CHECK_DEADLOCK FALSE
