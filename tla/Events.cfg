SPECIFICATION FairSpec
CONSTANTS
    p1 = p1
    p2 = p2
    Plugin = {p1}
    Sub = {"list", "coordinator"}
    Capacity = 1
    QueueCapacity = 1
    MaxSession <- Sessions
    MaxLog <- Logs
INVARIANTS ListCatchesUp SourceOfLiveSession LogsAccounted
PROPERTIES HubServes
CHECK_DEADLOCK FALSE
