SPECIFICATION FairSpec
CONSTANTS
    s = s
    Plugin = {1, 2}
    Cap = {"eye", "lip"}
    MaxGeneration = 2
    MaxSequence = 3
    MaxTick = 4
    MaxHost = 3
    MaxMerged = 3
    MaxCount = 1
    MergedSub = {s}
    SummarySub = {s}
    Loop = s
    StaleAfter = 1
    HoldDuration = 1
    DecayDuration = 2
    ActiveStaleAfter = 1
    MaxClock = 5
    Port = {1, 2}
    QueueCapacity = 1
    InboxCapacity = 1
    MaxControls = 3
    MaxTime = 1
    MaxFrames = 2
    Usage <- Usages
INVARIANTS ServiceIsCurrent ProcessingIsSound DriverIsHonest
PROPERTIES MergedSteps FramesProcessed
CHECK_DEADLOCK FALSE
