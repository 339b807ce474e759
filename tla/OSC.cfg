SPECIFICATION FairSpec
CONSTANTS
    s1 = s1
    s2 = s2
    c1 = c1
    c2 = c2
    None = None
    NoTarget = NoTarget
    NoValue = NoValue
    Invalid = Invalid
    Catalog <- Catalogs
    Value <- Values
    Epsilon = 1
    Limit = 2
    QuantizeMax = 3
    BundleSize = 2
    Address = {s1, s2}
    Service = {s1, s2}
    Config <- Configs
    Conn = {c1, c2}
    FailCapacity = 1
    MaxFailures = 2
    RefreshCapacity = 1
    Retries = 1
INVARIANTS FailureOfActive AvatarSettles
PROPERTIES PassDelivers ConnectionFollows
CHECK_DEADLOCK FALSE
