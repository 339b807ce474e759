SPECIFICATION Spec
CONSTANTS
    c2 = c2
    c1 = c1
    p1 = p1
    Plugin = {p1}
    Call = {c1, c2}
    CloseCmd = CloseCmd
    MaxRevision = 1
    MaxStarts = 1
    Kinds = {"config", "restart"}
PROPERTIES NoStaleStartup
CHECK_DEADLOCK FALSE
