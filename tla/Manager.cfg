SPECIFICATION Spec
CONSTANTS
    c2 = c2
    c1 = c1
    p2 = p2
    p1 = p1
    Plugin = {p1, p2}
    Call = {c1, c2}
    CloseCmd = CloseCmd
    MaxRevision = 2
    MaxStarts = 2
    Kinds = {"enable", "disable", "config", "restart", "control"}
SYMMETRY CallSymmetry
INVARIANTS StoreAndSupervisorsAgree NoOrphanSupervisor NobodyWaitsInVain
CHECK_DEADLOCK FALSE
