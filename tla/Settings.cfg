SPECIFICATION StoreSpec
CONSTANTS
    c1 = c1
    c2 = c2
    x = x
    y = y
    Caller = {c1, c2}
    Candidate = {x, y}
    Default = x
    MaxRevision = 2
    MaxStamp = 4
SYMMETRY CallSymmetry
INVARIANTS FilesAreWhole
PROPERTIES NoLostSave
CHECK_DEADLOCK FALSE
