SPECIFICATION Spec
CONSTANTS
    a1 = a1
    a2 = a2
    Plugin = {1, 2}
    Avatar = {a1, a2}
    MaxGeneration = 2
SYMMETRY AvatarSymmetry
INVARIANTS OutputFailsClosed StraysAreContained RestIsComplete
PROPERTIES ClosingIsFinal
CHECK_DEADLOCK FALSE
