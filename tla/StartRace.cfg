SPECIFICATION Spec
CONSTANTS
    a1 = a1
    Plugin = {1}
    Avatar = {a1}
    MaxGeneration = 1
INVARIANTS ErrorsAreDegraded
CHECK_DEADLOCK FALSE
