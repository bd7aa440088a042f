SPECIFICATION Spec
CONSTANTS
    Request = {r1, r2, r3}
    Limit = 2
    Window = 2
    MaxRetries = 1
    MaxTime = 3
    MaxFaults = 2
    Never = Never
SYMMETRY Symmetry
CHECK_DEADLOCK FALSE
INVARIANTS
    RInv
    SharedLimit
    DenialJustified
    NoKeyLeaks
