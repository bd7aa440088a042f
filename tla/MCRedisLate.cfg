SPECIFICATION Spec
CONSTANTS
    Request = {r1, r2, r3, r4}
    Limit = 2
    Window = 2
    MaxRetries = 1
    MaxTime = 5
    MaxFaults = 0
    Never = Never
SYMMETRY Symmetry
CHECK_DEADLOCK FALSE
INVARIANTS
    LimitPerWindow
