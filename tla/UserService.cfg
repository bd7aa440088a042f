SPECIFICATION FairSpec
CONSTANTS
    Replica = {p1, p2}
    Request = {r1, r2, r3}
    Email = {e1, bad}
    Valid = {e1}
    Lookup = {r1}
    MaxConns = 1
    MaxFaults = 1
    NoOp = NoOp
    NoReplica = NoReplica
CHECK_DEADLOCK FALSE
INVARIANTS
    UInv
    AnnouncedOncePerEmail
    ReadsSeeCreated
PROPERTIES
    ImplementsRegistry
    RequestsEnd
