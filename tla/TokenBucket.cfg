SPECIFICATION Spec
CONSTANTS
    Key = {k1, k2}
    Unit = 3
    Rate = 2
    Burst = 6
    MaxTime = 6
    MaxGrants = 7
INVARIANTS
    BucketInv
    RateBounded
    DenialJustified
