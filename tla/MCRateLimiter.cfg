SPECIFICATION Spec
CONSTANTS
    IP = {i1, i2}
    Req = {q1, q2}
    Bucket = {b1, b2, b3}
    Burst = 2
    Cost = 2
    StaleAfter = 5
    SweepEvery = 2
    MaxLag = 1
    MaxTime = 9
    None = None
SYMMETRY LimiterSymmetry
INVARIANTS TypeOK HeldIsCurrent RateBounded QuietForgotten
PROPERTIES RefinesTokenBuckets
