CONSTANTS
    Ctx = {c1, c2, c3, c4}
    NULL = NULL
    StartNow = 2
    MaxNow = 4
    FOREVER = 5
SPECIFICATION SQSpec
INVARIANTS
    KeyIsExpire
    PlacedOnce
    ExpireIsPlaced
PROPERTY IsTimerMap
SYMMETRY Symmetry
