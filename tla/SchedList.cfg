SPECIFICATION Spec
CONSTANTS
    User = {a, b, c}
    Periodic = periodic
    Sentinel = sentinel
    Deleted = deleted
    Null = null
    ClockMod = 18
    Period = 2
    MinTry = 1
    Defer = 1
    Repeat = 2
    IdleRepeat = 3
    PastLimit = 2
    MaxAhead = 2
    MaxRound = 1
SYMMETRY UserSymmetry
INVARIANTS ListExact RunWhenDue
