SPECIFICATION FairSpec
CONSTANTS
    NTasks = 1
    ClockMod = 28
    Period = 1
    IdleRepeat = 1
    Repeat = 1
INVARIANTS NoSleepOverWake NotStarved
PROPERTIES EveryWakeSeen
