SPECIFICATION MCSpec
CONSTANTS
    Stepper <- MCStepper
    MoveNums = {1, 3}
    FarDiff = 2
    MaxInterval = 2
    MaxSpan = 1
    MaxPending = 3
    MaxAhead = 3
    MaxClock = 3
    CommandQueue = {"a", "b"}
    Requests <- MCRequests
    PayloadMax = 2
    Overhead = 2
    MaxPendingBlocks = 2
    Window = 8
    ReqDelta = 1
    BgDelta = 1
    EstErr = 1
    MaxMessages = 3
    LastClock = 6
    MaxReplies = 1
    MaxBeforeEnd = 1
    Mcus = {"m1", "m2"}
    Main = "main"
INVARIANTS NoMoveQueueOverflow AvailableInTime SentOnTime WindowKept ReceiverAwake ReadersGone NoLockCycle
