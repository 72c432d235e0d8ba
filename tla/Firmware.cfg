SPECIFICATION MCSpec
CONSTANTS
    SeqModulus = 3
    Window = 2
    BufSize = 4
    MaxBlocks = 4
    MaxFaults = 2
    TxBufSize = 4
    MaxSize = 2
    MaxMessages = 3
    MaxShutdowns = 1
    Stepper = {x, y}
    MoveCount = 2
    Bias = 3
    MaxCount = 2
    MaxPos = 1
    MaxDuration = 4
    DefaultOn = FALSE
    Cycles = {2, 3}
    MaxOn = 3
    MaxUpdates = 2
    Horizon = 4
    MaxTime = 8
SYMMETRY StepperSymmetry
INVARIANTS NoBlockForgotten DispatchedInOrder BytesInOrder
           PositionTrue MovesMade WatchdogHolds UpdatesOnTime
