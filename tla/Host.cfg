SPECIFICATION MCSpec
CONSTANTS
    a = a
    b = b
    Callback = {a, b}
    MaxTime = 1
    MinSched = 1
    KickTime = 2
    BufferLow = 3
    BufferHigh = 4
    BufferStart = 2
    BgLow = 1
    BgBatch = 1
    BgExtra = 1
    PtDelay = 1
    KinDelay = 0
    DwellTime = 3
    MaxRequests = 3
    MaxMoves = 2
    MaxPrintTime = 5
    Timeout = 2
    Nozzle = {"left", "right"}
    Camera = {"camera"}
    NoTool = "none"
    Gcode = "gcode"
    Web = {"web"}
    ZPool = {"stepper_z", "stepper_z1"}
    FallbackZ = "stepper_z"
    z_stepper <- MCZStepper
    z_sign <- MCZSign
    r_stepper <- MCRStepper
    VirtualR = "virtual"
    Shift <- MCShift
    MaxX = 2
    MaxDepth = 1
    MaxR = 1
    MaxCommands = 4
SYMMETRY CallbackSymmetry
INVARIANTS NextTimerSound MutualExclusion NothingMissed
           UpdatesInTime LastRequestWins OutcomeSetsValve
           ToolAxesTrue StrokeTrueAlone
PROPERTY SafeMoveTrue
