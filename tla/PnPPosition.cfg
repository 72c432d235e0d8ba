SPECIFICATION PnPSpec
CONSTANTS
    Nozzle = {"left", "right"}
    Camera = {}
    NoTool = "none"
    Gcode = "gcode"
    Web = {"web"}
    ZPool = {"stepper_z", "stepper_z1"}
    FallbackZ = "stepper_z"
    z_stepper <- MCZStepper
    z_sign <- MCZSign
    r_stepper <- MCRStepper
    VirtualR = "virtual"
    Shift <- MCShift
    MaxX = 2
    MaxDepth = 1
    MaxR = 1
    MaxCommands = 3
INVARIANT PositionReported
CHECK_DEADLOCK FALSE
