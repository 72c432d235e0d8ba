SPECIFICATION MCSpec
CONSTANTS
    Clients = {tty, web}
    Commands = {"M23", "M24", "M25", "M26", "SDCARD_PRINT_FILE", "SDCARD_RESET_FILE", "PAUSE", "RESUME", "CLEAR_PAUSE", "CANCEL_PRINT"}
    Lines = 2
    Chunk = 2
    MaxRequests = 3
    MaxEvents = 1
    Pins = {p}
    QueueSize = 2
    AckMod = 6
    RetransmitCount = 1
    MaxReports = 7
    MaxLosses = 1
    MaxInFlight = 1
INVARIANTS FileHeld LinesInOrder DeliveredInOrder
PROPERTIES CommandsEnd HostCatchesUp
CHECK_DEADLOCK FALSE
