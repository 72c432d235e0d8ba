SPECIFICATION Spec
CONSTANTS
    Clients = {tty}
    Commands = {"SDCARD_PRINT_FILE", "PAUSE", "RESUME"}
    Lines = 2
    Chunk = 2
    MaxRequests = 3
    MaxEvents = 1
PROPERTIES ResumeRestarts
CHECK_DEADLOCK FALSE
