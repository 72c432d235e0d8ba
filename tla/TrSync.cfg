SPECIFICATION Spec
CONSTANTS
    e = e
    s = s
    Mcus = {e, s}
    EndstopMcu = e
    Expire = 2
    ReportTicks = 2
    MinExtend = 1
    Lead = 1
    HomeTime = 1
    Never = Never
    Offset <- MCOffset
    MaxTime = 4
    MaxStarts = 2
    MaxQueue = 1
    MaxFaults = 1
    MaxFailures = 1
CHECK_DEADLOCK FALSE
INVARIANTS StopBound NoStaleMessage NoSilentTimeout
