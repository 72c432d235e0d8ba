SPECIFICATION Spec
CONSTANTS
    e = e
    s = s
    Mcus = {e, s}
    EndstopMcu = e
    Expire = 2
    ReportTicks = 1
    MinExtend = 1
    Lead = 1
    HomeTime = 1
    Never = Never
    Offset <- MCOffset
    MaxTime = 4
    MaxStarts = 1
    MaxQueue = 1
    MaxFaults = 2
    MaxFailures = 0
CHECK_DEADLOCK FALSE
INVARIANT NoSilentTimeout
