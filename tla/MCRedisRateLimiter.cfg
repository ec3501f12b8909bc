SPECIFICATION Spec
CONSTANTS
    Period = 60
    Max = 2
    Start = 1678000000
    Steps = {11, 3600}
    Seconds = 8000
\* The behaviours are bounded by Seconds.
CHECK_DEADLOCK FALSE
INVARIANT FreshKey
