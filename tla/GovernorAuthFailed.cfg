SPECIFICATION Spec
CONSTANTS
    Vaults = {v1, v2}
    Callers = {c1, c2}
    Hour = 2
    Limits <- MCLimits
    Intervals <- MCIntervals
    MaxChunks = 1
    MaxFailures = 2
    MaxFaults = 2
    MaxRewrites = 1
PROPERTIES AuthFailedSticky
