\* Two documents, the older of two publications sent last.
CONSTANTS
    a = a
    b = b
    Docs = {a, b}
    MaxContent = 1
    MaxRuns = 2
    Permits = 2
SPECIFICATION EditingSpec
INVARIANT FreshWhenNothingOwed
CHECK_DEADLOCK FALSE
