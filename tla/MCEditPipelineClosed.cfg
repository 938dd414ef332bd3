\* A document closed while the other one is validated.
CONSTANTS
    a = a
    b = b
    Docs = {a, b}
    MaxContent = 1
    MaxRuns = 2
    Permits = 2
SPECIFICATION Spec
INVARIANT ClosedFilesSeen
CHECK_DEADLOCK FALSE
