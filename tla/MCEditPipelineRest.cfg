\* Two documents edited within one debounce.
CONSTANTS
    a = a
    b = b
    Docs = {a, b}
    MaxContent = 1
    MaxRuns = 2
    Permits = 2
SPECIFICATION EditingSpec
INVARIANT FreshAtRest
CHECK_DEADLOCK FALSE
