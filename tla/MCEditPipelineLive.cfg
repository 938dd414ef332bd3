\* One document, superseded, closed and reopened with the same versions; two
\* permits for three runs and the close.
CONSTANTS
    a = a
    b = b
    Docs = {a}
    MaxContent = 1
    MaxRuns = 3
    Permits = 2
SPECIFICATION FairSpec
INVARIANTS CurrentTreeIsOfBuffer IndexFollowsDocuments
PROPERTIES HandlerReturns EventuallyValidated
CHECK_DEADLOCK FALSE
