\* Two documents, edited, saved and closed; two validations at a time.
CONSTANTS
    a = a
    b = b
    Docs = {a, b}
    MaxContent = 1
    MaxRuns = 2
    Permits = 2
SPECIFICATION Spec
INVARIANTS TypeOK ValidatedIsPublished ClosedIsCleared IndexFollowsDocuments
PROPERTY PendingClearedOnlyWhenSwept
SYMMETRY Symmetry
CHECK_DEADLOCK FALSE
