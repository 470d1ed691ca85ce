SPECIFICATION Spec
CONSTANTS
    Kinds = {"restore", "export", "stream"}
    Pieces = 4
    Cap = 1
    MaxFaults = 2
INVARIANTS CallerIOFinished OnlyWholeArchives SuccessIsComplete
PROPERTY AllEnds
CHECK_DEADLOCK FALSE
