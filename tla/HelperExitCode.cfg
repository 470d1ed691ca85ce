SPECIFICATION Spec
CONSTANTS
    Kinds = {"restore"}
    Pieces = 1
    Cap = 1
    MaxFaults = 0
INVARIANT SuccessIsExitZero
CHECK_DEADLOCK FALSE
