SPECIFICATION Spec
CONSTANTS
    Procs = {p1}
    NoProc = NoProc
    Commands = {"create", "upgrade"}
    Tokens = {k1, k2}
    NoToken = NoToken
    Targets = {t1}
    Sources = {}
    NoSource = NoSource
    Crashes = FALSE
    Outsiders = FALSE
SYMMETRY TokenSymmetry
PROPERTY UpgradeRetryable
