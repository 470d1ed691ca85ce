SPECIFICATION Spec
CONSTANTS
    Procs = {p1, p2}
    NoProc = NoProc
    Commands = {"create", "import", "upgrade", "delete", "start", "stop", "mount", "prune"}
    Tokens = {k1, k2}
    NoToken = NoToken
    Targets = {t1, t2}
    Sources = {s1}
    NoSource = NoSource
    Crashes = TRUE
    Outsiders = TRUE
SYMMETRY Symmetry
INVARIANTS EnvDescribesBox VolumesBacked DurableDataSafe MountsDivergeByOne
PROPERTIES ForeignUntouched MountKeepsBoxAtRest
