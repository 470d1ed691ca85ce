SPECIFICATION Spec
CONSTANTS
    Services = {s1}
    Versions = {v1, v2}
    NoVersion = NoVersion
    Users = {u1}
    Loop = Loop
    Nobody = Nobody
    Pids = {n1, n2}
    Unkillable = {"capture"}
    MaxSpawns = 2
    MaxCommands = 3
    MaxChanges = 1
    MaxFaults = 1
SYMMETRY Symmetry
INVARIANTS EveryCaptureRecorded PauseIsFinal OnlyOwnSignalled NoDuplicate
CHECK_DEADLOCK FALSE
