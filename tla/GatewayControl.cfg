SPECIFICATION Spec
CONSTANTS
    Workload = workload
    Users = {u1, u2}
    NoProc = NoProc
    Commands = {"up", "pause", "disable", "enable", "wire", "unwire"}
    Slots = {s1, s2, s3}
    RequestIds = {r1, r2}
    MaxCommands = 2
    MaxFailures = 2
    Timeouts = TRUE
    Kills = {"up", "pause", "disable", "enable", "wire"}
INVARIANTS SingleWriter StopsAreFinal NoLostReload
PROPERTY Converges
