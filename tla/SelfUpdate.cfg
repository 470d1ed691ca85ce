SPECIFICATION Spec
CONSTANTS
    Updaters = {u1, u2}
    Kinds = {"upgrade", "force", "install"}
    Releases <- MCReleases
    LocalBuilds <- MCLocalBuilds
    Pieces = 2
    Cap = 2
    MaxJobs = 2
    MaxCommands = 2
    MaxFaults = 1
INVARIANTS LatestIsNewest FailsOnlyByFault
PROPERTIES InstallsAtomically DowngradeOnlyByRace UpdateEnds
CHECK_DEADLOCK FALSE
