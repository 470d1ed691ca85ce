SPECIFICATION FairCapture
CONSTANTS
    Restart = TRUE
    MaxStarts = 3
INVARIANTS NoStraySignal NoOrphan SignalReachesChild NoLeftovers
PROPERTIES ServesAsPromised SignalEnds
CHECK_DEADLOCK FALSE
