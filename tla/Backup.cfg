SPECIFICATION Spec
CONSTANTS
    Names = {n1, n2}
    MaxChunks = 2
    MaxWrites = 2
    MaxBackups = 2
INVARIANTS SnapshotConsistent RestPreserved BlameIsRight
PROPERTIES BackupsKept VerifyEnds
