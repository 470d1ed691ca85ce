SPECIFICATION Spec
CONSTANTS
    Names = {n1, n2}
    MaxChunks = 1
    MaxWrites = 1
    MaxBackups = 1
SYMMETRY Symmetry
INVARIANT SavesQuiesce
