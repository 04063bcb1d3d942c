SPECIFICATION Spec
CONSTANTS
    MaxBytesPerTick = 2
    MaxLineBytes = 1
    MaxPieces = 4
    MaxFiles = 2
    MaxTruncations = 0
    MaxRestarts = 0
    MaxFaults = 0
PROPERTY DrainsBeforeLeaving
