SPECIFICATION Spec
CONSTANTS
    MaxBytesPerTick = 2
    MaxLineBytes = 1
    MaxPieces = 4
    MaxFiles = 2
    MaxTruncations = 1
    MaxRestarts = 1
    MaxFaults = 1
INVARIANTS TypeOK ByteExact InOrderOnce
PROPERTIES CatchesUp
