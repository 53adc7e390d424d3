SPECIFICATION Spec
CONSTANTS
    Byte = {1, 2}
    Uninit = 0
    SizeMod = 8
    MaxAlloc = 3
    Buffers = {x, y}
    InitialCapacity = 1
    Pieces <- MCPieces
INVARIANTS
    TypeOK
    WellFormed
    HoldsWhatWasWritten
    NoFault
SYMMETRY Symmetric
