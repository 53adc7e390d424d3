SPECIFICATION MoveSpec
CONSTANTS
    Byte = {1, 2}
    Uninit = 0
    SizeMod = 16
    MaxAlloc = 4
    Buffers = {x, y}
    InitialCapacity = 1
    Pieces <- MCPieces
INVARIANT
    SpaceLeftIsReal
