SPECIFICATION Spec
SYMMETRY Symmetric
CONSTANTS
    Byte <- MCByte
    Uninit = 0
    SizeMod = 16
    MaxAlloc = 5
    Fds = {f1, f2}
    NoBuffer = NoBuffer
    NoStream = NoStream
    InitialCapacity = 1
    PeerCapacity = 2
    ReadLengths <- MCReadLengths
    CallbackPairs <- MCCallbackPairs
    MaxSent = 3
INVARIANTS
    TypeOK
    BytesGoAround
    ReceivedIsKept
    OpenIsOwned
    KeepsOffOthers
