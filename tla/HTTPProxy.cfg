SPECIFICATION Spec
CONSTANTS
    Byte <- MCByte
    Uninit = Uninit
    SizeMod = 512
    MaxAlloc = 128
    Fds = {f1}
    NoBuffer = NoBuffer
    InitialCapacity = 16
    ReadLengths <- MCReadLengths
    ShortReads <- MCShortReads
    CallbackPairs <- MCCallbackPairs
    Answers <- MCAnswers
    MaxRequests = 3
    MaxTunnelled = 2
INVARIANTS
    TunnelKeepsBytes
