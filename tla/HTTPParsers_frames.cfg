SPECIFICATION Spec
CONSTANTS
    Streams <- MCStreams
    PieceSizes <- MCPieceSizes
    Names <- MCNames
    Values <- MCValues
    Targets <- MCTargets
    Bodies <- MCBodies
    Codes <- MCCodes
    Templates <- MCTemplates
    MaxCalls = 3
INVARIANTS
    FramesAreWholeLines
