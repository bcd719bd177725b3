SPECIFICATION Spec
CONSTANTS
    Envelopes <- AnchoredEnvelopes
    KeySets <- MCKeySets
    Anchors <- MCAnchors
    MaxReceipts = 3
    TicksPerMicrosecond = 2
INVARIANTS
    TypeOK
    FatalForcesStatus
    AnchorBindsRange
PROPERTIES
    LaterLayersKeepVerdicts
CHECK_DEADLOCK FALSE
