SPECIFICATION VectorSpec
CONSTANTS
    Envelopes <- VectorEnvelopes
    KeySets <- VectorKeySets
    Anchors <- VectorAnchors
    MaxReceipts = 3
    TicksPerMicrosecond = 1
INVARIANTS
    VectorsVerify
CHECK_DEADLOCK FALSE
