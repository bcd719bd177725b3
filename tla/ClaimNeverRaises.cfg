SPECIFICATION Spec
CONSTANTS
    Envelopes <- AnchoredEnvelopes
    KeySets <- MCKeySets
    Anchors <- MCAnchors
    MaxReceipts = 1
    TicksPerMicrosecond = 2
INVARIANT
    NeverRaises
CHECK_DEADLOCK FALSE
