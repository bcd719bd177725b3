SPECIFICATION Spec
CONSTANTS
    Envelopes <- ChainEnvelopes
    KeySets <- MCKeySets
    Anchors <- NoAnchors
    MaxReceipts = 3
    TicksPerMicrosecond = 2
INVARIANT
    ForkAlwaysReported
CHECK_DEADLOCK FALSE
