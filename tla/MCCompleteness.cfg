SPECIFICATION FairSpec
CONSTANTS
    Envelopes <- RepeatingEnvelopes
    KeySets <- MCKeySets
    Anchors <- FewAnchors
    MaxReceipts = 3
    TicksPerMicrosecond = 2
INVARIANTS
    CompletenessFailExplained
    InconclusiveExplained
PROPERTIES
    Returns
CHECK_DEADLOCK FALSE
