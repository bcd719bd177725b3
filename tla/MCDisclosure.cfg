SPECIFICATION DisclosureSpec
CONSTANTS
    Envelopes = {}
    KeySets <- StartingKeySets
    Anchors <- StartingAnchors
    MaxReceipts = 3
    TicksPerMicrosecond = 1
    MaxIssued = 3
    MaxEvents = 2
INVARIANTS
    HonestPasses
    HonestAnchorStands
    SignedInForce
    PassIsAHistory
    AnchorPreventsRollback
CHECK_DEADLOCK FALSE
