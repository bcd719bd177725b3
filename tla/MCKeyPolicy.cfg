SPECIFICATION Layer1Spec
CONSTANTS
    Envelopes <- TimedEnvelopes
    KeySets <- LifecycleKeySets
    MaxReceipts = 2
    TicksPerMicrosecond = 2
INVARIANTS
    PassFollowsKeyPolicy
    LoneReceiptGetsItsCode
CHECK_DEADLOCK FALSE
