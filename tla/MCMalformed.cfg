SPECIFICATION Layer1Spec
CONSTANTS
    Envelopes <- AllEnvelopes
    KeySets <- MCKeySets
    MaxReceipts = 2
    TicksPerMicrosecond = 2
INVARIANTS
    FatalIffTerminal
    RecordedIsSound
PROPERTIES
    ImplementsVerdict
CHECK_DEADLOCK FALSE
