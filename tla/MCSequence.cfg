SPECIFICATION Layer1Spec
CONSTANTS
    Envelopes <- ChainEnvelopes
    KeySets <- MCKeySets
    MaxReceipts = 4
    TicksPerMicrosecond = 2
INVARIANTS
    Layer1TypeOK
    FatalIffTerminal
    RecordedIsSound
PROPERTIES
    ImplementsVerdict
    StatusOnlyWorsens
CHECK_DEADLOCK FALSE
