SPECIFICATION CliFairSpec
CONSTANTS
    Envelopes = {}
    KeySets <- StartingKeySets
    Anchors <- StartingAnchors
    MaxReceipts = 2
    TicksPerMicrosecond = 1
    Texts <- MCTexts
    Depth <- MCDepth
    ReceiptsFiles <- MCReceiptsFiles
    KeysFiles <- MCKeysFiles
    AnchorFiles <- MCAnchorFiles
INVARIANTS
    FirstBadFileDecides
    ResultTellsFiles
    PrintedIsVerdict
PROPERTIES
    CommandEnds
CHECK_DEADLOCK FALSE
