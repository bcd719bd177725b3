SPECIFICATION FairSpec
CONSTANTS
    ReceiptHashes <- MCReceiptHashes
    Batches <- MCBatches
    Claims <- MCClaims
INVARIANTS
    AcceptedIsAnchored
    AcceptedIsInPlace
    HonestIsAccepted
    FunctionsAgree
PROPERTIES
    Terminates
CHECK_DEADLOCK FALSE
