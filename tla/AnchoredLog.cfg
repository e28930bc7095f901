CONSTANTS
    a = a
    b = b
    Entries <- AllEntries
    Long <- LongEntries
    MaxLines = 3
    MaxFaults = 1
    MaxCrashes = 1
    MaxAnchorings = 2
SPECIFICATION AnchoredSpec
CHECK_DEADLOCK FALSE
INVARIANT TypeOK
INVARIANT ChainIntact
INVARIANT AckedDurable
INVARIANT EditDetected
INVARIANT VerifiedHoldsAcked
INVARIANT ProofStaysProvable
INVARIANT ProofTellsLogsApart
PROPERTY ImplementsLedger
