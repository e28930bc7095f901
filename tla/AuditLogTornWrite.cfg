CONSTANTS
    a = a
    b = b
    Entries <- AllEntries
    Long <- LongEntries
    MaxLines = 3
    MaxFaults = 1
    MaxCrashes = 0
    MaxAnchorings = 0
SPECIFICATION AnchoredSpec
CHECK_DEADLOCK FALSE
INVARIANT AckedRecorded
