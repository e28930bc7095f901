CONSTANTS
    Requests = {r1, r2}
    LongRequests = {}
    Kind = EMAIL
    Values = {v1, v2}
    Answers = {"json", "sse", "other"}
    MaxLogFaults = 1
    MaxVaultFaults = 1
    MaxCrashes = 1
SYMMETRY Symmetry
SPECIFICATION Spec
CHECK_DEADLOCK FALSE
INVARIANT ForwardedIsRecorded
INVARIANT TokensAgree
INVARIANT EscapedIsSaved
INVARIANT StreamSavedAtEnd
INVARIANT VerifiedLogAccountsForAll
