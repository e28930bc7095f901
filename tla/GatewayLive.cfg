CONSTANTS
    Requests = {r1, r2}
    LongRequests = {r2}
    Kind = EMAIL
    Values = {v1}
    Answers = {"json", "sse"}
    MaxLogFaults = 1
    MaxVaultFaults = 1
    MaxCrashes = 1
SPECIFICATION FairSpec
PROPERTY RequestProceeds
PROPERTY AnswerRelayed
CHECK_DEADLOCK FALSE
