CONSTANTS
    Requests = {r1, r2}
    LongRequests = {}
    Kind = EMAIL
    Values = {v1, v2}
    Answers = {"json"}
    MaxLogFaults = 0
    MaxVaultFaults = 1
    MaxCrashes = 1
SYMMETRY Symmetry
SPECIFICATION Spec
INVARIANT TokenMeansOne
CHECK_DEADLOCK FALSE
