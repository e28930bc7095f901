CONSTANTS
    Kinds = {EMAIL, OTHER_PII}
    Lettered = {EMAIL}
    Values = {v1, v2}
    MaxFaults = 1
    MaxCrashes = 2
SPECIFICATION Spec
INVARIANT TypeOK
INVARIANT MapsInverse
INVARIANT RevealsPersisted
PROPERTY PersistedForever
