CONSTANTS
    Values <- SmallValues
    Shape <- SmallShape
    Lettered <- SmallLettered
    Prompts <- SmallPrompts
    MaxTurns = 2
SPECIFICATION Spec
CHECK_DEADLOCK FALSE
INVARIANT MeaningKept
INVARIANT RevealExactOutsideSecrets
INVARIANT NothingWholeLeft
INVARIANT RedactedStays
