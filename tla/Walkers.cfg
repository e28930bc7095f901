CONSTANTS
    Values = {"ann", "bob"}
    Known = {"bob"}
    Paths <- SmallPaths
    Body <- SmallBody
    Messages <- SmallMessages
    Kept <- SmallKept
    Prompts <- SmallPrompts
    Answers <- SmallAnswers
    MaxTurns = 2
SPECIFICATION Spec
CHECK_DEADLOCK FALSE
INVARIANT WalksExactly
INVARIANT LeavesOnlyOutside
INVARIANT HistoryAsSeen
INVARIANT ThinkingIntactUnlessRevealed
