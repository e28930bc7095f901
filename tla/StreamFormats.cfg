CONSTANTS
    Formats = {"anthropic", "openai", "other"}
    Blocks = {1, 2, 3}
    ChoiceSet = {1}
    ToolBlocks = {2}
    Values = {"mail", "card", "key"}
    Echoes = {"tok"}
    Width <- MCWidth
    Reveals = {TRUE, FALSE}
    Blanks <- MCBlanks
    Armored = {"key"}
    Texts <- MixedTexts
    MinTail = 2
    MaxChunk = 3
SPECIFICATION Spec
CHECK_DEADLOCK FALSE
INVARIANT SeenIsRedacted
INVARIANT NothingHeldBack
INVARIANT EventsPaired
INVARIANT NoTextAfterEnd
