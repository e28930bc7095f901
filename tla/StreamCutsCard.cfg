CONSTANTS
    Formats = {"anthropic"}
    Blocks = {1}
    ChoiceSet = {}
    ToolBlocks = {}
    Values = {"mail", "card", "key"}
    Echoes = {"tok"}
    Width <- MCWidth
    Reveals = {FALSE}
    Blanks <- MCBlanks
    Armored = {"key"}
    Texts <- CardTexts
    MinTail = 3
    MaxChunk = 5
SPECIFICATION Spec
CHECK_DEADLOCK FALSE
INVARIANT SplitValuesTokenized
