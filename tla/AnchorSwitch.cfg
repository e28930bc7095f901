CONSTANTS
    Commands = {c1, c2}
    Intervals = {day, zero}
    Zero = {zero}
    Day = day
    Same = same
SPECIFICATION Spec
INVARIANT SettingKept
PROPERTY OffStaysOff
PROPERTY AnchorsWhileOn
PROPERTY LoopEnds
