SPECIFICATION FairSpec
CONSTANTS
    Images = {a, b}
    Old = Old
    N = 2
    BufMax = 1
    Ragged = {b}
    EnvValues = {x}
    EnvBlocks = 2
    MaxData = 3
    MaxCrashes = 1
    MaxFaults = 1
    UpdatesFrom = {Old}
    Blank = Blank
    Bad = Bad
    Used = Used
    Torn = Torn
    None = None
INVARIANTS DirtyIsMarked SealedIsWhole RunsWholeImage EnvIsKept
PROPERTY BootInstalls
