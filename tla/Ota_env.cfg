SPECIFICATION FairSpec
CONSTANTS
    Images = {a, b}
    Old = Old
    N = 2
    BufMax = 1
    Ragged = {b}
    EnvValues = {x, y}
    EnvBlocks = 2
    MaxData = 3
    MaxCrashes = 2
    MaxFaults = 1
    UpdatesFrom = {Old, a, b}
    Blank = Blank
    Bad = Bad
    Used = Used
    Torn = Torn
    None = None
INVARIANT EnvIsWritten
