SPECIFICATION Spec
CONSTANTS
    MaxHeap = 2
    Size0 = 18
    Size1 = 11
    Base <- MCBase
    End <- MCEnd
    FreeHdr = 3
    UsedHdr = 1
    Null = Null
    Requests = {1, 3, 4}
INVARIANTS TypeOK Tiled Linked Coalesced
