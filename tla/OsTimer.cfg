SPECIFICATION Spec
CONSTANTS
    Timers = {t1, t2, t3}
    Delays = {0, 2}
    Steps = {1, 3}
    Retry = 2
    PoolSize = 2
    MaxTick = 4
    Null = Null
    Head0 = Head0
    Key = Key
INVARIANT PendingIsListed
PROPERTIES OnTime PostsInOrder
CONSTRAINT Whole
SYMMETRY Symmetry
