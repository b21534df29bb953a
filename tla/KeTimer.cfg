SPECIFICATION FairSpec
CONSTANTS
    Timer = {t1, t2, t3}
    NoTimer = NoTimer
    M = 12
    Margin = 1
    DelayMax = 3
    MsUnits = 1
    Word = 4
    Delays = {0, 3}
    SleepGuard = 1
    MaxSleep = 1
    MaxLate = 1
INVARIANTS TypeOK HwFollowsFirst
PROPERTIES ImplementsService OverdueIsServed
