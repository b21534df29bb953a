SPECIFICATION FairSpec
CONSTANTS
    m1 = m1
    m2 = m2
    m3 = m3
    Msg <- MCMsg
    NoMsg = NoMsg
    Task <- MCTask
    NoTask = NoTask
    BootTask <- MCBoot
    State = {"idle", "busy"}
    InitState = "idle"
    Event = {1, 2}
    KE_MESSAGE = 1
INVARIANTS TypeOK QueueIntegrity NoLostWakeup PriorityBound SavedUpToDate
    EventsAwaitClock
PROPERTIES OrderKept NoSleepWithMessage ImplementsMailbox
    SentIsHandled
