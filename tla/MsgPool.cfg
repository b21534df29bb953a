SPECIFICATION Spec
CONSTANTS
    Once = {env, jitter}
    Others = {key}
    IsrIds = {jitter, key}
    Count = 4
    Range = 12
    None = None
INVARIANT PutOnceUntilWrap
PROPERTY ImplementsQueue
