SPECIFICATION LiveSpec
CHECK_DEADLOCK FALSE
CONSTANTS
    Event = {e1, e2, e3}
    CriticalEvent = e1
    RaisingEvent = e2
    Critical <- MCCritical
    Raising <- MCRaising
    Concurrency = 2
    MaxAttempts = 2
    AfterAttempts = 2
INVARIANTS
    IndInv
    LineIsPending
    FallbackKept
PROPERTIES
    EveryRowEnds
