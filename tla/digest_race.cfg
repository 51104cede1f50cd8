SPECIFICATION Spec
CHECK_DEADLOCK FALSE
CONSTANTS
    Event = {e1}
    Part = {d1, d2}
    Workers = 1
    Concurrency = 1
    MaxAttempts = 1
    AfterAttempts = 1
    MaxProcessAttempts = 1
    FallbackTopic = FALSE
    CliFlush = TRUE
    Faults = {}
INVARIANTS
    DigestOnce
