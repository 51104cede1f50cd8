SPECIFICATION Spec
CONSTANTS
    Event = {e1}
    Part = {d1}
    Workers = 1
    Concurrency = 1
    MaxAttempts = 3
    AfterAttempts = 2
    MaxProcessAttempts = 1
    FallbackTopic = TRUE
    CliFlush = FALSE
    Faults = {"crash"}
INVARIANTS
    FallbackKept
