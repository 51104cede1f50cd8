SPECIFICATION Spec
SYMMETRY Symmetry
CONSTANTS
    Event = {e1, e2}
    Part = {d1, d2}
    Workers = 1
    Concurrency = 2
    MaxAttempts = 1
    AfterAttempts = 1
    MaxProcessAttempts = 1
    FallbackTopic = TRUE
    CliFlush = FALSE
    Faults = {"crash", "raise", "strand"}
INVARIANTS
    WaitingHasCarrier
    DeadLetterHasDeadRow
    SuppressedIsSilent
    DigestOnce
    SettledWasAccepted
    IndInv
PROPERTIES
    KeepsContract
    NeverResent
