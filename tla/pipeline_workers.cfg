SPECIFICATION Spec
CHECK_DEADLOCK FALSE
SYMMETRY Symmetry
CONSTANTS
    N = 3
    MaxTime = 4
    Fingerprint = {f1, f2}
    Workers = 2
    Cooldown = 2
    DedupeWindow = 2
    FlapWindow = 3
    MinTransitions = 2
    MaxProcessAttempts = 2
    MaxStranded = 1
    Faults = {"crash", "fail"}
INVARIANTS
    SentIsBounded
    FirstIsFirst
    IndInv
    ReplayAgrees
