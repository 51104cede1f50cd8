SPECIFICATION Spec
CHECK_DEADLOCK FALSE
CONSTANTS
    Kind = {"plain"}
    HighPriority = {}
    Health = {}
    NoAnswer = NoAnswer
    Unlabelled = Unlabelled
    Event = {e1, e2}
    KindOf <- MCKindOf
    Baseline <- MCBaseline
    Candidate <- MCCandidate
    Outcome <- MCOutcome
    Reclassify = TRUE
PROPERTIES
    PassedDropsNoCritical
