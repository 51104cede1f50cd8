SPECIFICATION Spec
CHECK_DEADLOCK FALSE
SYMMETRY Symmetry
CONSTANTS
    Kind = {"plain", "bridge"}
    HighPriority = {"bridge"}
    Health = {"bridge"}
    NoAnswer = NoAnswer
    Nothing = Nothing
    Event = {e1, e2}
    Written <- MCWritten
    Outcome <- MCOutcome
    LabelValue = {"critical"}
    MaxEdits = 2
    MinLabels = 1
    MinCritical = 1
    EditsWhileStarting = FALSE
INVARIANTS
    IndInv
    CriticalIsKept
    RoutesAreMonotone
    AskedAsConfigured
    InForceIsUsable
    NoEditLost
PROPERTIES
    DropsAreGuarded
