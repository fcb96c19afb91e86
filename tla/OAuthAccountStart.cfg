SPECIFICATION Spec
CONSTANTS
    Callers = {c1, c2}
    Alarm = Alarm
    Flows = {"siwc"}
    Grants = {"own", "none"}
    MaxAuth = 3
    MaxTokens = 3
SYMMETRY Symmetry
CHECK_DEADLOCK FALSE
INVARIANT OwnFailure
