SPECIFICATION Spec
CONSTANTS
    Callers = {c1, c2}
    Alarm = Alarm
    Flows = {"pkce", "device", "siwc"}
    Grants = {"own", "none", "same"}
    MaxAuth = 2
    MaxTokens = 4
SYMMETRY Symmetry
CHECK_DEADLOCK FALSE
INVARIANTS TokensAreSound SessionsAreSound
PROPERTIES DemandsAreDue FinishedIsFinal
