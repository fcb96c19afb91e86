SPECIFICATION MCSpec
CONSTANTS
    Requests = {r1, r2, r3}
    Credentials = {c1, c2}
    NoCredential = NoCredential
    MaxCooldown = 1
    MaxCredits = 1
SYMMETRY Symmetry
CHECK_DEADLOCK FALSE
INVARIANTS CreditsAreSpentOnce
