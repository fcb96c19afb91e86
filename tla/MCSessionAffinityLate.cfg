SPECIFICATION MCSpec
CONSTANTS
    Models = {m1}
    CandidateLists <- Lists
    Tasks = {t1, t2}
    Managers = {g1}
    Alarm = Alarm
    TTL = 1
    MaxTime = 0
    MaxBindings = 3
    MaxGeneration = 3
    None = None
SYMMETRY Symmetry
INVARIANT RepairIsPossible
CHECK_DEADLOCK FALSE
