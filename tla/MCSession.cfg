SPECIFICATION MCSpec
CONSTANTS
    Models = {m1, m2}
    CandidateLists <- Lists
    Tasks = {t1, t2}
    Managers = {g1}
    Alarm = Alarm
    TTL = 1
    MaxTime = 1
    MaxBindings = 2
    MaxGeneration = 3
    None = None
SYMMETRY Symmetry
INVARIANTS BindingsAreSound XaiHistoryIsSound XaiStreamIsWellFormed AntigravityIsSound AnswersAreComplete
PROPERTIES ClearsOnlyWhatItSaw
CHECK_DEADLOCK FALSE
