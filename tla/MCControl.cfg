SPECIFICATION MCSpec
CONSTANTS
    None = None
    Variant <- MCVariant
    Accounts <- MCAccounts
    Actors = {"a1", "a2"}
    Operations = {"o1", "o2"}
    Workers = {1, 2}
    Loads = {l1, l2}
    Suites <- MCSuites
    FirstRows <- MCRows
    FirstSecrets <- MCSecrets
    MaxReads = 3
CHECK_DEADLOCK FALSE
INVARIANTS TurnsAreSound UsageIsKept AnswersAreTrue
PROPERTIES ImplementsRegister CommitsAreJust AwaitingEnds
