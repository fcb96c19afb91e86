SPECIFICATION MCSpec
CONSTANTS
    None = None
    Objects = {"a", "b"}
    Processes = {1, 2}
    Jobs = {"j1", "j2"}
    ObjectOf <- MCObjectOf
    MaxFailures = 1
    N = 4
    Finished = {2}
    Invalid = {3}
    Ignored = {4}
    BatchSize = 2
    MaxBatches = 1
    RetryDelay = 1
    Backoffs = {1}
    InspectDelay = 2
    MaxFaults = 1
CHECK_DEADLOCK FALSE
INVARIANTS RecordsAreKept JobsAreArmed
PROPERTIES WorkIsDone
