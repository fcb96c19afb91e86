SPECIFICATION StdFairSpec
CONSTANTS
    N = 2
    Finished = {2}
    Invalid = {}
    Ignored = {}
    BatchSize = 1
    MaxBatches = 1
    RetryDelay = 2
    Backoffs = {1, 3}
    InspectDelay = 3
    MaxFaults = 0
CHECK_DEADLOCK FALSE
PROPERTIES DueAlarmResumes
