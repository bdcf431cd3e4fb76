SPECIFICATION FairSpec
CONSTANTS
    Executors = {101, 103}
    StatusClients = {201}
    ShutdownClients = {301}
    Pids = {101, 103, 201, 301}
    Users = {1, 2}
    UserOf <- UserOfExecutor
    LimitArgs = {1}
    PolicyArgs = {"fcfs"}
    FirstCapacity = 8
    AllocMayFail = FALSE
    OpenMayFail = FALSE
    PipeCapacity = 1
    Mortal = {}
    CtlMortal = FALSE
    MaxStarts = 1
    Overlap = FALSE
INVARIANTS
    StatusSnapshot
PROPERTIES
    EveryRunnerEnds
    ShutdownCompletes
CHECK_DEADLOCK FALSE
