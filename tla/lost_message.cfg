SPECIFICATION Spec
CONSTANTS
    Executors = {101, 102}
    StatusClients = {}
    ShutdownClients = {}
    Pids = {101, 102}
    Users = {1, 2}
    UserOf <- UserOfExecutor
    LimitArgs = {1}
    PolicyArgs = {"random"}
    FirstCapacity = 8
    AllocMayFail = FALSE
    OpenMayFail = FALSE
    PipeCapacity = 2
    Mortal = {}
    CtlMortal = FALSE
    MaxStarts = 1
    Overlap = FALSE
INVARIANTS
    NothingLost
CHECK_DEADLOCK FALSE
