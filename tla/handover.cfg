SPECIFICATION Spec
CONSTANTS
    Executors = {}
    StatusClients = {201}
    ShutdownClients = {301}
    Pids = {201, 301}
    Users = {1, 2}
    UserOf <- UserOfExecutor
    LimitArgs = {1}
    PolicyArgs = {"fcfs"}
    FirstCapacity = 8
    AllocMayFail = FALSE
    OpenMayFail = FALSE
    PipeCapacity = 2
    Mortal = {}
    CtlMortal = FALSE
    MaxStarts = 2
    Overlap = TRUE
INVARIANTS
    ServedFifoHasName
CHECK_DEADLOCK FALSE
