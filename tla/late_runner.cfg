SPECIFICATION Spec
CONSTANTS
    Executors = {101}
    StatusClients = {}
    ShutdownClients = {301}
    Pids = {101, 301}
    Users = {1, 2}
    UserOf <- UserOfExecutor
    LimitArgs = {1}
    PolicyArgs = {"fcfs"}
    FirstCapacity = 8
    AllocMayFail = FALSE
    OpenMayFail = FALSE
    PipeCapacity = 2
    Mortal = {}
    CtlMortal = FALSE
    MaxStarts = 1
    Overlap = FALSE
INVARIANTS
    NewRunnersAnswered
CHECK_DEADLOCK FALSE
