SPECIFICATION Spec
CONSTANTS
    Executors = {101, 103}
    StatusClients = {201}
    ShutdownClients = {}
    Pids = {101, 103, 201}
    Users = {1, 2}
    UserOf <- UserOfExecutor
    LimitArgs = {1, 2}
    PolicyArgs = {"fcfs"}
    FirstCapacity = 8
    AllocMayFail = TRUE
    OpenMayFail = FALSE
    PipeCapacity = 1
    Mortal = {101}
    CtlMortal = TRUE
    MaxStarts = 2
    Overlap = FALSE
INVARIANTS
    TypeOK
    StatusSnapshot
    ReplyFifoExists
    AuthorizedHoldsSlot
    FinishedIsLogged
PROPERTIES
    ImplementsJobService
CHECK_DEADLOCK FALSE
