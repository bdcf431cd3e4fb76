SPECIFICATION Spec
CONSTANTS
    Executors = {101, 103}
    StatusClients = {}
    ShutdownClients = {301}
    Pids = {101, 103, 301}
    Users = {1, 2}
    UserOf <- UserOfExecutor
    LimitArgs = {1, 2}
    PolicyArgs = {"fair"}
    FirstCapacity = 1
    AllocMayFail = TRUE
    OpenMayFail = TRUE
    PipeCapacity = 1
    Mortal = {}
    CtlMortal = FALSE
    MaxStarts = 2
    Overlap = TRUE
INVARIANTS
    AuthorizedHoldsSlot
PROPERTIES
    ImplementsJobService
CHECK_DEADLOCK FALSE
