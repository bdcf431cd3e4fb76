SPECIFICATION BoundedSpec
CONSTANTS
    p1 = p1
    p2 = p2
    Pids = {p1, p2}
    Users = {1, 2, 3}
    LimitArgs = {0, 1, 2}
    PolicyArgs = {"fcfs", "random", "fair"}
    FirstCapacity = 1
    AllocMayFail = FALSE
    OpenMayFail = FALSE
    MaxSubmissions = 3
    MaxFair = 4
SYMMETRY PidSymmetry
INVARIANTS
    CtlTypeOK
    SlotAccounting
    WorkConserving
    ArrivalOrder
    DrainedBeforeStop
    AcceptedOnce
    AtMostOneTurnEach
PROPERTIES
    PreviewIsDispatched
CHECK_DEADLOCK FALSE
