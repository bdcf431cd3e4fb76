SPECIFICATION BoundedSpec
CONSTANTS
    p1 = p1
    p2 = p2
    Pids = {p1, p2}
    Users <- UsersWithMinusOne
    LimitArgs = {1}
    PolicyArgs = {"fair"}
    FirstCapacity = 8
    AllocMayFail = FALSE
    OpenMayFail = FALSE
    MaxSubmissions = 3
    MaxFair = 3
SYMMETRY PidSymmetry
PROPERTIES
    PreviewIsDispatched
CHECK_DEADLOCK FALSE
