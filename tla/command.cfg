SPECIFICATION CmdFairSpec
CONSTANTS
    MaxLength = 4
    Inputs <- SomeTexts
    MaxStages = 3
    MaxArgs = 3
    InputBuffer = 16
    StageLimit = 3
    PipeSize = 1
    Programs = {"copy", "write", "quick", "endless"}
    CallsMayFail = TRUE
INVARIANTS
    ParsesAsWritten
    TokensOwned
    ExecTypeOK
    PipeEndsConfined
    NothingLeftBehind
    ResultCoversAll
PROPERTIES
    EveryCommandEnds
CHECK_DEADLOCK FALSE
