SPECIFICATION CmdSpec
CONSTANTS
    MaxLength = 4
    Inputs <- SomeTexts
    MaxStages = 3
    MaxArgs = 3
    InputBuffer = 16
    StageLimit = 3
    PipeSize = 1
    Programs = {"copy", "write", "quick", "endless"}
    CallsMayFail = TRUE
INVARIANTS
    AllTokensFreed
CHECK_DEADLOCK FALSE
