SPECIFICATION Spec
CONSTANTS
    Messages = {m1}
    Notes = {n1}
    Futures = {f1}
    Style = "MD_DIALOG"
    Warmup <- NoWarmup
    BlankReplies = FALSE
    HasReminder = FALSE
    PostProcessing = FALSE
    LimitsTrip = FALSE
    MayLapse = FALSE
    MaxTurns = 2
    Extension = 0
    MaxInstr = 2
    MaxSuspends = 1
    MaxPosts = 0
    MaxRestarts = 0
    NoFuture = NoFuture
    NoMsg = NoMsg
INVARIANT ContinuationsResumeTheirBlock
SYMMETRY Symmetry
CHECK_DEADLOCK FALSE
