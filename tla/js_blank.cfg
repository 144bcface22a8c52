SPECIFICATION Spec
CONSTANTS
    Messages = {m1}
    Notes = {n1}
    Futures = {f1}
    Style = "DIRECT"
    Warmup <- NoWarmup
    BlankReplies = TRUE
    HasReminder = FALSE
    PostProcessing = FALSE
    LimitsTrip = FALSE
    MayLapse = FALSE
    MaxTurns = 2
    Extension = 0
    MaxInstr = 2
    MaxSuspends = 0
    MaxPosts = 0
    MaxRestarts = 0
    NoFuture = NoFuture
    NoMsg = NoMsg
INVARIANT DoneMeansDrained
SYMMETRY Symmetry
CHECK_DEADLOCK FALSE
