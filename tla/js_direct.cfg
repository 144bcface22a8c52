SPECIFICATION Spec
CONSTANTS
    Messages = {m1}
    Notes = {n1, n2}
    Futures = {f1}
    Style = "DIRECT"
    Warmup <- NoWarmup
    BlankReplies = FALSE
    HasReminder = TRUE
    PostProcessing = TRUE
    LimitsTrip = FALSE
    MayLapse = FALSE
    MaxTurns = 2
    Extension = 0
    MaxInstr = 1
    MaxSuspends = 0
    MaxPosts = 1
    MaxRestarts = 0
    NoFuture = NoFuture
    NoMsg = NoMsg
INVARIANT DoneMeansDrained
INVARIANT DoneMeansShown
SYMMETRY Symmetry
CHECK_DEADLOCK FALSE
