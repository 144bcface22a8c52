SPECIFICATION Spec
CONSTANTS
    Messages = {m1}
    Notes = {n1}
    Futures = {f1}
    Style = "MD_DIALOG"
    Warmup <- OneBlock
    BlankReplies = FALSE
    HasReminder = FALSE
    PostProcessing = FALSE
    LimitsTrip = FALSE
    MayLapse = FALSE
    MaxTurns = 2
    Extension = 0
    MaxInstr = 2
    MaxSuspends = 0
    MaxPosts = 0
    MaxRestarts = 0
    NoFuture = NoFuture
    NoMsg = NoMsg
INVARIANT DoneMeansShown
SYMMETRY Symmetry
CHECK_DEADLOCK FALSE
