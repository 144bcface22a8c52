SPECIFICATION Spec
CONSTANTS
    Messages = {m1}
    Notes = {n1}
    Futures = {f1}
    Style = "PLAIN"
    Warmup <- TwoBlocks
    BlankReplies = FALSE
    HasReminder = FALSE
    PostProcessing = FALSE
    LimitsTrip = FALSE
    MayLapse = TRUE
    MaxTurns = 1
    Extension = 0
    MaxInstr = 2
    MaxSuspends = 2
    MaxPosts = 0
    MaxRestarts = 0
    NoFuture = NoFuture
    NoMsg = NoMsg
INVARIANT WaitersAreFound
PROPERTY LifecycleSpec
SYMMETRY Symmetry
CHECK_DEADLOCK FALSE
