SPECIFICATION FairSpec
CONSTANTS
    Messages = {m1}
    Notes = {n1}
    Futures = {f1}
    Style = "MD_DIALOG"
    Warmup <- NoWarmup
    BlankReplies = FALSE
    HasReminder = TRUE
    PostProcessing = FALSE
    LimitsTrip = FALSE
    MayLapse = FALSE
    MaxTurns = 1
    Extension = 0
    MaxInstr = 1
    MaxSuspends = 1
    MaxPosts = 0
    MaxRestarts = 1
    NoFuture = NoFuture
    NoMsg = NoMsg
PROPERTY NotesReachTheModel
PROPERTY SuspendedJobsResume
CHECK_DEADLOCK FALSE
