SPECIFICATION Spec
CONSTANTS
    Messages = {m1, m2}
    Notes = {n1, n2}
    Futures = {f1}
    Style = "MD_DIALOG"
    Warmup <- NoWarmup
    BlankReplies = FALSE
    HasReminder = FALSE
    PostProcessing = FALSE
    LimitsTrip = TRUE
    MayLapse = FALSE
    MaxTurns = 1
    Extension = 0
    MaxInstr = 2
    MaxSuspends = 0
    MaxPosts = 0
    MaxRestarts = 1
    NoFuture = NoFuture
    NoMsg = NoMsg
INVARIANT TypeOK
INVARIANT NotesArriveOnce
INVARIANT ReportedOnce
PROPERTY LateMessagesKeepWaiting
SYMMETRY Symmetry
CHECK_DEADLOCK FALSE
