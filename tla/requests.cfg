SPECIFICATION RequestsSpec
CONSTANTS
    Subjects = {"history", "difficulty", "wire", "routing", "tools"}
    JobDefs <- MCJobDefs
    Replies <- MCReplies
    DiffSetups <- MCDiffSetups
    Receiver = "self"
    ReplySizes = {1}
    MaxUsage = 5
    MaxReopened = 1
    WireProviders = {"openrouter", "groq", "google", "claude"}
    FormatOf <- MCFormatOf
    CalledTools <- MCCalledTools
    MaxItems = 3
    Configs = {"c1", "c2"}
    NodesOf <- MCNodesOf
    RoutingSetups <- MCRoutingSetups
    Providers = {"openrouter", "groq"}
    DefaultProvider = "openrouter"
    KeepsFamily = {"openrouter"}
    Absent = "none"
    ToolInfo <- MCToolInfo
    ToolSetups <- MCToolSetups
INVARIANT RequestsTypeOK
INVARIANT HistoryCountsOnce
INVARIANT RequestsAreReproduced
INVARIANT CompactionKeepsTheRest
INVARIANT SnapshotIsStable
 
INVARIANT RequestsHaveOneLevel
INVARIANT ConversationArrives
INVARIANT RequestsFitTheirModel
INVARIANT ToolsAreAsScoped
CHECK_DEADLOCK FALSE
