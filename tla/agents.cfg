SPECIFICATION AgentsSpec
CONSTANTS
    Subjects = {"push", "delegation", "definitions", "client", "contexts", "single context", "shared"}
    PushSetups <- MCPushSetups
    PushTargets = {"j1", "j2", "a1", "a2"}
    Supervised = {"a1", "a2"}
    PrefixOf <- MCPrefixOf
    AnyPrefix = "any"
    MaxPushed = 3
    DgSetups <- MCDgSetups
    HashOf <- MCHashOf
    DefSetups <- MCDefSetups
    Builtin = {"openrouter"}
    Addable = {"openrouter", "local"}
    KeyVersions = {1}
    DecisionAPIs = {"systemone", "openai"}
    QuestionNames = {"a", "b"}
    Jobs = {"j1", "j2", "j3"}
    MaxConcurrency = 3
    MaxContexts = 2
    Python = Python
    NoJob = NoJob
    SharingJobs = {"j1", "j2"}
    Specifiers = {"p"}
    Names = {"x"}
    Categories = {"c"}
    MaxSets = 2
    MaxInits = 2
    MaxBlocks = 2
INVARIANT AgentsTypeOK
INVARIANT EntriesAreKept
INVARIANT HandlersRunOnce
INVARIANT OutcomeReachesParent
INVARIANT MuteResultRemembersErrors
INVARIANT JobsRunAsAsked
INVARIANT HeldBackOncePerCheck
INVARIANT AddedProviderIsUsed
INVARIANT ContextsNest
INVARIANT OutputStaysWithOnePermit
INVARIANT NamesKeepTheirMeaning
PROPERTY QueuesAreDrained
CHECK_DEADLOCK FALSE
