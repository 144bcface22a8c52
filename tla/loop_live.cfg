SPECIFICATION FairSpec
CONSTANTS
    a1 = a1
    a2 = a2
    j1 = j1
    j2 = j2
    j3 = j3
    NoJob = NoJob
    Jobs = {j1, j2}
    Agents = {a1}
    AgentOf <- OneAgent
    Fleet <- FleetOfOne
    MaxConcurrency = 1
    AutoTerminate = TRUE
    MaxSteps = 2
    MaxArrivals = 2
    MaxRestarts = 1
PROPERTY NoStarvation
PROPERTY WaitingJobsResume
PROPERTY TasksAreServed
PROPERTY LoopEnds
CHECK_DEADLOCK FALSE
