SPECIFICATION Spec
CONSTANTS
    a1 = a1
    a2 = a2
    j1 = j1
    j2 = j2
    j3 = j3
    NoJob = NoJob
    Jobs = {j1, j2, j3}
    Agents = {a1, a2}
    AgentOf <- TwoAgents
    Fleet <- FleetOfTwo
    MaxConcurrency = 2
    AutoTerminate = FALSE
    MaxSteps = 1
    MaxArrivals = 2
    MaxRestarts = 0
INVARIANT TypeOK
INVARIANT OneTaskPerJob
INVARIANT LoopNeverOvercreates
PROPERTY JobsFollowLifecycle
SYMMETRY TwoAgentsSymmetry
CHECK_DEADLOCK FALSE
