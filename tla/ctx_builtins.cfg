SPECIFICATION Spec
CONSTANTS
    Jobs = {j1, j2}
    MaxConcurrency = 2
    MaxContexts = 2
    Python = Python
    NoJob = NoJob
INVARIANT BuiltinsAreRestored
SYMMETRY JobSymmetry
CHECK_DEADLOCK FALSE
