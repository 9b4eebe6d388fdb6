SPECIFICATION Spec
CONSTANTS
    None = None
    Procs = {p1, p2, p3}
    Jobs = {j1, j2}
    NumIdle = 1
    MaxInit = 1
    MaxFailures = 1
    MaxDrops = 1
CHECK_DEADLOCK FALSE
PROPERTY DrainWaitsForJobs
