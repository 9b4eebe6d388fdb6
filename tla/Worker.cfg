SPECIFICATION FairSpec
CONSTANTS
    None = None
    Procs = {p1, p2, p3}
    Jobs = {j1, j2}
    NumIdle = 1
    MaxInit = 1
    MaxFailures = 1
    MaxDrops = 1
INVARIANT TypeOK
INVARIANT NoOrphans
INVARIANT HandedOnce
 
 
PROPERTY WaitingJobGetsProcess
PROPERTY CloseEnds
CHECK_DEADLOCK FALSE
