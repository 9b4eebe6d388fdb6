SPECIFICATION FairSpec
CONSTANTS
    a = a
    b = b
    Agent = Agent
    Sides <- MCSides
    CallTime = 1
    Extension = 2
    MaxExtends = 1
    MaxLeaves = 1
    Returners = {a}
    Strangers = {}
INVARIANT TypeOK
INVARIANT CallIsRecorded
INVARIANT ExtensionsAgree
PROPERTY CallEnds
CHECK_DEADLOCK FALSE
