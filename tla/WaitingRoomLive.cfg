SPECIFICATION FairSpec
CONSTANTS
    None = None
    Rooms = {r1, r2}
    Socks = {s1}
    CountFrom = 2
    Backlog = 1
PROPERTY ProposalResolved
CHECK_DEADLOCK FALSE
