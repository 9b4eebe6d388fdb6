SPECIFICATION Spec
CONSTANTS
    a = a
    b = b
    c = c
    a1 = a1
    a2 = a2
    b1 = b1
    Users = {a, b}
    Conns = {a1, a2, b1}
    NoConn = NoConn
    Owner <- TabsOwner
    None = None
    Data <- TabsData
    Filters <- TabsFilters
    Events = {"entered", "accept", "rejected"}
    Expirable = {}
    MayRestart = FALSE
INVARIANT OnePlace
INVARIANT PairsTwoUsers
INVARIANT MatchesSuit
INVARIANT EnteredSwept
PROPERTY PairingSpec
