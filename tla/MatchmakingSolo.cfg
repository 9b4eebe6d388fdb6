SPECIFICATION Spec
CONSTANTS
    a = a
    b = b
    c = c
    a1 = a1
    a2 = a2
    b1 = b1
    Users = {a, b, c}
    Conns = {a, b, c}
    NoConn = NoConn
    Owner <- SoloOwner
    None = None
    Data <- Alike
    Filters <- Anyone
    Events = {"entered", "accept", "rejected"}
    Expirable = {a, b, c}
    MayRestart = TRUE
SYMMETRY SoloSymmetry
INVARIANT TypeOK
INVARIANT OnePlace
INVARIANT EnteredSwept
PROPERTY ProposalIsLive
PROPERTY PairingSpec
