SPECIFICATION Spec
CONSTANTS
    a = a
    b = b
    c = c
    a1 = a1
    a2 = a2
    b1 = b1
    Users = {a, b}
    Conns = {a, b}
    NoConn = NoConn
    Owner <- SoloOwner
    None = None
    Data <- Alike
    Filters <- Anyone
    Events = {"entered", "rejected"}
    Expirable = {}
    MayRestart = FALSE
INVARIANT QueuedIsMatchable
