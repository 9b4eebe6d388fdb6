SPECIFICATION Spec
CONSTANTS
    None = None
    Rooms = {r1, r2}
    Socks = {s1, s2}
    CountFrom = 2
    Backlog = 2
SYMMETRY Alike
INVARIANT TypeOK
INVARIANT RefIsLive
INVARIANT SearchGoesOn
PROPERTY FullCountdown
CHECK_DEADLOCK FALSE
