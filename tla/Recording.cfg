SPECIFICATION FairSpec
CONSTANTS
    a = a
    b = b
    Sides = {a, b}
    MaxRooms = 2
    Tries = 2
INVARIANT TypeOK
INVARIANT LinkedFileExists
PROPERTY JobEnds
CHECK_DEADLOCK FALSE
