SPECIFICATION Spec
CONSTANTS
    Conns = {c1, c2}
    c1 = c1
    c2 = c2
    Ids = {a1, a2}
    a2 = a2
    a1 = a1
    MsgIds = {1}
    Lobbies = 1
    MaxUsers = 2
    MaxMade = 2
    MaxBatch = 2
INVARIANT RoomsArePlaced
PROPERTY Answered
PROPERTY ChangesAreTold
VIEW Seen
SYMMETRY Symmetry
CHECK_DEADLOCK FALSE
