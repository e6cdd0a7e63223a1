SPECIFICATION Spec
CONSTANTS
    c1 = c1
    c2 = c2
    c3 = c3
    x = x
    y = y
    NoConn = NoConn
    NoUser = NoUser
    Conns <- MCConns
    Users <- MCUsers
    Owner <- MCOwner
    BufferCapacity = 2
    MaxHands = 2
    MaxPrompts = 1
    Suspends = {"next_hand"}
SYMMETRY MCSymmetry
INVARIANTS
    HandLoopSurvives
\* The match ends, the table closes or every client has gone.
CHECK_DEADLOCK FALSE
