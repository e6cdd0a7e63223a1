SPECIFICATION MCSpec
CONSTANTS
    None = None
    c1 = c1
    c2 = c2
    c3 = c3
    x = x
    y = y
    NoConn = NoConn
    NoUser = NoUser
    Conns <- PairConns
    Users <- MCUsers
    Owner <- PairOwner
    BufferCapacity = 2
    MaxHands = 1
    MaxPrompts = 2
    Suspends = {"takeover", "resume", "detach", "next_hand", "shutdown"}
    p1 = p1
    p2 = p2
    Pages = {p1, p2}
    Attempts = 2
    MaxDrops = 1
    MaxClicks = 2
PROPERTIES
    DecideResolves
    HoldEnds
    PageSettles
    HandStarts
\* The match ends, the table closes or every client has gone.
CHECK_DEADLOCK FALSE
