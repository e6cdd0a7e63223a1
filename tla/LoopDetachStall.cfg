SPECIFICATION FairSpec
CONSTANTS
    SeatCount = 2
    MaxHands = 3
    Moves = {"detach"}
PROPERTIES
    GateAdvances
\* The match ends and the table is closed.
CHECK_DEADLOCK FALSE
