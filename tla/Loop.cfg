SPECIFICATION MCSpec
CONSTANTS
    SeatCount = 2
    MaxHands = 3
    Moves = {"detach", "drop", "early_ready", "late_start"}
INVARIANTS
    DrainKeepsHand
PROPERTIES
    NobodySteamrolled
    GateAdvancesIfAllStay
    StopEndsLoop
\* The match ends and the table is closed.
CHECK_DEADLOCK FALSE
