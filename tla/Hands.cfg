SPECIFICATION MCSpec
CONSTANTS
    w = w
    E = E
    N = N
    H = H
    None = None
    Suits = {w}
    TopRank = 3
    Honors = {E, N}
    Flower = H
    HandSize = 4
    Decks <- MCDecks
    Winning <- MCWinning
    StrikeLimit = 2
    Flaky = {1}
INVARIANTS
    TilesConserved
    PositionSound
    RecordComplete
    RecordReplays
PROPERTIES
    PriorityHolds
    HandEnds
\* A hand ends.
CHECK_DEADLOCK FALSE
