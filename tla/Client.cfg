SPECIFICATION ClientSpec
CONSTANTS
    w = w
    E = E
    N = N
    H = H
    None = None
    Suits = {w}
    TopRank = 3
    Honors = {E, N}
    Flower = H
    HandSize = 4
    Decks <- OneDeck
    Winning <- MCWinning
    StrikeLimit = 2
    Flaky = {}
    Moments = {"between_steps"}
INVARIANTS
    BoardFollows
\* A hand ends.
CHECK_DEADLOCK FALSE
