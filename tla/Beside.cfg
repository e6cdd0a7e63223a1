SPECIFICATION MCSpec
CONSTANTS
    None = None
    Accounts = {alice}
    alice = alice
    Account <- MCAccount
    HowWon <- MCHowWon
    Conversion <- MCConversion
    DealerRepeats = TRUE
    MaxBoots = 2
    MaxHands = 2
    MaxFaults = 1
    PageSizes = {2}
    FromDataDir = TRUE
    MaxPrompts = 4
    StrikeLimit = 2
    Hands = 4
    MaxWorkers = 2
    Configs = {1, 2}
    MaxRuns = 3
    p1 = p1
    p2 = p2
    Pages = {p1, p2}
INVARIANTS
    IndexTellsTruth
    StandingsAgree
    ReportIsFair
    AnswersInTurn
    NoProcessOutlives
    SuccessIsComplete
    OneServer
PROPERTIES
    RecordsStand
    BadgesKept
    ReservedEnds
    CorpusStands
    PagesShowTheServer
CHECK_DEADLOCK FALSE
