SPECIFICATION BotSpec
CONSTANTS
    None = None
    MaxPrompts = 2
    StrikeLimit = 2
PROPERTIES
    TimeoutEndsProcess
CHECK_DEADLOCK FALSE
