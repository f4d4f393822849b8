SPECIFICATION FairSpec
CONSTANTS
    BufSize = 5
    Sizes = {1, 2}
    MaxCommands = 3
PROPERTIES
    CommandsExecuted
CHECK_DEADLOCK FALSE
