SPECIFICATION FairSpec
CONSTANTS
    BufSize = 5
    Sizes = {1, 2}
    MaxCommands = 6
INVARIANTS
    TypeOK
    ExecutedInOrder
    HandlerReadsWholeCommand
    NeverAsserts
    FinishMeansHandled
PROPERTIES
    FinishReturns
    CommandsExecutedIfTimed
CHECK_DEADLOCK FALSE
