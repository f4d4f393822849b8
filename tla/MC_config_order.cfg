SPECIFICATION Spec
CONSTANTS
    MaxIndex = 2
    Value <- Names
    Empty = ""
    Length <- ShortAndLong
    Capacity = 4
    MaxChanges = 5
INVARIANTS
    ClientUpToDate
CHECK_DEADLOCK FALSE
